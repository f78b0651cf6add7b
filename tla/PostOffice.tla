----------------------------- MODULE PostOffice -----------------------------
(***************************************************************************)
(* The network and the post office: the simulated network device           *)
(* (network.cpp) over a named pipe per host (sysdep.cpp), mailboxes and    *)
(* the postal worker (post.cpp), and threads that run NetworkTest.  Every  *)
(* host is a process of its own, in which only one thing happens at a      *)
(* time: a host that waits for a pipe does nothing else.  A mailbox is a   *)
(* synchronized list, taken as the queue that SynchList shows it to be.    *)
(***************************************************************************)
EXTENDS Integers, Sequences, FiniteSets

CONSTANTS Hosts,        \* {0, 1}, as in NetworkTest
          Clients,      \* clients[h]: the threads of host h in NetworkTest
          NoMessage, NoClient,
          MaxRetries    \* the attempts SendToPipe makes

VARIABLES
  pipe,        \* the pipe of each host: "absent", "listening", "connected", "written"
  packet,      \* what has been written to it
  connecting,  \* how far SendToPipe has come: failed attempts, or -1 when connected
  inHdr,       \* NetworkInput::inHdr and inbox, NoMessage when the length is 0
  available,   \* the value of messageAvailable
  worker,      \* the postal worker: "wait", "receive", "put"
  carried,     \* the message it carries
  boxes,       \* PostOfficeInput::boxes
  sendLock,    \* the thread that holds it
  sendBusy,    \* NetworkOutput::sendBusy, with the NetworkSendInt to come
  messageSent, \* the value of that semaphore
  step,        \* where each thread is in NetworkTest
  inMail,      \* the last message it has received
  lost,        \* history: the messages the network has dropped
  aborted      \* the hosts that an assertion has stopped

postVars == <<pipe, packet, connecting, inHdr, available, worker, carried, boxes, sendLock, sendBusy,
              messageSent, step, inMail, lost, aborted>>

TestThreads == UNION {Clients[h] : h \in Hosts}
HostOf(t) == CHOOSE h \in Hosts : t \in Clients[h]
Far(h) == 1 - h

(***************************************************************************)
(* A message is known by its sender and its kind.  The first goes to box 0 *)
(* of the other host; an acknowledgement to box 1, the sender of the first *)
(* having written that into mailHdr.from.                                  *)
(***************************************************************************)
Messages == [from : TestThreads, kind : {"hello", "ack"}, to : Hosts]
Box(m) == IF m.kind = "hello" THEN 0 ELSE 1
Hello(t) == [from |-> t, kind |-> "hello", to |-> Far(HostOf(t))]
Ack(t) == [from |-> t, kind |-> "ack", to |-> HostOf(inMail[t].from)]

ASSUME PostAssumption ==
  /\ Hosts = {0, 1} /\ MaxRetries \in Nat \ {0}
  /\ Clients[0] \cap Clients[1] = {}
  /\ NoClient \notin TestThreads /\ NoMessage \notin Messages

\* Where a thread is in SendToPipe with a message of either kind, and when it has
\* handed it to the network.
InPipe == [hello |-> "helloInPipe", ack |-> "ackInPipe"]
Handed == [hello |-> "helloSent", ack |-> "ackSent"]

PostInit ==
  /\ pipe = [h \in Hosts |-> "absent"]
  /\ packet = [h \in Hosts |-> NoMessage]
  /\ connecting = [h \in Hosts |-> 0]
  /\ inHdr = [h \in Hosts |-> NoMessage]
  /\ available = [h \in Hosts |-> 0]
  /\ worker = [h \in Hosts |-> "wait"]
  /\ carried = [h \in Hosts |-> NoMessage]
  /\ boxes = [h \in Hosts |-> [b \in {0, 1} |-> <<>>]]
  /\ sendLock = [h \in Hosts |-> NoClient]
  /\ sendBusy = [h \in Hosts |-> FALSE]
  /\ messageSent = [h \in Hosts |-> 0]
  /\ step = [t \in TestThreads |-> "hello"]
  /\ inMail = [t \in TestThreads |-> NoMessage]
  /\ lost = {} /\ aborted = {}

-----------------------------------------------------------------------------

\* Is host h inside SendToPipe?
Sending(h) == \E t \in Clients[h] : step[t] \in {"helloInPipe", "ackInPipe"}

\* Can anything else happen on host h?
Runs(h) == h \notin aborted /\ pipe[h] # "absent" /\ ~Sending(h)

Advance(t, s) == step' = [step EXCEPT ![t] = s]

\* The constructors of NetworkInput and PostOfficeInput.
BootHost(h) ==
  /\ pipe[h] = "absent"
  /\ pipe' = [pipe EXCEPT ![h] = "listening"]
  /\ UNCHANGED <<packet, connecting, inHdr, available, worker, carried, boxes,
                 sendLock, sendBusy, messageSent, step, inMail, lost, aborted>>

\* PostOfficeOutput::Send, up to sendLock->Acquire(), and NetworkOutput::Send, up to
\* the toss of the coin: the packet is dropped, or goes to SendToPipe.
Send(h, t, kind, m) ==
  /\ Runs(h) /\ step[t] = kind
  /\ sendLock[h] = NoClient
  /\ sendLock' = [sendLock EXCEPT ![h] = t]
  /\ sendBusy' = [sendBusy EXCEPT ![h] = TRUE]
  /\ \/ lost' = lost \cup {m} /\ Advance(t, Handed[kind]) /\ UNCHANGED connecting
     \/ connecting' = [connecting EXCEPT ![h] = 0] /\ Advance(t, InPipe[kind])
        /\ UNCHANGED lost
  /\ UNCHANGED <<pipe, packet, inHdr, available, worker, carried, boxes, messageSent,
                 inMail, aborted>>

\* One turn of the loop in SendToPipe: the pipe has one instance, and its owner
\* must be listening.
TryPipe(h, t, kind, m) ==
  /\ h \notin aborted /\ step[t] = InPipe[kind] /\ connecting[h] >= 0
  /\ IF pipe[m.to] = "listening"
     THEN /\ pipe' = [pipe EXCEPT ![m.to] = "connected"]
          /\ connecting' = [connecting EXCEPT ![h] = -1]
          /\ UNCHANGED <<step, lost>>
     ELSE /\ IF connecting[h] + 1 < MaxRetries
             THEN /\ connecting' = [connecting EXCEPT ![h] = @ + 1]
                  /\ UNCHANGED <<step, lost>>
             ELSE /\ lost' = lost \cup {m}
                  /\ Advance(t, Handed[kind])
                  /\ UNCHANGED connecting
          /\ UNCHANGED pipe
  /\ UNCHANGED <<packet, inHdr, available, worker, carried, boxes, sendLock, sendBusy,
                 messageSent, inMail, aborted>>

\* WriteFile, on a pipe that its owner may have closed by now.
WritePipe(h, t, kind, m) ==
  /\ h \notin aborted /\ step[t] = InPipe[kind] /\ connecting[h] = -1
  /\ IF pipe[m.to] = "connected"
     THEN /\ pipe' = [pipe EXCEPT ![m.to] = "written"]
          /\ packet' = [packet EXCEPT ![m.to] = m]
          /\ UNCHANGED lost
     ELSE lost' = lost \cup {m} /\ UNCHANGED <<pipe, packet>>
  /\ Advance(t, Handed[kind])
  /\ UNCHANGED <<connecting, inHdr, available, worker, carried, boxes, sendLock,
                 sendBusy, messageSent, inMail, aborted>>

\* NetworkOutput::CallBack, called even if the packet was dropped.
SendDone(h) ==
  /\ Runs(h) /\ sendBusy[h]
  /\ sendBusy' = [sendBusy EXCEPT ![h] = FALSE]
  /\ messageSent' = [messageSent EXCEPT ![h] = @ + 1]
  /\ UNCHANGED <<pipe, packet, connecting, inHdr, available, worker, carried, boxes,
                 sendLock, step, inMail, lost, aborted>>

\* Mutation: Send returns with the lock in its hands.
EndSendLocked(h, t, kind, next) ==
  /\ Runs(h) /\ step[t] = Handed[kind] /\ messageSent[h] > 0
  /\ messageSent' = [messageSent EXCEPT ![h] = @ - 1]
  /\ Advance(t, next)
  /\ UNCHANGED <<pipe, packet, connecting, inHdr, available, worker, carried, boxes,
                 sendLock, sendBusy, inMail, lost, aborted>>

\* messageSent->P() and sendLock->Release().
EndSend(h, t, kind, next) ==
  /\ Runs(h) /\ step[t] = Handed[kind] /\ messageSent[h] > 0
  /\ messageSent' = [messageSent EXCEPT ![h] = @ - 1]
  /\ sendLock' = [sendLock EXCEPT ![h] = NoClient]
  /\ Advance(t, next)
  /\ UNCHANGED <<pipe, packet, connecting, inHdr, available, worker, carried, boxes,
                 sendBusy, inMail, lost, aborted>>

\* Mutation: the device reads the next packet over one that is still there.
MayReadAlways(h) == pipe[h] \in {"connected", "written"}

\* May NetworkInput::CallBack go on to ReadFromPipe?
MayRead(h) == inHdr[h] = NoMessage /\ pipe[h] \in {"connected", "written"}

\* NetworkInput::CallBack.  PollPipe says whether somebody has connected, and
\* ReadFromPipe asserts that it got a whole packet: it may not be written yet.
PollNetwork(h) ==
  /\ Runs(h) /\ MayRead(h)
  /\ IF pipe[h] = "connected"
     THEN /\ aborted' = aborted \cup {h}
          /\ UNCHANGED <<pipe, packet, inHdr, available>>
     ELSE /\ inHdr' = [inHdr EXCEPT ![h] = packet[h]]
          /\ pipe' = [pipe EXCEPT ![h] = "listening"]
          /\ packet' = [packet EXCEPT ![h] = NoMessage]
          /\ available' = [available EXCEPT ![h] = @ + 1]
          /\ UNCHANGED aborted
  /\ UNCHANGED <<connecting, worker, carried, boxes, sendLock, sendBusy, messageSent,
                 step, inMail, lost>>

\* PostalDelivery: messageAvailable->P().
AwaitMail(h) ==
  /\ Runs(h) /\ worker[h] = "wait" /\ available[h] > 0
  /\ available' = [available EXCEPT ![h] = @ - 1]
  /\ worker' = [worker EXCEPT ![h] = "receive"]
  /\ UNCHANGED <<pipe, packet, connecting, inHdr, carried, boxes, sendLock, sendBusy,
                 messageSent, step, inMail, lost, aborted>>

\* NetworkInput::Receive.
ReceivePacket(h) ==
  /\ Runs(h) /\ worker[h] = "receive"
  /\ worker' = [worker EXCEPT ![h] = "put"]
  /\ carried' = [carried EXCEPT ![h] = inHdr[h]]
  /\ inHdr' = [inHdr EXCEPT ![h] = NoMessage]
  /\ UNCHANGED <<pipe, packet, connecting, available, boxes, sendLock, sendBusy,
                 messageSent, step, inMail, lost, aborted>>

\* MailBox::Put.
PutInBox(h) ==
  /\ Runs(h) /\ worker[h] = "put"
  /\ boxes' = [boxes EXCEPT ![h][Box(carried[h])] = Append(@, carried[h])]
  /\ worker' = [worker EXCEPT ![h] = "wait"]
  /\ carried' = [carried EXCEPT ![h] = NoMessage]
  /\ UNCHANGED <<pipe, packet, connecting, inHdr, available, sendLock, sendBusy,
                 messageSent, step, inMail, lost, aborted>>

\* PostOfficeInput::Receive, and MailBox::Get.
Get(h, t, box, from, to) ==
  /\ Runs(h) /\ step[t] = from /\ boxes[h][box] # <<>>
  /\ inMail' = [inMail EXCEPT ![t] = Head(boxes[h][box])]
  /\ boxes' = [boxes EXCEPT ![h][box] = Tail(@)]
  /\ Advance(t, to)
  /\ UNCHANGED <<pipe, packet, connecting, inHdr, available, worker, carried, sendLock,
                 sendBusy, messageSent, lost, aborted>>

\* The body of one Send.
InSend(h, t, kind, m, next) ==
  \/ Send(h, t, kind, m) \/ TryPipe(h, t, kind, m) \/ WritePipe(h, t, kind, m)
  \/ EndSend(h, t, kind, next)

\* NetworkTest: a first message, the other's first message, an acknowledgement to
\* its sender, and the acknowledgement of one's own.
NetworkTest(h, t) ==
  \/ InSend(h, t, "hello", Hello(t), "getHello")
  \/ Get(h, t, 0, "getHello", "ack")
  \/ step[t] \in {"ack", "ackInPipe", "ackSent"} /\ InSend(h, t, "ack", Ack(t), "getAck")
  \/ Get(h, t, 1, "getAck", "done")

PostalDelivery(h) == AwaitMail(h) \/ ReceivePacket(h) \/ PutInBox(h)

PostNext ==
  \E h \in Hosts : \/ BootHost(h) \/ SendDone(h) \/ PollNetwork(h) \/ PostalDelivery(h)
                   \/ \E t \in Clients[h] : NetworkTest(h, t)

PostSpec == PostInit /\ [][PostNext]_postVars

-----------------------------------------------------------------------------
(***************************************************************************)
(* Properties.                                                             *)
(***************************************************************************)

SentBy(t, kind) ==
  \/ step[t] \in {"ackSent", "getAck", "done"}
  \/ kind = "hello" /\ step[t] \in {"helloSent", "getHello", "ack", "ackInPipe"}

\* The messages that have been handed to the network.
Sent == {Hello(t) : t \in {u \in TestThreads : SentBy(u, "hello")}}
          \cup {m \in Messages : m.kind = "ack" /\ SentBy(m.from, "ack")}

\* The number of places between the pipe and the mailbox where m is.
Copies(m) ==
  LET here(h) == IF packet[h] = m THEN 1 ELSE 0
      held(h) == (IF inHdr[h] = m THEN 1 ELSE 0) + (IF carried[h] = m THEN 1 ELSE 0)
      boxed(h) == Cardinality({i \in 1..Len(boxes[h][Box(m)]) : boxes[h][Box(m)][i] = m})
  IN here(m.to) + held(m.to) + boxed(m.to)

\* The one-packet device, its poll and the postal worker agree: messageAvailable
\* announces exactly the packet that is buffered, so that the worker never takes
\* an empty one and puts the old buffer into a mailbox again, and no message is
\* in two places on its way, nor anywhere after it was lost, nor before it is sent.
OneCopy ==
  /\ \A h \in Hosts :
       available[h] + (IF worker[h] = "receive" THEN 1 ELSE 0)
         = IF inHdr[h] = NoMessage THEN 0 ELSE 1
  /\ \A m \in Messages : Copies(m) <= IF m \in Sent \ lost THEN 1 ELSE 0
  /\ \A h \in Hosts : sendBusy[h] => sendLock[h] # NoClient /\ messageSent[h] = 0

\* NetworkTest ends on both hosts unless the network drops a message, or a
\* host stops at ReadFromPipe's assertion: two hosts that wait for each other's pipes
\* do not wait for ever.
TestsEnd ==
  pipe[0] = "listening" ~> lost # {} \/ aborted # {} \/ \A t \in TestThreads : step[t] = "done"
=============================================================================
