------------------------------- MODULE Channel -------------------------------
(***************************************************************************)
(* The channel object of the language (ChannelObject in pkg/vm/object.go)  *)
(* as every thread of execution, that is the main VM and the VM of every   *)
(* `go` statement, uses it concurrently.                                   *)
(*                                                                         *)
(* The object holds a Go channel Ch, a mutex mu and a flag closed.  Send   *)
(* reads closed under mu, RELEASES mu, and only then does `c.Ch <- v`:     *)
(* Close may run in between, and may also run while senders are parked in  *)
(* the Go channel.  Both make the Go runtime panic in the sender; VM.Run   *)
(* recovers the panic and the thread of execution ends.                    *)
(*                                                                         *)
(* buf, sendq and recvq are the buffer and the two wait queues of the Go   *)
(* runtime's channel, chClosed its own closed mark.  A thread of execution *)
(* that is parked is in one of the queues.  The variables after pc only    *)
(* record what happened.                                                   *)
(***************************************************************************)
EXTENDS Integers, Sequences, FiniteSets

CONSTANTS Procs,     \* the threads of execution that share the channel
          Caps,      \* bound: the capacities chan() may be given
          MaxSends,  \* bound: how many messages one thread of execution sends
          Nobody     \* not a thread of execution: the mutex is free

ASSUME ChannelAssumption ==
  /\ Caps \subseteq Nat
  /\ MaxSends \in Nat
  /\ Nobody \notin Procs

VARIABLES cap,       \* cap(c.Ch), which never changes
          closed,    \* ChannelObject.closed
          mu,        \* who holds ChannelObject.mu
          chClosed,  \* close(c.Ch) has happened
          buf,       \* messages in the buffer of Ch, oldest first
          sendq,     \* who is parked in `c.Ch <- v`, first come first
          recvq,     \* who is parked in `<-c.Ch`, first come first
          pc,        \* where each thread of execution is
          sent,      \* how many messages each one has tried to send
          accepted,  \* messages Ch took, in that order
          delivered, \* messages receivers were given, in that order
          refused,   \* messages Send answered with a catchable exception
          killed,    \* messages whose Send ended in a Go panic
          ended,     \* receivers that got None because Ch is closed
          closers    \* whose Close succeeded

object  == <<closed, mu>>
goChan  == <<cap, chClosed, buf, sendq, recvq>>
history == <<accepted, delivered, refused, killed, ended, closers>>
vars    == <<object, goChan, pc, sent, history>>

(* A message is named after its sender and its number among the sends of   *)
(* that sender; Msg(p) is the one p is sending.                            *)
Messages == Procs \X (1..MaxSends)
Msg(p)   == <<p, sent[p]>>

InQueue(q)  == {q[i] : i \in 1..Len(q)}
Distinct(q) == \A i, j \in 1..Len(q) : q[i] = q[j] => i = j

States == {"idle",      \* running the program, in no operation of the channel
           "checked",   \* in Send, after mu.Unlock and before c.Ch <- v
           "sending",   \* parked in c.Ch <- v
           "receiving", \* parked in <-c.Ch
           "closing",   \* in Close, holding mu, before close(c.Ch)
           "dead"}      \* a Go panic ended Run of its VM

Init ==
  /\ cap \in Caps
  /\ closed = FALSE
  /\ mu = Nobody
  /\ chClosed = FALSE
  /\ buf = <<>> /\ sendq = <<>> /\ recvq = <<>>
  /\ pc = [p \in Procs |-> "idle"]
  /\ sent = [p \in Procs |-> 0]
  /\ accepted = <<>> /\ delivered = <<>>
  /\ refused = {} /\ killed = {} /\ ended = {} /\ closers = {}

-------------------------------------------------------------------------------
(* Send: first the test of closed under the mutex. *)

SendCheck(p) ==
  /\ pc[p] = "idle"
  /\ sent[p] < MaxSends
  /\ mu = Nobody
  /\ ~closed
  /\ sent' = [sent EXCEPT ![p] = @ + 1]
  /\ pc' = [pc EXCEPT ![p] = "checked"]
  /\ UNCHANGED <<object, goChan, history>>

SendRefused(p) ==
  /\ pc[p] = "idle"
  /\ sent[p] < MaxSends
  /\ mu = Nobody
  /\ closed
  /\ sent' = [sent EXCEPT ![p] = @ + 1]
  /\ refused' = refused \cup {<<p, sent[p] + 1>>}
  /\ UNCHANGED <<object, goChan, pc, accepted, delivered, killed, ended, closers>>

(* Then `c.Ch <- v`, without the mutex: a panic if Ch is closed by now, a   *)
(* hand-over to the first parked receiver, a place in the buffer, or a     *)
(* place in the queue of the parked senders.                               *)

SendPanic(p) ==
  /\ pc[p] = "checked"
  /\ chClosed
  /\ pc' = [pc EXCEPT ![p] = "dead"]
  /\ killed' = killed \cup {Msg(p)}
  /\ UNCHANGED <<object, goChan, sent, accepted, delivered, refused, ended, closers>>

SendHandOver(p) ==
  /\ pc[p] = "checked"
  /\ ~chClosed
  /\ recvq # <<>>
  /\ pc' = [pc EXCEPT ![p] = "idle", ![Head(recvq)] = "idle"]
  /\ recvq' = Tail(recvq)
  /\ accepted' = Append(accepted, Msg(p))
  /\ delivered' = Append(delivered, Msg(p))
  /\ UNCHANGED <<object, cap, chClosed, buf, sendq, sent, refused, killed, ended, closers>>

EnterBuffer(p) ==
  /\ pc' = [pc EXCEPT ![p] = "idle"]
  /\ buf' = Append(buf, Msg(p))
  /\ accepted' = Append(accepted, Msg(p))
  /\ UNCHANGED <<object, cap, chClosed, sendq, recvq, sent, delivered, refused, killed,
                 ended, closers>>

\* Mutants: the buffer does not look at the mark of a closed channel; it does
\* not look for a parked receiver.
SendBufferAfterClose(p) ==
  pc[p] = "checked" /\ recvq = <<>> /\ Len(buf) < cap /\ EnterBuffer(p)

SendBufferPastReceiver(p) ==
  pc[p] = "checked" /\ ~chClosed /\ Len(buf) < cap /\ EnterBuffer(p)

SendBuffer(p) ==
  /\ pc[p] = "checked"
  /\ ~chClosed
  /\ recvq = <<>>
  /\ Len(buf) < cap
  /\ EnterBuffer(p)

SendPark(p) ==
  /\ pc[p] = "checked"
  /\ ~chClosed
  /\ recvq = <<>>
  /\ Len(buf) >= cap
  /\ pc' = [pc EXCEPT ![p] = "sending"]
  /\ sendq' = Append(sendq, p)
  /\ UNCHANGED <<object, cap, chClosed, buf, recvq, sent, history>>

-------------------------------------------------------------------------------
(* Recv and await: `<-c.Ch`, which never looks at closed or takes mu. *)

RecvBuffered(p) ==
  /\ pc[p] = "idle"
  /\ buf # <<>>
  /\ sendq = <<>>
  /\ buf' = Tail(buf)
  /\ delivered' = Append(delivered, Head(buf))
  /\ UNCHANGED <<object, cap, chClosed, sendq, recvq, pc, sent, accepted, refused, killed,
                 ended, closers>>

\* Mutant: the receiver gets the message of the parked sender, which
\* overtakes those in the buffer.
RecvRefillOvertakes(p) ==
  /\ pc[p] = "idle" /\ buf # <<>> /\ sendq # <<>>
  /\ accepted' = Append(accepted, Msg(Head(sendq)))
  /\ delivered' = Append(delivered, Msg(Head(sendq)))
  /\ pc' = [pc EXCEPT ![Head(sendq)] = "idle"]
  /\ sendq' = Tail(sendq)
  /\ UNCHANGED <<object, cap, chClosed, buf, recvq, sent, refused, killed, ended, closers>>

(* The buffer is full and a sender is parked: the receiver gets the oldest *)
(* message, and the sender's takes the place that became free.             *)
RecvRefill(p) ==
  /\ pc[p] = "idle"
  /\ buf # <<>>
  /\ sendq # <<>>
  /\ buf' = Append(Tail(buf), Msg(Head(sendq)))
  /\ accepted' = Append(accepted, Msg(Head(sendq)))
  /\ delivered' = Append(delivered, Head(buf))
  /\ pc' = [pc EXCEPT ![Head(sendq)] = "idle"]
  /\ sendq' = Tail(sendq)
  /\ UNCHANGED <<object, cap, chClosed, recvq, sent, refused, killed, ended, closers>>

(* No buffer: the receiver takes the message of the first parked sender. *)
RecvRendezvous(p) ==
  /\ pc[p] = "idle"
  /\ buf = <<>>
  /\ sendq # <<>>
  /\ accepted' = Append(accepted, Msg(Head(sendq)))
  /\ delivered' = Append(delivered, Msg(Head(sendq)))
  /\ pc' = [pc EXCEPT ![Head(sendq)] = "idle"]
  /\ sendq' = Tail(sendq)
  /\ UNCHANGED <<object, cap, chClosed, buf, recvq, sent, refused, killed, ended, closers>>

RecvClosed(p) ==
  /\ pc[p] = "idle"
  /\ buf = <<>>
  /\ chClosed
  /\ ended' = ended \cup {p}
  /\ UNCHANGED <<object, goChan, pc, sent, accepted, delivered, refused, killed, closers>>

RecvPark(p) ==
  /\ pc[p] = "idle"
  /\ buf = <<>>
  /\ sendq = <<>>
  /\ ~chClosed
  /\ pc' = [pc EXCEPT ![p] = "receiving"]
  /\ recvq' = Append(recvq, p)
  /\ UNCHANGED <<object, cap, chClosed, buf, sendq, sent, history>>

-------------------------------------------------------------------------------
(* Close: marks the object and then closes Ch, all under the mutex.        *)
(* Closing Ch wakes every parked receiver with None and every parked       *)
(* sender with a panic.  A second Close is answered with an exception.     *)

CloseBegin(p) ==
  /\ pc[p] = "idle"
  /\ mu = Nobody
  /\ ~closed
  /\ mu' = p
  /\ closed' = TRUE
  /\ pc' = [pc EXCEPT ![p] = "closing"]
  /\ UNCHANGED <<goChan, sent, history>>

\* Mutants: the parked senders are let go as if they had sent; the parked
\* receivers are forgotten.
CloseEndDropsSenders(p) ==
  /\ pc[p] = "closing"
  /\ chClosed' = TRUE
  /\ pc' = [q \in Procs |->
              IF q = p \/ q \in InQueue(recvq) \/ q \in InQueue(sendq) THEN "idle"
              ELSE pc[q]]
  /\ ended' = ended \cup InQueue(recvq)
  /\ sendq' = <<>> /\ recvq' = <<>>
  /\ closers' = closers \cup {p} /\ mu' = Nobody
  /\ UNCHANGED <<cap, closed, buf, sent, accepted, delivered, refused, killed>>

CloseEndForgetsReceivers(p) ==
  /\ pc[p] = "closing"
  /\ chClosed' = TRUE
  /\ pc' = [q \in Procs |->
              IF q = p THEN "idle" ELSE IF q \in InQueue(sendq) THEN "dead" ELSE pc[q]]
  /\ killed' = killed \cup {Msg(q) : q \in InQueue(sendq)}
  /\ sendq' = <<>>
  /\ closers' = closers \cup {p} /\ mu' = Nobody
  /\ UNCHANGED <<cap, closed, buf, recvq, sent, accepted, delivered, refused, ended>>

CloseEnd(p) ==
  /\ pc[p] = "closing"
  /\ chClosed' = TRUE
  /\ pc' = [q \in Procs |->
              IF q = p \/ q \in InQueue(recvq) THEN "idle"
              ELSE IF q \in InQueue(sendq) THEN "dead" ELSE pc[q]]
  /\ ended' = ended \cup InQueue(recvq)
  /\ killed' = killed \cup {Msg(q) : q \in InQueue(sendq)}
  /\ sendq' = <<>>
  /\ recvq' = <<>>
  /\ closers' = closers \cup {p}
  /\ mu' = Nobody
  /\ UNCHANGED <<cap, closed, buf, sent, accepted, delivered, refused>>

CloseRefused(p) ==
  /\ pc[p] = "idle"
  /\ mu = Nobody
  /\ closed
  /\ UNCHANGED vars

-------------------------------------------------------------------------------
Send(p) ==
  SendPanic(p) \/ SendHandOver(p) \/ SendBuffer(p) \/ SendPark(p)

Recv(p) ==
  \/ RecvBuffered(p) \/ RecvRefill(p) \/ RecvRendezvous(p)
  \/ RecvClosed(p) \/ RecvPark(p)

Next ==
  \E p \in Procs :
    \/ SendCheck(p) \/ SendRefused(p) \/ Send(p)
    \/ Recv(p)
    \/ CloseBegin(p) \/ CloseEnd(p) \/ CloseRefused(p)

Spec == Init /\ [][Next]_vars

(* The Go scheduler runs every goroutine that is not parked, so a call     *)
(* that has begun continues.  Nothing obliges a program to make a call.    *)
Fairness == \A p \in Procs : WF_vars(Send(p)) /\ WF_vars(CloseEnd(p))

FairSpec == Spec /\ Fairness

-------------------------------------------------------------------------------
TypeOK ==
  /\ cap \in Caps
  /\ closed \in BOOLEAN
  /\ mu \in Procs \cup {Nobody}
  /\ chClosed \in BOOLEAN
  /\ buf \in Seq(Messages)
  /\ sendq \in Seq(Procs)
  /\ recvq \in Seq(Procs)
  /\ pc \in [Procs -> States]
  /\ sent \in [Procs -> 0..MaxSends]
  /\ accepted \in Seq(Messages)
  /\ delivered \in Seq(Messages)
  /\ refused \subseteq Messages
  /\ killed \subseteq Messages
  /\ ended \subseteq Procs
  /\ closers \subseteq Procs

(* Close runs at most once to its end: the mutex makes test and mark one   *)
(* step, so close(c.Ch), which panics on a closed Go channel, is never     *)
(* reached twice, and between calls the object and Ch agree on being       *)
(* closed.                                                                 *)
CloseOnce ==
  /\ \A p \in Procs : pc[p] = "closing" <=> mu = p
  /\ mu # Nobody => closed /\ ~chClosed
  /\ mu = Nobody => closed = chClosed
  /\ closers # {} => chClosed
  /\ \A p, q \in closers : p = q

(* The wait queues: a thread is parked exactly when it is in the queue of  *)
(* its call, once; senders are parked only behind a full buffer, receivers *)
(* only before an empty one, never both, and nobody is parked on a closed  *)
(* channel.  A wake-up that is lost would leave a thread parked while it   *)
(* could go on.                                                            *)
NoLostWakeup ==
  /\ \A p \in Procs : pc[p] = "sending" <=> p \in InQueue(sendq)
  /\ \A p \in Procs : pc[p] = "receiving" <=> p \in InQueue(recvq)
  /\ Distinct(sendq) /\ Distinct(recvq)
  /\ sendq # <<>> => Len(buf) = cap /\ recvq = <<>>
  /\ recvq # <<>> => buf = <<>>
  /\ chClosed => sendq = <<>> /\ recvq = <<>>

(* Nothing is lost, duplicated or reordered between Send and Recv: what    *)
(* the channel took is what was delivered followed by what is in the       *)
(* buffer, and the buffer never exceeds the capacity.                      *)
Conservation ==
  /\ accepted = delivered \o buf
  /\ Len(buf) <= cap

(* The message p is still in the middle of sending, if it is. *)
MidSend(p) == pc[p] \in {"checked", "sending"}

(* Every message has exactly one fate: taken by the channel, refused with  *)
(* a catchable exception, lost to a panic, or still being sent.  Losing    *)
(* one silently, or taking one whose sender was told it failed, would      *)
(* break this.                                                             *)
OneFate ==
  LET taken == InQueue(accepted)
      pending == {Msg(p) : p \in {q \in Procs : MidSend(q)}}
  IN /\ taken \cup refused \cup killed \cup pending
          = {m \in Messages : m[2] <= sent[m[1]]}
     /\ taken \cap refused = {} /\ taken \cap killed = {} /\ taken \cap pending = {}
     /\ refused \cap killed = {} /\ refused \cap pending = {} /\ killed \cap pending = {}
     /\ Distinct(accepted)

(* The messages of one sender are taken in the order it sent them, and one *)
(* that is still being sent is younger than those taken.                   *)
SenderOrder ==
  /\ \A i, j \in 1..Len(accepted) :
       i < j /\ accepted[i][1] = accepted[j][1] => accepted[i][2] < accepted[j][2]
  /\ \A i \in 1..Len(accepted), p \in Procs :
       accepted[i][1] = p => /\ accepted[i][2] <= sent[p]
                             /\ MidSend(p) => accepted[i][2] < sent[p]

(* A call of a thread of execution that close() meets in the middle ends:  *)
(* once closed is set, nobody stays parked on, or in the middle of a send  *)
(* to, the channel.                                                        *)
CloseReleasesAll ==
  closed ~> \A p \in Procs : pc[p] \in {"idle", "dead"}

(* The channel seen as a promise to the program. *)
Promise == INSTANCE ChannelContract WITH open <- ~chClosed

ImplementsContract == Promise!Contract
==============================================================================
