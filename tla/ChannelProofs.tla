---------------------------- MODULE ChannelProofs ----------------------------
(***************************************************************************)
(* Proofs about Channel, for any set of threads of execution, any capacity *)
(* and any number of sends.                                                *)
(***************************************************************************)
EXTENDS Channel, SequenceTheorems, TLAPS

-------------------------------------------------------------------------------
(* Lemmas about queues. *)

(* Appending adds one element at the end and keeps the others. *)
LEMMA AppendFacts ==
  ASSUME NEW S, NEW q \in Seq(S), NEW x \in S
  PROVE  /\ Append(q, x) \in Seq(S)
         /\ Append(q, x) # <<>>
         /\ Len(Append(q, x)) = Len(q) + 1
         /\ \A i \in 1..Len(q) : Append(q, x)[i] = q[i]
         /\ Append(q, x)[Len(q) + 1] = x
  OBVIOUS

(* Tail drops the first element and moves the others one place forward. *)
LEMMA TailFacts ==
  ASSUME NEW S, NEW q \in Seq(S), q # <<>>
  PROVE  /\ Head(q) \in S /\ Head(q) = q[1] /\ Len(q) \in Nat /\ Len(q) >= 1
         /\ Tail(q) \in Seq(S)
         /\ Len(Tail(q)) = Len(q) - 1
         /\ \A i \in 1..Len(q) - 1 : Tail(q)[i] = q[i + 1]
  OBVIOUS

(* Appending an element puts exactly that element into the queue. *)
LEMMA InQueueAppend ==
  ASSUME NEW S, NEW q \in Seq(S), NEW x \in S
  PROVE  InQueue(Append(q, x)) = InQueue(q) \cup {x}
  <1>1. Len(q) \in Nat
    OBVIOUS
  <1>2. ASSUME NEW y \in InQueue(Append(q, x))
        PROVE  y \in InQueue(q) \cup {x}
    <2>1. PICK i \in 1..Len(q) + 1 : y = Append(q, x)[i]
      BY <1>2, AppendFacts DEF InQueue
    <2>2. QED
      BY <2>1, <1>1, AppendFacts DEF InQueue
  <1>3. ASSUME NEW y \in InQueue(q) \cup {x}
        PROVE  y \in InQueue(Append(q, x))
    <2>1. CASE y = x
      BY <2>1, <1>1, AppendFacts DEF InQueue
    <2>2. CASE y \in InQueue(q)
      <3>1. PICK i \in 1..Len(q) : y = q[i]
        BY <2>2 DEF InQueue
      <3>2. QED
        BY <3>1, <1>1, AppendFacts DEF InQueue
    <2>3. QED
      BY <1>3, <2>1, <2>2
  <1>4. QED
    BY <1>2, <1>3

(* Appending something new keeps the elements distinct. *)
LEMMA DistinctAppend ==
  ASSUME NEW S, NEW q \in Seq(S), NEW x \in S, Distinct(q), x \notin InQueue(q)
  PROVE  Distinct(Append(q, x))
  BY AppendFacts DEF Distinct, InQueue

(* Of a queue of distinct elements, Tail removes exactly the first. *)
LEMMA DistinctTail ==
  ASSUME NEW S, NEW q \in Seq(S), q # <<>>, Distinct(q)
  PROVE  /\ Distinct(Tail(q))
         /\ Head(q) \in InQueue(q)
         /\ InQueue(Tail(q)) = InQueue(q) \ {Head(q)}
  <1>1. Distinct(Tail(q))
    BY TailFacts DEF Distinct
  <1>2. Head(q) \in InQueue(q)
    BY TailFacts DEF InQueue
  <1>3. ASSUME NEW y \in InQueue(Tail(q))
        PROVE  y \in InQueue(q) \ {Head(q)}
    <2>1. PICK i \in 1..Len(q) - 1 : y = Tail(q)[i]
      BY <1>3, TailFacts DEF InQueue
    <2>2. y = q[i + 1] /\ i + 1 \in 1..Len(q) /\ 1 \in 1..Len(q) /\ i + 1 # 1
      BY <2>1, TailFacts
    <2>3. QED
      BY <2>2, TailFacts DEF InQueue, Distinct
  <1>4. ASSUME NEW y \in InQueue(q) \ {Head(q)}
        PROVE  y \in InQueue(Tail(q))
    <2>1. PICK i \in 1..Len(q) : y = q[i]
      BY <1>4 DEF InQueue
    <2>2. i # 1 /\ i - 1 \in 1..Len(q) - 1 /\ Tail(q)[i - 1] = q[i]
      BY <1>4, <2>1, TailFacts
    <2>3. QED
      BY <2>1, <2>2, TailFacts DEF InQueue
  <1>5. QED
    BY <1>1, <1>2, <1>3, <1>4

(* The empty queue holds nothing. *)
LEMMA InQueueEmpty == InQueue(<<>>) = {} /\ Distinct(<<>>)
  BY DEF InQueue, Distinct

-------------------------------------------------------------------------------
(* The inductive invariant.  A message has a type only because its sender  *)
(* has counted it, and a parked sender is in the queue it is taken from,   *)
(* so the types, the mutex and the wait queues are proved together.        *)

Numbered == \A p \in Procs : pc[p] \in {"checked", "sending"} => sent[p] > 0

Bounded  == Len(buf) <= cap

QueueInv == TypeOK /\ CloseOnce /\ NoLostWakeup /\ Numbered /\ Bounded

(* The head of a wait queue is a thread of execution parked in it. *)
LEMMA Heads ==
  ASSUME QueueInv
  PROVE  /\ sendq # <<>> => Head(sendq) \in Procs /\ pc[Head(sendq)] = "sending"
         /\ recvq # <<>> => Head(recvq) \in Procs /\ pc[Head(recvq)] = "receiving"
  <1>1. sendq # <<>> => Head(sendq) \in Procs /\ Head(sendq) \in InQueue(sendq)
    BY DistinctTail DEF QueueInv, TypeOK, NoLostWakeup
  <1>2. recvq # <<>> => Head(recvq) \in Procs /\ Head(recvq) \in InQueue(recvq)
    BY DistinctTail DEF QueueInv, TypeOK, NoLostWakeup
  <1>3. QED
    BY <1>1, <1>2 DEF QueueInv, NoLostWakeup

(* Whoever is in the middle of a send is sending a message. *)
LEMMA MsgType ==
  ASSUME QueueInv, NEW p \in Procs, pc[p] \in {"checked", "sending"}
  PROVE  Msg(p) \in Messages
  BY ChannelAssumption DEF QueueInv, TypeOK, Numbered, Msg, Messages

LEMMA QueueInvInit == Init => QueueInv
  <1> SUFFICES ASSUME Init PROVE QueueInv
    OBVIOUS
  <1>1. TypeOK
    <2>1. pc \in [Procs -> States] /\ sent \in [Procs -> 0..MaxSends]
      BY ChannelAssumption DEF Init, States
    <2>2. <<>> \in Seq(Procs) /\ <<>> \in Seq(Messages)
      OBVIOUS
    <2>3. QED
      BY <2>1, <2>2 DEF Init, TypeOK
  <1>2. CloseOnce
    BY ChannelAssumption DEF Init, CloseOnce
  <1>3. NoLostWakeup
    BY InQueueEmpty DEF Init, NoLostWakeup
  <1>4. QED
    BY <1>1, <1>2, <1>3, ChannelAssumption DEF Init, QueueInv, Numbered, Bounded

(* Types: one step per action. *)
LEMMA TypeStep == QueueInv /\ [Next]_vars => TypeOK'
  <1> SUFFICES ASSUME QueueInv, [Next]_vars PROVE TypeOK'
    OBVIOUS
  <1>t. TypeOK
    BY DEF QueueInv
  <1> USE ChannelAssumption, <1>t DEF TypeOK, States, object, goChan, history
  <1>0. CASE UNCHANGED vars
    BY <1>0 DEF vars
  <1>1. ASSUME NEW p \in Procs, SendCheck(p) PROVE TypeOK'
    BY <1>1 DEF SendCheck
  <1>2. ASSUME NEW p \in Procs, SendRefused(p) PROVE TypeOK'
    BY <1>2 DEF SendRefused, Messages
  <1>3. ASSUME NEW p \in Procs, SendPanic(p) PROVE TypeOK'
    BY <1>3, MsgType DEF SendPanic
  <1>4. ASSUME NEW p \in Procs, SendHandOver(p) PROVE TypeOK'
    <2>1. Msg(p) \in Messages
      BY <1>4, MsgType DEF SendHandOver
    <2>2. Head(recvq) \in Procs /\ Tail(recvq) \in Seq(Procs)
      BY <1>4, Heads DEF SendHandOver
    <2>3. pc' \in [Procs -> States]
      BY <1>4, <2>2 DEF SendHandOver
    <2>4. accepted' \in Seq(Messages) /\ delivered' \in Seq(Messages)
      BY <1>4, <2>1 DEF SendHandOver
    <2>5. QED
      BY <1>4, <2>2, <2>3, <2>4 DEF SendHandOver
  <1>5. ASSUME NEW p \in Procs, SendBuffer(p) PROVE TypeOK'
    BY <1>5, MsgType DEF SendBuffer, EnterBuffer
  <1>6. ASSUME NEW p \in Procs, SendPark(p) PROVE TypeOK'
    BY <1>6 DEF SendPark
  <1>7. ASSUME NEW p \in Procs, RecvBuffered(p) PROVE TypeOK'
    BY <1>7 DEF RecvBuffered
  <1>8. ASSUME NEW p \in Procs, RecvRefill(p) PROVE TypeOK'
    <2>1. Head(sendq) \in Procs /\ pc[Head(sendq)] = "sending"
      BY <1>8, Heads DEF RecvRefill
    <2>3. Msg(Head(sendq)) \in Messages
      BY <2>1, MsgType
    <2>4. Head(buf) \in Messages
      BY <1>8 DEF RecvRefill
    <2>2. Tail(buf) \in Seq(Messages) /\ Tail(sendq) \in Seq(Procs)
      BY <1>8 DEF RecvRefill
    <2>5. buf' \in Seq(Messages) /\ sendq' \in Seq(Procs)
      BY <1>8, <2>2, <2>3 DEF RecvRefill
    <2>6. accepted' \in Seq(Messages) /\ delivered' \in Seq(Messages)
      BY <1>8, <2>3, <2>4 DEF RecvRefill
    <2>7. pc' \in [Procs -> States]
      BY <1>8, <2>1 DEF RecvRefill
    <2>8. QED
      BY <1>8, <2>5, <2>6, <2>7 DEF RecvRefill
  <1>9. ASSUME NEW p \in Procs, RecvRendezvous(p) PROVE TypeOK'
    <2>1. Head(sendq) \in Procs /\ pc[Head(sendq)] = "sending"
      BY <1>9, Heads DEF RecvRendezvous
    <2>2. Msg(Head(sendq)) \in Messages
      BY <2>1, MsgType
    <2>3. QED
      BY <1>9, <2>1, <2>2 DEF RecvRendezvous
  <1>10. ASSUME NEW p \in Procs, RecvClosed(p) PROVE TypeOK'
    BY <1>10 DEF RecvClosed
  <1>11. ASSUME NEW p \in Procs, RecvPark(p) PROVE TypeOK'
    BY <1>11 DEF RecvPark
  <1>12. ASSUME NEW p \in Procs, CloseBegin(p) PROVE TypeOK'
    BY <1>12 DEF CloseBegin
  <1>13. ASSUME NEW p \in Procs, CloseEnd(p) PROVE TypeOK'
    <2>1. ASSUME NEW q \in InQueue(sendq) PROVE q \in Procs /\ Msg(q) \in Messages
      <3>1. q \in Procs
        BY DEF InQueue
      <3>2. pc[q] = "sending"
        BY <3>1 DEF QueueInv, NoLostWakeup
      <3>3. QED
        BY <3>1, <3>2, MsgType
    <2>2. InQueue(recvq) \subseteq Procs
      BY DEF InQueue
    <2>3. killed' \subseteq Messages /\ ended' \subseteq Procs /\ closers' \subseteq Procs
      BY <1>13, <2>1, <2>2 DEF CloseEnd
    <2>4. pc' \in [Procs -> States]
      BY <1>13 DEF CloseEnd
    <2>5. QED
      BY <1>13, <2>3, <2>4 DEF CloseEnd
  <1>14. ASSUME NEW p \in Procs, CloseRefused(p) PROVE TypeOK'
    BY <1>14 DEF CloseRefused, vars
  <1>15. QED
    BY <1>0, <1>1, <1>2, <1>3, <1>4, <1>5, <1>6, <1>7, <1>8, <1>9, <1>10, <1>11,
       <1>12, <1>13, <1>14 DEF Next, Send, Recv

(* The mutex and the mark: only Close touches them. *)
LEMMA CloseStep == QueueInv /\ [Next]_vars => CloseOnce'
  <1> SUFFICES ASSUME QueueInv, [Next]_vars PROVE CloseOnce'
    OBVIOUS
  <1> USE ChannelAssumption DEF QueueInv, TypeOK, CloseOnce, States, object, goChan, history
  <1>0. CASE UNCHANGED vars
    BY <1>0 DEF vars
  <1>1. ASSUME NEW p \in Procs, SendCheck(p) PROVE CloseOnce'
    BY <1>1 DEF SendCheck
  <1>2. ASSUME NEW p \in Procs, SendRefused(p) PROVE CloseOnce'
    BY <1>2 DEF SendRefused
  <1>3. ASSUME NEW p \in Procs, SendPanic(p) PROVE CloseOnce'
    BY <1>3 DEF SendPanic
  <1>4. ASSUME NEW p \in Procs, SendHandOver(p) PROVE CloseOnce'
    BY <1>4, Heads DEF SendHandOver
  <1>5. ASSUME NEW p \in Procs, SendBuffer(p) PROVE CloseOnce'
    BY <1>5 DEF SendBuffer, EnterBuffer
  <1>6. ASSUME NEW p \in Procs, SendPark(p) PROVE CloseOnce'
    BY <1>6 DEF SendPark
  <1>7. ASSUME NEW p \in Procs, RecvBuffered(p) PROVE CloseOnce'
    BY <1>7 DEF RecvBuffered
  <1>8. ASSUME NEW p \in Procs, RecvRefill(p) PROVE CloseOnce'
    BY <1>8, Heads DEF RecvRefill
  <1>9. ASSUME NEW p \in Procs, RecvRendezvous(p) PROVE CloseOnce'
    BY <1>9, Heads DEF RecvRendezvous
  <1>10. ASSUME NEW p \in Procs, RecvClosed(p) PROVE CloseOnce'
    BY <1>10 DEF RecvClosed
  <1>11. ASSUME NEW p \in Procs, RecvPark(p) PROVE CloseOnce'
    BY <1>11 DEF RecvPark
  <1>12. ASSUME NEW p \in Procs, CloseBegin(p) PROVE CloseOnce'
    BY <1>12 DEF CloseBegin
  <1>13. ASSUME NEW p \in Procs, CloseEnd(p) PROVE CloseOnce'
    <2>1. mu = p /\ ~chClosed /\ closers = {}
      BY <1>13 DEF CloseEnd
    <2>2. mu' = Nobody /\ closed' /\ chClosed' /\ closers' = {p}
      BY <1>13, <2>1 DEF CloseEnd
    <2>3. \A q \in Procs : pc'[q] # "closing"
      BY <1>13, <2>1 DEF CloseEnd
    <2>4. QED
      BY <2>2, <2>3
  <1>14. ASSUME NEW p \in Procs, CloseRefused(p) PROVE CloseOnce'
    BY <1>14 DEF CloseRefused, vars
  <1>15. QED
    BY <1>0, <1>1, <1>2, <1>3, <1>4, <1>5, <1>6, <1>7, <1>8, <1>9, <1>10, <1>11,
       <1>12, <1>13, <1>14 DEF Next, Send, Recv

(* The numbers of the messages and the bound of the buffer. *)
LEMMA CountStep == QueueInv /\ [Next]_vars => Numbered' /\ Bounded'
  <1> SUFFICES ASSUME QueueInv, [Next]_vars PROVE Numbered' /\ Bounded'
    OBVIOUS
  <1>h. /\ sendq # <<>> => Head(sendq) \in Procs
        /\ recvq # <<>> => Head(recvq) \in Procs
    BY Heads
  <1>r. /\ Len(buf) \in Nat
        /\ buf # <<>> => Len(Tail(buf)) = Len(buf) - 1 /\ Tail(buf) \in Seq(Messages)
        /\ \A b \in Seq(Messages) : \A m : Len(Append(b, m)) = Len(b) + 1
    BY DEF QueueInv, TypeOK
  <1> USE ChannelAssumption DEF QueueInv, TypeOK, Numbered, Bounded, object, goChan, history
  <1>0. CASE UNCHANGED vars
    BY <1>0 DEF vars
  <1>1. ASSUME NEW p \in Procs, SendCheck(p) PROVE Numbered' /\ Bounded'
    BY <1>1 DEF SendCheck
  <1>2. ASSUME NEW p \in Procs, SendRefused(p) PROVE Numbered' /\ Bounded'
    BY <1>2 DEF SendRefused
  <1>3. ASSUME NEW p \in Procs, SendPanic(p) PROVE Numbered' /\ Bounded'
    BY <1>3 DEF SendPanic
  <1>4. ASSUME NEW p \in Procs, SendHandOver(p) PROVE Numbered' /\ Bounded'
    BY <1>4, <1>h DEF SendHandOver
  <1>5. ASSUME NEW p \in Procs, SendBuffer(p) PROVE Numbered' /\ Bounded'
    BY <1>5, <1>r DEF SendBuffer, EnterBuffer
  <1>6. ASSUME NEW p \in Procs, SendPark(p) PROVE Numbered' /\ Bounded'
    BY <1>6 DEF SendPark
  <1>7. ASSUME NEW p \in Procs, RecvBuffered(p) PROVE Numbered' /\ Bounded'
    BY <1>7, <1>r DEF RecvBuffered
  <1>8. ASSUME NEW p \in Procs, RecvRefill(p) PROVE Numbered' /\ Bounded'
    BY <1>8, <1>h, <1>r DEF RecvRefill
  <1>9. ASSUME NEW p \in Procs, RecvRendezvous(p) PROVE Numbered' /\ Bounded'
    BY <1>9, <1>h DEF RecvRendezvous
  <1>10. ASSUME NEW p \in Procs, RecvClosed(p) PROVE Numbered' /\ Bounded'
    BY <1>10 DEF RecvClosed
  <1>11. ASSUME NEW p \in Procs, RecvPark(p) PROVE Numbered' /\ Bounded'
    BY <1>11 DEF RecvPark
  <1>12. ASSUME NEW p \in Procs, CloseBegin(p) PROVE Numbered' /\ Bounded'
    BY <1>12 DEF CloseBegin
  <1>13. ASSUME NEW p \in Procs, CloseEnd(p) PROVE Numbered' /\ Bounded'
    BY <1>13 DEF CloseEnd
  <1>14. ASSUME NEW p \in Procs, CloseRefused(p) PROVE Numbered' /\ Bounded'
    BY <1>14 DEF CloseRefused, vars
  <1>15. QED
    BY <1>0, <1>1, <1>2, <1>3, <1>4, <1>5, <1>6, <1>7, <1>8, <1>9, <1>10, <1>11,
       <1>12, <1>13, <1>14 DEF Next, Send, Recv

(* The wait queues.  Actions that park or release a thread of execution    *)
(* move it into or out of exactly one queue; the others must leave alone   *)
(* what being parked promises about the buffer.                            *)
LEMMA WakeupStep == QueueInv /\ [Next]_vars => NoLostWakeup'
  <1> SUFFICES ASSUME QueueInv, [Next]_vars PROVE NoLostWakeup'
    OBVIOUS
  <1>t. /\ pc \in [Procs -> States] /\ sendq \in Seq(Procs) /\ recvq \in Seq(Procs)
        /\ buf \in Seq(Messages) /\ Len(buf) \in Nat /\ Len(buf) <= cap
        /\ NoLostWakeup
    BY DEF QueueInv, TypeOK, Bounded
  <1>h. /\ sendq # <<>> => Head(sendq) \in Procs /\ pc[Head(sendq)] = "sending"
        /\ recvq # <<>> => Head(recvq) \in Procs /\ pc[Head(recvq)] = "receiving"
    BY Heads
  <1>s. sendq # <<>> => /\ Distinct(Tail(sendq))
                        /\ InQueue(Tail(sendq)) = InQueue(sendq) \ {Head(sendq)}
    BY <1>t, DistinctTail DEF NoLostWakeup
  <1>r. recvq # <<>> => /\ Distinct(Tail(recvq))
                        /\ InQueue(Tail(recvq)) = InQueue(recvq) \ {Head(recvq)}
    BY <1>t, DistinctTail DEF NoLostWakeup
  <1>e. InQueue(<<>>) = {} /\ Distinct(<<>>)
    BY InQueueEmpty
  <1>c. cap \in Nat
    BY ChannelAssumption DEF QueueInv, TypeOK
  <1> USE ChannelAssumption, <1>t DEF NoLostWakeup, States, object, goChan, history
  <1>0. CASE UNCHANGED vars
    BY <1>0 DEF vars
  <1>1. ASSUME NEW p \in Procs, SendCheck(p) PROVE NoLostWakeup'
    BY <1>1 DEF SendCheck
  <1>2. ASSUME NEW p \in Procs, SendRefused(p) PROVE NoLostWakeup'
    BY <1>2 DEF SendRefused
  <1>3. ASSUME NEW p \in Procs, SendPanic(p) PROVE NoLostWakeup'
    BY <1>3 DEF SendPanic
  <1>4. ASSUME NEW p \in Procs, SendHandOver(p) PROVE NoLostWakeup'
    BY <1>4, <1>h, <1>r DEF SendHandOver
  <1>5. ASSUME NEW p \in Procs, SendBuffer(p) PROVE NoLostWakeup'
    BY <1>5, <1>e DEF SendBuffer, EnterBuffer
  <1>6. ASSUME NEW p \in Procs, SendPark(p) PROVE NoLostWakeup'
    <2>1. p \notin InQueue(sendq)
      BY <1>6 DEF SendPark
    <2>2. Distinct(sendq') /\ InQueue(sendq') = InQueue(sendq) \cup {p}
      BY <1>6, <2>1, InQueueAppend, DistinctAppend DEF SendPark
    <2>3. Len(buf) = cap /\ cap' = cap
      BY <1>6, <1>c DEF SendPark
    <2>4. QED
      BY <1>6, <2>2, <2>3 DEF SendPark
  <1>7. ASSUME NEW p \in Procs, RecvBuffered(p) PROVE NoLostWakeup'
    BY <1>7, <1>e DEF RecvBuffered
  <1>8. ASSUME NEW p \in Procs, RecvRefill(p) PROVE NoLostWakeup'
    <2>1. Len(buf') = Len(buf)
      BY <1>8 DEF RecvRefill
    <2>2. QED
      BY <1>8, <1>h, <1>s, <2>1 DEF RecvRefill
  <1>9. ASSUME NEW p \in Procs, RecvRendezvous(p) PROVE NoLostWakeup'
    BY <1>9, <1>h, <1>s DEF RecvRendezvous
  <1>10. ASSUME NEW p \in Procs, RecvClosed(p) PROVE NoLostWakeup'
    BY <1>10 DEF RecvClosed
  <1>11. ASSUME NEW p \in Procs, RecvPark(p) PROVE NoLostWakeup'
    <2>1. p \notin InQueue(recvq)
      BY <1>11 DEF RecvPark
    <2>2. Distinct(recvq') /\ InQueue(recvq') = InQueue(recvq) \cup {p}
      BY <1>11, <2>1, InQueueAppend, DistinctAppend DEF RecvPark
    <2>3. QED
      BY <1>11, <2>2 DEF RecvPark
  <1>12. ASSUME NEW p \in Procs, CloseBegin(p) PROVE NoLostWakeup'
    BY <1>12 DEF CloseBegin
  <1>13. ASSUME NEW p \in Procs, CloseEnd(p) PROVE NoLostWakeup'
    BY <1>13, <1>e DEF CloseEnd
  <1>14. ASSUME NEW p \in Procs, CloseRefused(p) PROVE NoLostWakeup'
    BY <1>14 DEF CloseRefused, vars
  <1>15. QED
    BY <1>0, <1>1, <1>2, <1>3, <1>4, <1>5, <1>6, <1>7, <1>8, <1>9, <1>10, <1>11,
       <1>12, <1>13, <1>14 DEF Next, Send, Recv

LEMMA QueueInvariance == Spec => []QueueInv
  <1>1. QueueInv /\ [Next]_vars => QueueInv'
    BY TypeStep, CloseStep, CountStep, WakeupStep DEF QueueInv
  <1>2. QED
    BY <1>1, QueueInvInit, PTL DEF Spec

-------------------------------------------------------------------------------
(* Every variable keeps its type, whatever the threads of execution do. *)
THEOREM Typing == Spec => []TypeOK
  BY QueueInvariance, PTL DEF QueueInv

(* close(c.Ch) is reached at most once, so it never panics, and between    *)
(* calls of Close the object and the Go channel agree on being closed.     *)
THEOREM ClosesOnce == Spec => []CloseOnce
  BY QueueInvariance, PTL DEF QueueInv

(* A thread of execution is parked exactly when it is in the queue of its  *)
(* call, and only while it really cannot go on: no wake-up is lost.        *)
THEOREM WakeupsNotLost == Spec => []NoLostWakeup
  BY QueueInvariance, PTL DEF QueueInv

-------------------------------------------------------------------------------
(* First in, first out.  The three ways in which messages move keep        *)
(* "accepted is delivered followed by the buffer".                         *)

(* Appending to the buffer appends to the whole. *)
LEMMA AppendRight ==
  ASSUME NEW d \in Seq(Messages), NEW b \in Seq(Messages), NEW m \in Messages
  PROVE  Append(d \o b, m) = d \o Append(b, m)
  <1>1. <<m>> \in Seq(Messages) /\ d \o b \in Seq(Messages)
    BY ConcatProperties
  <1>2. Append(d \o b, m) = (d \o b) \o <<m>> /\ Append(b, m) = b \o <<m>>
    BY <1>1, AppendIsConcat
  <1>3. QED
    BY <1>1, <1>2, ConcatAssociative

(* Moving the oldest message of the buffer to a receiver leaves the whole. *)
LEMMA MoveHead ==
  ASSUME NEW S, NEW d \in Seq(S), NEW b \in Seq(S), b # <<>>
  PROVE  d \o b = Append(d, Head(b)) \o Tail(b)
  <1> DEFINE e == Append(d, Head(b))
             t == Tail(b)
  <1>1. /\ Head(b) \in S /\ Head(b) = b[1] /\ t \in Seq(S)
        /\ Len(t) = Len(b) - 1 /\ Len(b) \in Nat /\ Len(b) >= 1
        /\ \A i \in 1..Len(b) - 1 : t[i] = b[i + 1]
    BY TailFacts
  <1>2. /\ e \in Seq(S) /\ Len(e) = Len(d) + 1 /\ Len(d) \in Nat
        /\ \A i \in 1..Len(d) : e[i] = d[i]
        /\ e[Len(d) + 1] = Head(b)
    BY <1>1, AppendFacts
  <1>3. d \o b \in Seq(S) /\ e \o t \in Seq(S)
    BY <1>1, <1>2, ConcatProperties
  <1>4. Len(d \o b) = Len(e \o t) /\ Len(d \o b) = Len(d) + Len(b)
    BY <1>1, <1>2, ConcatProperties
  <1>5. ASSUME NEW i \in 1..Len(d) + Len(b) PROVE (d \o b)[i] = (e \o t)[i]
    <2>1. (d \o b)[i] = IF i <= Len(d) THEN d[i] ELSE b[i - Len(d)]
      BY ConcatProperties
    <2>2. (e \o t)[i] = IF i <= Len(e) THEN e[i] ELSE t[i - Len(e)]
      BY <1>1, <1>2, ConcatProperties
    <2> HIDE DEF e, t
    <2>3. QED
      BY <1>1, <1>2, <2>1, <2>2
  <1> HIDE DEF e, t
  <1>6. QED
    BY <1>3, <1>4, <1>5, SeqEqual DEF e, t

(* An empty buffer adds nothing. *)
LEMMA EmptyBuffer ==
  ASSUME NEW S, NEW d \in Seq(S)
  PROVE  d \o <<>> = d
  BY ConcatEmptySeq

FlowInv == Conservation /\ SenderOrder

LEMMA ConservationStep == QueueInv /\ Conservation /\ [Next]_vars => Conservation'
  <1> SUFFICES ASSUME QueueInv, Conservation, [Next]_vars PROVE Conservation'
    OBVIOUS
  <1>t. /\ buf \in Seq(Messages) /\ accepted \in Seq(Messages) /\ delivered \in Seq(Messages)
        /\ Bounded'
    BY CountStep DEF QueueInv, TypeOK
  <1>w. NoLostWakeup
    BY DEF QueueInv
  <1>h. /\ sendq # <<>> => Head(sendq) \in Procs /\ pc[Head(sendq)] = "sending"
        /\ recvq # <<>> => Head(recvq) \in Procs
    BY Heads
  <1>s. accepted' = delivered' \o buf'
    <2>0. CASE UNCHANGED <<buf, accepted, delivered>>
      BY <2>0 DEF Conservation
    <2>1. ASSUME NEW p \in Procs, SendHandOver(p) PROVE accepted' = delivered' \o buf'
      <3>1. buf = <<>> /\ accepted = delivered
        BY <2>1, <1>t, <1>w, EmptyBuffer DEF SendHandOver, NoLostWakeup, Conservation
      <3>2. Msg(p) \in Messages
        BY <2>1, MsgType DEF SendHandOver
      <3>3. accepted' = delivered' /\ delivered' \in Seq(Messages) /\ buf' = <<>>
        BY <2>1, <3>1, <3>2, <1>t DEF SendHandOver
      <3>4. QED
        BY <3>3, EmptyBuffer
    <2>2. ASSUME NEW p \in Procs, SendBuffer(p) PROVE accepted' = delivered' \o buf'
      <3>1. Msg(p) \in Messages
        BY <2>2, MsgType DEF SendBuffer
      <3>2. Append(delivered \o buf, Msg(p)) = delivered \o Append(buf, Msg(p))
        BY <3>1, <1>t, AppendRight
      <3>3. QED
        BY <2>2, <3>2 DEF SendBuffer, EnterBuffer, Conservation
    <2>3. ASSUME NEW p \in Procs, RecvBuffered(p) PROVE accepted' = delivered' \o buf'
      BY <2>3, <1>t, MoveHead DEF RecvBuffered, Conservation
    <2>4. ASSUME NEW p \in Procs, RecvRefill(p) PROVE accepted' = delivered' \o buf'
      <3> DEFINE m == Msg(Head(sendq))
                 d == Append(delivered, Head(buf))
      <3>1. m \in Messages
        BY <2>4, <1>h, MsgType DEF RecvRefill
      <3>2. accepted = d \o Tail(buf)
        BY <2>4, <1>t, MoveHead DEF RecvRefill, Conservation
      <3>3. d \in Seq(Messages) /\ Tail(buf) \in Seq(Messages)
        BY <2>4, <1>t, TailFacts, AppendFacts DEF RecvRefill
      <3> HIDE DEF m, d
      <3>4. Append(d \o Tail(buf), m) = d \o Append(Tail(buf), m)
        BY <3>1, <3>3, AppendRight
      <3>5. QED
        BY <2>4, <3>2, <3>4 DEF RecvRefill, m, d
    <2>5. ASSUME NEW p \in Procs, RecvRendezvous(p) PROVE accepted' = delivered' \o buf'
      <3>1. Msg(Head(sendq)) \in Messages
        BY <2>5, <1>h, MsgType DEF RecvRendezvous
      <3>2. accepted = delivered
        BY <2>5, <1>t, EmptyBuffer DEF RecvRendezvous, Conservation
      <3>3. accepted' = delivered' /\ delivered' \in Seq(Messages) /\ buf' = <<>>
        BY <2>5, <3>1, <3>2, <1>t DEF RecvRendezvous
      <3>4. QED
        BY <3>3, EmptyBuffer
    <2>6. QED
      BY <2>0, <2>1, <2>2, <2>3, <2>4, <2>5
      DEF Next, Send, Recv, SendCheck, SendRefused, SendPanic, SendPark, RecvClosed,
          RecvPark, CloseBegin, CloseEnd, CloseRefused, vars, goChan, history
  <1>q. QED
    BY <1>s, <1>t DEF Conservation, Bounded

(* A message that was taken has a sender and a number. *)
LEMMA TakenFacts ==
  ASSUME QueueInv
  PROVE  /\ Len(accepted) \in Nat
         /\ sent \in [Procs -> 0..MaxSends] /\ MaxSends \in Nat
         /\ \A i \in 1..Len(accepted) : accepted[i][1] \in Procs /\ accepted[i][2] \in Nat
  <1>1. accepted \in Seq(Messages) /\ sent \in [Procs -> 0..MaxSends] /\ MaxSends \in Nat
    BY ChannelAssumption DEF QueueInv, TypeOK
  <1>2. \A i \in 1..Len(accepted) : accepted[i] \in Procs \X (1..MaxSends)
    BY <1>1, ElementOfSeq DEF Messages
  <1>3. \A i \in 1..Len(accepted) : accepted[i][1] \in Procs /\ accepted[i][2] \in 1..MaxSends
    BY <1>2
  <1>4. QED
    BY <1>1, <1>3

(* Taking the message of q keeps the order when q was in the middle of     *)
(* sending it and no longer is, and nobody else begins to send.            *)
LEMMA OrderTaken ==
  ASSUME QueueInv, SenderOrder, NEW q \in Procs, MidSend(q),
         accepted' = Append(accepted, Msg(q)), sent' = sent,
         \A r \in Procs : MidSend(r)' => r # q /\ MidSend(r)
  PROVE  SenderOrder'
  <1>1. /\ Len(accepted) \in Nat /\ accepted \in Seq(Messages)
        /\ sent \in [Procs -> 0..MaxSends] /\ MaxSends \in Nat
        /\ \A i \in 1..Len(accepted) : accepted[i][1] \in Procs /\ accepted[i][2] \in Nat
    BY TakenFacts DEF QueueInv, TypeOK
  <1>2. Msg(q) \in Messages /\ Msg(q)[1] = q /\ Msg(q)[2] = sent[q]
    BY MsgType DEF Msg, MidSend
  <1>3. /\ Len(accepted') = Len(accepted) + 1
        /\ \A i \in 1..Len(accepted) : accepted'[i] = accepted[i]
        /\ accepted'[Len(accepted) + 1] = Msg(q)
    BY <1>1, <1>2, AppendFacts
  <1>4. \A i \in 1..Len(accepted) : accepted[i][1] = q => accepted[i][2] < sent[q]
    BY DEF SenderOrder
  <1>5. ASSUME NEW i \in 1..Len(accepted'), NEW j \in 1..Len(accepted'),
               i < j, accepted'[i][1] = accepted'[j][1]
        PROVE  accepted'[i][2] < accepted'[j][2]
    <2>1. CASE j \in 1..Len(accepted)
      BY <2>1, <1>5, <1>1, <1>3 DEF SenderOrder
    <2>2. CASE j = Len(accepted) + 1
      BY <2>2, <1>5, <1>1, <1>2, <1>3, <1>4
    <2>3. QED
      BY <2>1, <2>2, <1>1, <1>3
  <1>6. ASSUME NEW i \in 1..Len(accepted'), NEW p \in Procs, accepted'[i][1] = p
        PROVE  accepted'[i][2] <= sent'[p] /\ (MidSend(p)' => accepted'[i][2] < sent'[p])
    <2>1. CASE i \in 1..Len(accepted)
      BY <2>1, <1>6, <1>1, <1>3 DEF SenderOrder
    <2>2. CASE i = Len(accepted) + 1
      BY <2>2, <1>6, <1>1, <1>2, <1>3
    <2>3. QED
      BY <2>1, <2>2, <1>1, <1>3
  <1>7. QED
    BY <1>5, <1>6 DEF SenderOrder

(* The order is kept when no message is taken: a thread of execution that  *)
(* begins a send counts it, and the others send what they were sending.    *)
LEMMA OrderKept ==
  ASSUME QueueInv, SenderOrder, accepted' = accepted,
         \A r \in Procs : \/ sent'[r] = sent[r] + 1
                          \/ sent'[r] = sent[r] /\ (MidSend(r)' => MidSend(r))
  PROVE  SenderOrder'
  <1>1. /\ Len(accepted) \in Nat /\ sent \in [Procs -> 0..MaxSends] /\ MaxSends \in Nat
        /\ \A i \in 1..Len(accepted) : accepted[i][1] \in Procs /\ accepted[i][2] \in Nat
    BY TakenFacts
  <1>2. ASSUME NEW i \in 1..Len(accepted), NEW p \in Procs, accepted[i][1] = p
        PROVE  accepted[i][2] <= sent'[p] /\ (MidSend(p)' => accepted[i][2] < sent'[p])
    <2>1. /\ accepted[i][2] \in Nat /\ sent[p] \in Nat
          /\ accepted[i][2] <= sent[p] /\ (MidSend(p) => accepted[i][2] < sent[p])
      BY <1>1, <1>2 DEF SenderOrder
    <2>2. QED
      BY <2>1
  <1>3. \A i, j \in 1..Len(accepted) :
          i < j /\ accepted[i][1] = accepted[j][1] => accepted[i][2] < accepted[j][2]
    BY DEF SenderOrder
  <1>4. QED
    BY <1>2, <1>3 DEF SenderOrder

LEMMA OrderStep == QueueInv /\ SenderOrder /\ [Next]_vars => SenderOrder'
  <1> SUFFICES ASSUME QueueInv, SenderOrder, [Next]_vars PROVE SenderOrder'
    OBVIOUS
  <1>t. pc \in [Procs -> States] /\ sent \in [Procs -> 0..MaxSends] /\ MaxSends \in Nat
    BY ChannelAssumption DEF QueueInv, TypeOK
  <1>h. /\ sendq # <<>> => Head(sendq) \in Procs /\ pc[Head(sendq)] = "sending"
        /\ recvq # <<>> => Head(recvq) \in Procs
    BY Heads
  <1> USE <1>t DEF States, object, goChan, history, MidSend
  <1>0. CASE UNCHANGED vars
    BY <1>0, OrderKept DEF vars
  <1>1. ASSUME NEW p \in Procs, SendCheck(p) PROVE SenderOrder'
    BY <1>1, OrderKept DEF SendCheck
  <1>2. ASSUME NEW p \in Procs, SendRefused(p) PROVE SenderOrder'
    BY <1>2, OrderKept DEF SendRefused
  <1>3. ASSUME NEW p \in Procs, SendPanic(p) PROVE SenderOrder'
    BY <1>3, OrderKept DEF SendPanic
  <1>4. ASSUME NEW p \in Procs, SendHandOver(p) PROVE SenderOrder'
    BY <1>4, <1>h, OrderTaken DEF SendHandOver
  <1>5. ASSUME NEW p \in Procs, SendBuffer(p) PROVE SenderOrder'
    BY <1>5, OrderTaken DEF SendBuffer, EnterBuffer
  <1>6. ASSUME NEW p \in Procs, SendPark(p) PROVE SenderOrder'
    BY <1>6, OrderKept DEF SendPark
  <1>7. ASSUME NEW p \in Procs, RecvBuffered(p) PROVE SenderOrder'
    BY <1>7, OrderKept DEF RecvBuffered
  <1>8. ASSUME NEW p \in Procs, RecvRefill(p) PROVE SenderOrder'
    BY <1>8, <1>h, OrderTaken DEF RecvRefill
  <1>9. ASSUME NEW p \in Procs, RecvRendezvous(p) PROVE SenderOrder'
    BY <1>9, <1>h, OrderTaken DEF RecvRendezvous
  <1>10. ASSUME NEW p \in Procs, RecvClosed(p) PROVE SenderOrder'
    BY <1>10, OrderKept DEF RecvClosed
  <1>11. ASSUME NEW p \in Procs, RecvPark(p) PROVE SenderOrder'
    BY <1>11, OrderKept DEF RecvPark
  <1>12. ASSUME NEW p \in Procs, CloseBegin(p) PROVE SenderOrder'
    BY <1>12, OrderKept DEF CloseBegin
  <1>13. ASSUME NEW p \in Procs, CloseEnd(p) PROVE SenderOrder'
    BY <1>13, OrderKept DEF CloseEnd
  <1>14. ASSUME NEW p \in Procs, CloseRefused(p) PROVE SenderOrder'
    BY <1>14, OrderKept DEF CloseRefused, vars
  <1>15. QED
    BY <1>0, <1>1, <1>2, <1>3, <1>4, <1>5, <1>6, <1>7, <1>8, <1>9, <1>10, <1>11,
       <1>12, <1>13, <1>14 DEF Next, Send, Recv

LEMMA FlowInvariance == Spec => []FlowInv
  <1>1. Init => Conservation
    BY EmptyBuffer, EmptySeq, ChannelAssumption DEF Init, Conservation
  <1>2. Init => SenderOrder
    BY DEF Init, SenderOrder
  <1>3. QueueInv /\ FlowInv /\ [Next]_vars => FlowInv'
    BY ConservationStep, OrderStep DEF FlowInv
  <1>4. QED
    BY <1>1, <1>2, <1>3, QueueInvariance, PTL DEF Spec, FlowInv

(* Nothing is lost, duplicated or reordered between Send and Recv, and the *)
(* buffer never holds more than the capacity.                              *)
THEOREM FirstInFirstOut == Spec => []Conservation
  BY FlowInvariance, PTL DEF FlowInv

(* The messages of one sender are taken in the order it sent them. *)
THEOREM SendersInOrder == Spec => []SenderOrder
  BY FlowInvariance, PTL DEF FlowInv

-------------------------------------------------------------------------------
(* The refinement: which step of the contract each step of the channel is. *)

(* The message p is sending has not been taken yet. *)
LEMMA MsgFresh ==
  ASSUME QueueInv, SenderOrder, NEW p \in Procs, MidSend(p)
  PROVE  Msg(p) \in Messages /\ Promise!Fresh(Msg(p))
  <1>1. Msg(p) \in Messages
    BY MsgType DEF MidSend
  <1>2. sent[p] \in Nat
    BY TakenFacts
  <1>3. ASSUME NEW i \in 1..Len(accepted), accepted[i] = Msg(p)
        PROVE  FALSE
    <2>1. accepted[i][1] = p /\ accepted[i][2] = sent[p]
      BY <1>3 DEF Msg
    <2>2. accepted[i][2] < sent[p]
      BY <2>1 DEF SenderOrder
    <2>3. QED
      BY <2>1, <2>2, <1>2
  <1>4. QED
    BY <1>1, <1>3 DEF Promise!Fresh

(* What is in flight is what is in the buffer; the next to be delivered is *)
(* its head.                                                               *)
LEMMA InFlightIsBuffer ==
  ASSUME QueueInv, Conservation
  PROVE  /\ Promise!InFlight = Len(buf) /\ Len(buf) \in Nat
         /\ buf = <<>> => Len(buf) = 0 /\ accepted = delivered
         /\ buf # <<>> => /\ Len(buf) > 0
                          /\ Len(delivered) + 1 \in 1..Len(accepted)
                          /\ accepted[Len(delivered) + 1] = Head(buf)
  <1>1. /\ buf \in Seq(Messages) /\ delivered \in Seq(Messages)
        /\ Len(buf) \in Nat /\ Len(delivered) \in Nat
        /\ accepted = delivered \o buf
    BY DEF QueueInv, TypeOK, Conservation
  <1>2. /\ Len(accepted) = Len(delivered) + Len(buf)
        /\ \A i \in 1..Len(delivered) + Len(buf) :
             accepted[i] = IF i <= Len(delivered) THEN delivered[i] ELSE buf[i - Len(delivered)]
    BY <1>1, ConcatProperties
  <1>3. CASE buf = <<>>
    BY <1>1, <1>2, <1>3, EmptyBuffer DEF Promise!InFlight
  <1>4. CASE buf # <<>>
    <2>1. Head(buf) = buf[1] /\ Len(buf) >= 1
      BY <1>1, <1>4, TailFacts
    <2>2. accepted[Len(delivered) + 1] = buf[1]
      BY <1>1, <1>2, <2>1
    <2>3. QED
      BY <1>1, <1>2, <1>4, <2>1, <2>2 DEF Promise!InFlight
  <1>5. QED
    BY <1>3, <1>4

LEMMA ContractStep ==
  ASSUME QueueInv, FlowInv, [Next]_vars
  PROVE  [Promise!ContractNext]_(Promise!cvars)
  <1>q. /\ pc \in [Procs -> States] /\ accepted \in Seq(Messages)
        /\ delivered \in Seq(Messages) /\ Len(accepted) \in Nat /\ Len(delivered) \in Nat
        /\ Conservation /\ SenderOrder
    BY DEF QueueInv, TypeOK, FlowInv
  <1>w. NoLostWakeup /\ CloseOnce
    BY DEF QueueInv
  <1>h. /\ sendq # <<>> => Head(sendq) \in Procs /\ MidSend(Head(sendq))
        /\ recvq # <<>> => Head(recvq) \in Procs
    BY Heads DEF MidSend
  <1>f. /\ Promise!InFlight = Len(buf) /\ Len(buf) \in Nat
        /\ buf = <<>> => Len(buf) = 0 /\ accepted = delivered
        /\ buf # <<>> => /\ Len(buf) > 0
                         /\ Len(delivered) + 1 \in 1..Len(accepted)
                         /\ accepted[Len(delivered) + 1] = Head(buf)
    BY <1>q, InFlightIsBuffer
  <1> DEFINE Step == [Promise!ContractNext]_(Promise!cvars)
  <1> USE DEF object, goChan, history
  <1>0. CASE UNCHANGED <<cap, accepted, delivered, chClosed, ended>>
    BY <1>0 DEF Promise!cvars
  <1>1. ASSUME NEW p \in Procs, SendHandOver(p) PROVE Step
    <2>1. Msg(p) \in Messages /\ Promise!Fresh(Msg(p))
      BY <1>1, <1>q, MsgFresh DEF SendHandOver, MidSend
    <2>2. accepted = delivered
      BY <1>1, <1>w, <1>f DEF SendHandOver, NoLostWakeup
    <2>3. Append(accepted, Msg(p))[Len(delivered) + 1] = Msg(p)
      BY <1>q, <2>1, <2>2, AppendFacts
    <2>4. Promise!Exchange(Msg(p))
      BY <1>1, <2>1, <2>3 DEF SendHandOver, Promise!Exchange
    <2>5. QED
      BY <2>1, <2>4 DEF Promise!ContractNext
  <1>2. ASSUME NEW p \in Procs, SendBuffer(p) PROVE Step
    <2>1. Msg(p) \in Messages /\ Promise!Fresh(Msg(p))
      BY <1>2, <1>q, MsgFresh DEF SendBuffer, MidSend
    <2>2. Promise!Accept(Msg(p))
      BY <1>2, <2>1, <1>f DEF SendBuffer, EnterBuffer, Promise!Accept
    <2>3. QED
      BY <2>1, <2>2 DEF Promise!ContractNext
  <1>3. ASSUME NEW p \in Procs, RecvBuffered(p) PROVE Step
    <2>1. Promise!Deliver
      BY <1>3, <1>f DEF RecvBuffered, Promise!Deliver
    <2>2. QED
      BY <2>1 DEF Promise!ContractNext
  <1>4. ASSUME NEW p \in Procs, RecvRefill(p) PROVE Step
    <2> DEFINE m == Msg(Head(sendq))
    <2>1. m \in Messages /\ Promise!Fresh(m)
      BY <1>4, <1>q, <1>h, MsgFresh DEF RecvRefill
    <2>2. Append(accepted, m)[Len(delivered) + 1] = Head(buf)
      BY <1>4, <1>q, <1>f, <2>1, AppendFacts DEF RecvRefill
    <2>3. ~chClosed
      BY <1>4, <1>w DEF RecvRefill, NoLostWakeup
    <2>4. Promise!Exchange(m)
      BY <1>4, <2>1, <2>2, <2>3 DEF RecvRefill, Promise!Exchange
    <2>5. QED
      BY <2>1, <2>4 DEF Promise!ContractNext
  <1>5. ASSUME NEW p \in Procs, RecvRendezvous(p) PROVE Step
    <2> DEFINE m == Msg(Head(sendq))
    <2>1. m \in Messages /\ Promise!Fresh(m)
      BY <1>5, <1>q, <1>h, MsgFresh DEF RecvRendezvous
    <2>2. accepted = delivered
      BY <1>5, <1>f DEF RecvRendezvous
    <2>3. Append(accepted, m)[Len(delivered) + 1] = m
      BY <1>q, <2>1, <2>2, AppendFacts
    <2>4. ~chClosed
      BY <1>5, <1>w DEF RecvRendezvous, NoLostWakeup
    <2>5. Promise!Exchange(m)
      BY <1>5, <2>1, <2>3, <2>4 DEF RecvRendezvous, Promise!Exchange
    <2>6. QED
      BY <2>1, <2>5 DEF Promise!ContractNext
  <1>6. ASSUME NEW p \in Procs, RecvClosed(p) PROVE Step
    <2>1. Promise!End(p)
      BY <1>6, <1>f DEF RecvClosed, Promise!End
    <2>2. QED
      BY <2>1 DEF Promise!ContractNext
  <1>7. ASSUME NEW p \in Procs, CloseEnd(p) PROVE Step
    <2>1. ~chClosed
      BY <1>7, <1>w, ChannelAssumption DEF CloseEnd, CloseOnce
    <2>2. InQueue(recvq) \in SUBSET Procs
      BY DEF QueueInv, TypeOK, InQueue
    <2>3. InQueue(recvq) # {} => Promise!InFlight = 0
      BY <1>w, <1>f, InQueueEmpty DEF NoLostWakeup
    <2>4. Promise!Shut
      BY <1>7, <2>1, <2>2, <2>3 DEF CloseEnd, Promise!Shut
    <2>5. QED
      BY <2>4 DEF Promise!ContractNext
  <1>8. QED
    BY <1>0, <1>1, <1>2, <1>3, <1>4, <1>5, <1>6, <1>7
    DEF Next, Send, Recv, SendCheck, SendRefused, SendPanic, SendPark, RecvPark,
        CloseBegin, CloseRefused, vars

(* The channel implements its contract: bounded, first in first out, and   *)
(* closed to senders and to receivers in the right order.                  *)
THEOREM Implementation == Spec => ImplementsContract
  <1>1. Init => Promise!ContractInit
    BY DEF Init, Promise!ContractInit
  <1>2. QueueInv /\ FlowInv /\ [Next]_vars => [Promise!ContractNext]_(Promise!cvars)
    BY ContractStep
  <1>3. QED
    BY <1>1, <1>2, QueueInvariance, FlowInvariance, PTL
    DEF Spec, ImplementsContract, Promise!Contract

-------------------------------------------------------------------------------
(* Every message has one fate.  The parts of OneFate as sets of messages.  *)

Counted == {m \in Messages : m[2] <= sent[m[1]]}
Pending == {Msg(p) : p \in {q \in Procs : MidSend(q)}}
Of(A)   == {Msg(p) : p \in A}

Fates(taken, no, lost, pending, all) ==
  /\ taken \cup no \cup lost \cup pending = all
  /\ taken \cap no = {} /\ taken \cap lost = {} /\ taken \cap pending = {}
  /\ no \cap lost = {} /\ no \cap pending = {} /\ lost \cap pending = {}

LEMMA FatesOf ==
  OneFate <=> /\ Fates(InQueue(accepted), refused, killed, Pending, Counted)
              /\ Distinct(accepted)
  BY DEF OneFate, Fates, Counted, Pending

LEMMA FatesAfter ==
  OneFate' <=> /\ Fates(InQueue(accepted'), refused', killed', Pending', Counted')
               /\ Distinct(accepted')
  BY DEF OneFate, Fates, Counted, Pending, Distinct, InQueue

(* Beginning a send counts one message more, which had no fate.            *)
LEMMA CountsOne ==
  ASSUME QueueInv, NEW p \in Procs, sent[p] < MaxSends,
         sent' = [sent EXCEPT ![p] = @ + 1]
  PROVE  /\ Counted' = Counted \cup {<<p, sent[p] + 1>>}
         /\ <<p, sent[p] + 1>> \notin Counted
  <1>1. sent \in [Procs -> 0..MaxSends] /\ MaxSends \in Nat
    BY ChannelAssumption DEF QueueInv, TypeOK
  <1>2. <<p, sent[p] + 1>> \in Messages
    BY <1>1 DEF Messages
  <1>3. ASSUME NEW m \in Messages
        PROVE  m[2] <= sent'[m[1]] <=> m[2] <= sent[m[1]] \/ m = <<p, sent[p] + 1>>
    <2>1. /\ m[1] \in Procs /\ m[2] \in 1..MaxSends /\ m = <<m[1], m[2]>>
          /\ sent[m[1]] \in Nat
      BY <1>1, <1>3 DEF Messages
    <2>2. CASE m[1] = p
      BY <2>1, <2>2, <1>1
    <2>3. CASE m[1] # p
      BY <2>1, <2>3, <1>1
    <2>4. QED
      BY <2>2, <2>3
  <1>4. Counted' = {m \in Messages : m[2] <= sent'[m[1]]}
    BY DEF Counted, Messages
  <1>5. <<p, sent[p] + 1>> \notin Counted
    BY <1>1 DEF Counted
  <1>6. QED
    BY <1>2, <1>3, <1>4, <1>5 DEF Counted

(* When the threads of execution of A, and no others, stop being in the    *)
(* middle of a send, it is their messages that stop being pending.         *)
LEMMA PendingLeaves ==
  ASSUME NEW A \in SUBSET Procs, \A q \in A : MidSend(q), sent' = sent,
         \A q \in Procs : MidSend(q)' <=> MidSend(q) /\ q \notin A
  PROVE  /\ Pending' = Pending \ Of(A) /\ Of(A) \subseteq Pending
         /\ Counted' = Counted
  <1>1. \A q \in Procs : Msg(q)' = Msg(q)
    BY DEF Msg
  <1>2. \A q, r : Msg(q) = Msg(r) => q = r
    BY DEF Msg
  <1>3. Pending' = {Msg(q) : q \in {r \in Procs : MidSend(r) /\ r \notin A}}
    BY <1>1 DEF Pending
  <1>4. Pending' = Pending \ Of(A)
    BY <1>2, <1>3 DEF Pending, Of
  <1>5. Of(A) \subseteq Pending
    BY DEF Pending, Of
  <1>6. QED
    BY <1>4, <1>5 DEF Counted, Messages

(* Messages that were pending and become one of the other three kinds.     *)
LEMMA FateFound ==
  ASSUME NEW T, NEW R, NEW K, NEW P, NEW S, Fates(T, R, K, P, S),
         NEW X, X \subseteq P
  PROVE  Fates(T \cup X, R, K, P \ X, S) /\ Fates(T, R, K \cup X, P \ X, S)
  BY DEF Fates

(* A message that has just been counted is refused, or pending.            *)
LEMMA FateBegins ==
  ASSUME NEW T, NEW R, NEW K, NEW P, NEW S, Fates(T, R, K, P, S),
         NEW m, m \notin S
  PROVE  /\ Fates(T, R \cup {m}, K, P, S \cup {m})
         /\ Fates(T, R, K, P \cup {m}, S \cup {m})
  BY DEF Fates

(* The message of q is taken, and q goes on.                               *)
LEMMA FateTaken ==
  ASSUME QueueInv, OneFate, NEW q \in Procs, MidSend(q),
         accepted' = Append(accepted, Msg(q)), sent' = sent,
         refused' = refused, killed' = killed,
         \A r \in Procs : MidSend(r)' <=> MidSend(r) /\ r # q
  PROVE  OneFate'
  <1>1. accepted \in Seq(Messages) /\ Msg(q) \in Messages
    BY MsgType DEF QueueInv, TypeOK, MidSend
  <1>2. InQueue(accepted') = InQueue(accepted) \cup {Msg(q)}
    BY <1>1, InQueueAppend
  <1>3. Pending' = Pending \ Of({q}) /\ Of({q}) \subseteq Pending /\ Counted' = Counted
    <2>1. /\ {q} \in SUBSET Procs /\ \A r \in {q} : MidSend(r)
          /\ \A r \in Procs : MidSend(r)' <=> MidSend(r) /\ r \notin {q}
      OBVIOUS
    <2>2. QED
      BY <2>1, PendingLeaves
  <1>4. Of({q}) = {Msg(q)}
    BY DEF Of
  <1>5. Fates(InQueue(accepted), refused, killed, Pending, Counted) /\ Distinct(accepted)
    BY FatesOf
  <1>6. Msg(q) \notin InQueue(accepted)
    BY <1>3, <1>4, <1>5 DEF Fates
  <1>7. Distinct(accepted')
    BY <1>1, <1>5, <1>6, DistinctAppend
  <1>8. Fates(InQueue(accepted'), refused', killed', Pending', Counted')
    <2>1. Fates(InQueue(accepted) \cup Of({q}), refused, killed, Pending \ Of({q}), Counted)
      BY <1>3, <1>5, FateFound
    <2>2. QED
      BY <2>1, <1>2, <1>3, <1>4
  <1>9. QED
    BY <1>7, <1>8, FatesAfter

(* The messages of A are lost to a panic.                                  *)
LEMMA FateLost ==
  ASSUME OneFate, NEW A \in SUBSET Procs, \A q \in A : MidSend(q),
         accepted' = accepted, sent' = sent, refused' = refused,
         killed' = killed \cup Of(A),
         \A q \in Procs : MidSend(q)' <=> MidSend(q) /\ q \notin A
  PROVE  OneFate'
  <1>1. Pending' = Pending \ Of(A) /\ Of(A) \subseteq Pending /\ Counted' = Counted
    BY PendingLeaves
  <1>2. Fates(InQueue(accepted), refused, killed, Pending, Counted) /\ Distinct(accepted)
    BY FatesOf
  <1>3. Fates(InQueue(accepted), refused, killed \cup Of(A), Pending \ Of(A), Counted)
    BY <1>1, <1>2, FateFound
  <1>4. QED
    BY <1>1, <1>2, <1>3, FatesAfter

(* Nothing happens to a message.                                           *)
LEMMA FateKept ==
  ASSUME OneFate, accepted' = accepted, sent' = sent, refused' = refused,
         killed' = killed, \A q \in Procs : MidSend(q)' <=> MidSend(q)
  PROVE  OneFate'
  <1>1. killed' = killed \cup Of({})
    BY DEF Of
  <1>2. QED
    BY <1>1, FateLost

LEMMA FateStep == QueueInv /\ OneFate /\ [Next]_vars => OneFate'
  <1> SUFFICES ASSUME QueueInv, OneFate, [Next]_vars PROVE OneFate'
    OBVIOUS
  <1>t. pc \in [Procs -> States] /\ sent \in [Procs -> 0..MaxSends] /\ MaxSends \in Nat
    BY ChannelAssumption DEF QueueInv, TypeOK
  <1>h. /\ sendq # <<>> => Head(sendq) \in Procs /\ pc[Head(sendq)] = "sending"
        /\ recvq # <<>> => Head(recvq) \in Procs /\ pc[Head(recvq)] = "receiving"
    BY Heads
  <1>q. /\ InQueue(sendq) \subseteq Procs /\ InQueue(recvq) \subseteq Procs
        /\ \A q \in Procs : pc[q] = "sending" <=> q \in InQueue(sendq)
        /\ \A q \in Procs : pc[q] = "receiving" <=> q \in InQueue(recvq)
    BY DEF QueueInv, TypeOK, NoLostWakeup, InQueue
  <1>f. Fates(InQueue(accepted), refused, killed, Pending, Counted) /\ Distinct(accepted)
    BY FatesOf
  <1> USE <1>t DEF States, object, goChan, history
  <1>0. CASE UNCHANGED vars
    BY <1>0, FateKept DEF vars, MidSend
  <1>1. ASSUME NEW p \in Procs, SendCheck(p) PROVE OneFate'
    <2>1. /\ Counted' = Counted \cup {<<p, sent[p] + 1>>}
          /\ <<p, sent[p] + 1>> \notin Counted
      BY <1>1, CountsOne DEF SendCheck
    <2>2. ASSUME NEW q \in Procs
          PROVE  /\ MidSend(q)' <=> MidSend(q) \/ q = p
                 /\ q # p => Msg(q)' = Msg(q)
                 /\ q = p => ~MidSend(q) /\ Msg(q)' = <<p, sent[p] + 1>>
      BY <1>1, <2>2 DEF SendCheck, MidSend, Msg
    <2>3. Pending' = Pending \cup {<<p, sent[p] + 1>>}
      <3>1. Pending' = {Msg(q)' : q \in {r \in Procs : MidSend(r)'}}
        BY DEF Pending
      <3>2. QED
        BY <2>2, <3>1 DEF Pending
    <2>4. accepted' = accepted /\ refused' = refused /\ killed' = killed
      BY <1>1 DEF SendCheck
    <2>5. Fates(InQueue(accepted), refused, killed, Pending', Counted')
      BY <2>1, <2>3, <1>f, FateBegins
    <2>6. QED
      BY <2>4, <2>5, <1>f, FatesAfter
  <1>2. ASSUME NEW p \in Procs, SendRefused(p) PROVE OneFate'
    <2>1. /\ Counted' = Counted \cup {<<p, sent[p] + 1>>}
          /\ <<p, sent[p] + 1>> \notin Counted
      BY <1>2, CountsOne DEF SendRefused
    <2>2. ASSUME NEW q \in Procs
          PROVE  (MidSend(q)' <=> MidSend(q)) /\ (MidSend(q) => Msg(q)' = Msg(q))
      <3>1. CASE q = p
        BY <1>2, <3>1 DEF SendRefused, MidSend
      <3>2. CASE q # p
        BY <1>2, <3>2 DEF SendRefused, MidSend, Msg
      <3>3. QED
        BY <3>1, <3>2
    <2>3. Pending' = Pending
      <3>1. Pending' = {Msg(q)' : q \in {r \in Procs : MidSend(r)'}}
        BY DEF Pending
      <3>2. Pending = {Msg(q) : q \in {r \in Procs : MidSend(r)}}
        BY DEF Pending
      <3>3. \A m : m \in Pending' <=> m \in Pending
        BY <2>2, <3>1, <3>2
      <3>4. QED
        BY <3>1, <3>2, <3>3
    <2>4. /\ accepted' = accepted /\ killed' = killed
          /\ refused' = refused \cup {<<p, sent[p] + 1>>}
      BY <1>2 DEF SendRefused
    <2>5. Fates(InQueue(accepted), refused', killed, Pending, Counted')
      BY <2>1, <2>4, <1>f, FateBegins
    <2>6. QED
      BY <2>3, <2>4, <2>5, <1>f, FatesAfter
  <1>3. ASSUME NEW p \in Procs, SendPanic(p) PROVE OneFate'
    <2>1. killed' = killed \cup Of({p})
      BY <1>3 DEF SendPanic, Of
    <2>2. QED
      BY <1>3, <2>1, FateLost DEF SendPanic, MidSend
  <1>4. ASSUME NEW p \in Procs, SendHandOver(p) PROVE OneFate'
    BY <1>4, <1>h, FateTaken DEF SendHandOver, MidSend
  <1>5. ASSUME NEW p \in Procs, SendBuffer(p) PROVE OneFate'
    BY <1>5, FateTaken DEF SendBuffer, EnterBuffer, MidSend
  <1>6. ASSUME NEW p \in Procs, SendPark(p) PROVE OneFate'
    BY <1>6, FateKept DEF SendPark, MidSend
  <1>7. ASSUME NEW p \in Procs, RecvBuffered(p) PROVE OneFate'
    BY <1>7, FateKept DEF RecvBuffered, MidSend
  <1>8. ASSUME NEW p \in Procs, RecvRefill(p) PROVE OneFate'
    BY <1>8, <1>h, FateTaken DEF RecvRefill, MidSend
  <1>9. ASSUME NEW p \in Procs, RecvRendezvous(p) PROVE OneFate'
    BY <1>9, <1>h, FateTaken DEF RecvRendezvous, MidSend
  <1>10. ASSUME NEW p \in Procs, RecvClosed(p) PROVE OneFate'
    BY <1>10, FateKept DEF RecvClosed, MidSend
  <1>11. ASSUME NEW p \in Procs, RecvPark(p) PROVE OneFate'
    BY <1>11, FateKept DEF RecvPark, MidSend
  <1>12. ASSUME NEW p \in Procs, CloseBegin(p) PROVE OneFate'
    BY <1>12, FateKept DEF CloseBegin, MidSend
  <1>13. ASSUME NEW p \in Procs, CloseEnd(p) PROVE OneFate'
    <2>1. killed' = killed \cup Of(InQueue(sendq))
      BY <1>13 DEF CloseEnd, Of
    <2>2. \A q \in Procs : MidSend(q)' <=> MidSend(q) /\ q \notin InQueue(sendq)
      BY <1>13, <1>q DEF CloseEnd, MidSend
    <2>3. \A q \in InQueue(sendq) : MidSend(q)
      BY <1>q DEF MidSend
    <2>4. accepted' = accepted /\ sent' = sent /\ refused' = refused
      BY <1>13 DEF CloseEnd
    <2>5. QED
      BY <2>1, <2>2, <2>3, <2>4, <1>q, FateLost
  <1>14. ASSUME NEW p \in Procs, CloseRefused(p) PROVE OneFate'
    BY <1>14, FateKept DEF CloseRefused, vars, MidSend
  <1>15. QED
    BY <1>0, <1>1, <1>2, <1>3, <1>4, <1>5, <1>6, <1>7, <1>8, <1>9, <1>10, <1>11,
       <1>12, <1>13, <1>14 DEF Next, Send, Recv

(* Every message has exactly one fate: no Send ends without the program    *)
(* being told, and none is told that it failed whose message was taken.    *)
THEOREM EveryMessageHasOneFate == Spec => []OneFate
  <1>1. Init => OneFate
    <2>1. ASSUME Init PROVE OneFate
      <3>1. Counted = {}
        <4>1. \A m \in Messages : m[1] \in Procs /\ m[2] \in 1..MaxSends
          BY DEF Messages
        <4>2. QED
          BY <2>1, <4>1, ChannelAssumption DEF Init, Counted
      <3>2. Pending = {}
        BY <2>1 DEF Init, Pending, MidSend
      <3>3. accepted = <<>> /\ refused = {} /\ killed = {}
        BY <2>1 DEF Init
      <3>4. Fates(InQueue(accepted), refused, killed, Pending, Counted) /\ Distinct(accepted)
        BY <3>1, <3>2, <3>3, InQueueEmpty DEF Fates
      <3>5. QED
        BY <3>4, FatesOf
    <2>2. QED
      BY <2>1
  <1>2. QueueInv /\ OneFate /\ [Next]_vars => OneFate'
    BY FateStep
  <1>3. QED
    BY <1>1, <1>2, QueueInvariance, PTL DEF Spec
==============================================================================
