--------------------------- MODULE ChannelContract ---------------------------
(***************************************************************************)
(* What a channel of the language promises the program that uses it: a     *)
(* bounded first-in first-out queue.  Nothing is lost, duplicated or       *)
(* reordered, at most cap messages are in flight, nothing is accepted once *)
(* the channel is shut, and a receiver is told "no more" only after the    *)
(* channel is shut and everything accepted has been delivered.  Channel    *)
(* implements this specification.                                          *)
(***************************************************************************)
EXTENDS Integers, Sequences

CONSTANTS Procs,      \* the threads of execution that use the channel
          Messages,   \* the messages they may send
          Caps        \* the capacities there are

VARIABLES cap,        \* the capacity given to chan()
          accepted,   \* every message the channel took, oldest first
          delivered,  \* every message a receiver was given, oldest first
          open,       \* FALSE once the channel is shut
          ended       \* the receivers that were told "no more"

cvars == <<cap, accepted, delivered, open, ended>>

ContractTypeOK ==
  /\ cap \in Caps
  /\ accepted \in Seq(Messages)
  /\ delivered \in Seq(Messages)
  /\ open \in BOOLEAN
  /\ ended \subseteq Procs

ContractInit ==
  /\ cap \in Caps
  /\ accepted = <<>>
  /\ delivered = <<>>
  /\ open = TRUE
  /\ ended = {}

InFlight == Len(accepted) - Len(delivered)

Fresh(m) == \A i \in 1..Len(accepted) : accepted[i] # m

(* A message enters a channel that has room. *)
Accept(m) ==
  /\ open
  /\ Fresh(m)
  /\ InFlight < cap
  /\ accepted' = Append(accepted, m)
  /\ UNCHANGED <<cap, delivered, open, ended>>

(* The oldest message in flight reaches a receiver. *)
Deliver ==
  /\ InFlight > 0
  /\ delivered' = Append(delivered, accepted[Len(delivered) + 1])
  /\ UNCHANGED <<cap, accepted, open, ended>>

(* A message enters while the oldest one in flight leaves; when none is in *)
(* flight the two are the same message, handed over directly.              *)
Exchange(m) ==
  /\ open
  /\ Fresh(m)
  /\ accepted' = Append(accepted, m)
  /\ delivered' = Append(delivered, Append(accepted, m)[Len(delivered) + 1])
  /\ UNCHANGED <<cap, open, ended>>

(* The channel is shut; waiting receivers may be told so in the same step, *)
(* but only if they have nothing left to receive.                          *)
Shut ==
  /\ open
  /\ open' = FALSE
  /\ \E told \in SUBSET Procs :
       /\ told # {} => InFlight = 0
       /\ ended' = ended \cup told
  /\ UNCHANGED <<cap, accepted, delivered>>

(* A receiver is told that there will be no more. *)
End(p) ==
  /\ ~open
  /\ InFlight = 0
  /\ ended' = ended \cup {p}
  /\ UNCHANGED <<cap, accepted, delivered, open>>

ContractNext ==
  \/ \E m \in Messages : Accept(m) \/ Exchange(m)
  \/ Deliver
  \/ Shut
  \/ \E p \in Procs : End(p)

Contract == ContractInit /\ [][ContractNext]_cvars
==============================================================================
