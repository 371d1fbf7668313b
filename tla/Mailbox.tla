------------------------------ MODULE Mailbox ------------------------------
(***************************************************************************)
(* What the core of lwIP expects of a mailbox (Lwip-2.1.2/include/lwip/    *)
(* sys.h): a first-in first-out channel with a fixed number of places.  A  *)
(* message occupies its place until the fetch that takes it out returns.   *)
(***************************************************************************)
EXTENDS Naturals, Sequences, FiniteSets

CONSTANTS Msg, NoMsg, Receiver, Size

VARIABLES
  box,    \* the messages in the mailbox, oldest first
  hand    \* [Receiver -> the message its fetch has taken, or NoMsg]

absVars == <<box, hand>>

AbsInit == box = << >> /\ hand = [r \in Receiver |-> NoMsg]

Busy == {r \in Receiver : hand[r] # NoMsg}

(* A sender finds a free place, and a message that is not in the mailbox. *)
MaySend(m) ==
  /\ Len(box) + Cardinality(Busy) < Size
  /\ \A i \in 1 .. Len(box) : box[i] # m
  /\ \A r \in Receiver : hand[r] # m

Send(m) == MaySend(m) /\ box' = Append(box, m) /\ UNCHANGED hand

(* A receiver that waits is handed the message directly. *)
SendTo(r, m) ==
  /\ MaySend(m) /\ box = << >> /\ r \notin Busy
  /\ hand' = [hand EXCEPT ![r] = m]
  /\ UNCHANGED box

Receive(r) ==
  /\ box # << >> /\ r \notin Busy
  /\ hand' = [hand EXCEPT ![r] = Head(box)]
  /\ box' = Tail(box)

Return(r) == r \in Busy /\ hand' = [hand EXCEPT ![r] = NoMsg] /\ UNCHANGED box

AbsNext ==
  \/ \E m \in Msg : Send(m) \/ \E r \in Receiver : SendTo(r, m)
  \/ \E r \in Receiver : Receive(r) \/ Return(r)

AbsSafety == AbsInit /\ [][AbsNext]_absVars

(* Whatever is sent is received in the end. *)
AbsSpec ==
  /\ AbsSafety
  /\ WF_absVars(\E r \in Receiver : Receive(r))
  /\ \A r \in Receiver : WF_absVars(Return(r))
=============================================================================
