--------------------------- MODULE EthClientProof ---------------------------
(***************************************************************************)
(* Proofs about the TCP client, for any window, mailbox, send buffer, pool *)
(* of netbufs and number of segments: OneSignal, PbufsConserved,           *)
(* FetchWakes, NothingLeft and StreamIntact are invariants of Spec.  IInv  *)
(* is the inductive invariant, SInv the one for StreamIntact; each of      *)
(* their parts has a lemma for its preservation.                           *)
(***************************************************************************)
EXTENDS EthClient, TLAPS

Message == Segment \cup {Fin, Err}
Mbox == Seq(Message)

PC == {"top", "connect", "connecting", "keepalive", "recv", "fetch", "tryfetch",
       "recved", "fin", "shut", "echo", "write", "writing",
       "delete", "give_up", "free", "free_delay", "delay"}
Freeing == {"free", "free_delay"}

(* Types, as far as the other parts need them. *)
IsConn(c) ==
  c \in [live : BOOLEAN,
         pcb : {"none", "closed", "syn_sent", "established", "close_wait"},
         state : {"NONE", "CONNECT", "WRITE"}, msg : BOOLEAN, pend : BOOLEAN,
         closed : BOOLEAN, up : BOOLEAN, mbox : Mbox, places : Nat,
         taking : BOOLEAN, refused : Segment \cup {NoBuf}, late : BOOLEAN, lost : BOOLEAN]
Typed ==
  /\ IsConn(conn) /\ sem \in Nat /\ pc \in PC /\ netbufs \in Nat
  /\ buf \in Segment \cup {NoBuf} /\ next \in Nat \ {0} /\ doubled \in BOOLEAN

(* A call in progress has a pcb in a state that can complete it, and a pcb    *)
(* that is connecting or not yet used belongs to such a call.                 *)
CallHasPcb ==
  /\ conn.pcb = "syn_sent" <=> conn.state = "CONNECT"
  /\ conn.state = "WRITE" => conn.pcb \in {"established", "close_wait"}
  /\ conn.pcb = "closed" => pc \in {"connect", "give_up"}
  /\ pc = "connect" => conn.pcb = "closed"
  /\ conn.refused # NoBuf =>
       conn.pcb \in {"established", "close_wait"} /\ (conn.late => conn.pcb = "close_wait")

(* Where App_EthTask can be while there is no netconn, or half of one. *)
Phase ==
  /\ ~conn.live => conn = NoConn /\ pc \in {"top", "delay"}
  /\ pc = "delay" => ~conn.live
  /\ pc \in Freeing => conn.pcb = "none" /\ conn.mbox = << >> /\ conn.refused = NoBuf

(* The netbuf that is not in its pool is with App_EthTask, between Recv and   *)
(* the step that gives it back; it holds a pbuf on the way to Echo.           *)
Holding == pc \in {"fetch", "tryfetch", "fin", "recved", "shut", "echo"}
NetbufsCounted ==
  /\ netbufs = IF Holding THEN NetBufs - 1 ELSE NetBufs
  /\ buf # NoBuf <=> pc \in {"recved", "echo"}

(* What is not freed is somewhere, and until a trypost refused what it queued *)
(* a segment is in recvmbox at most once.  None of them is still to come.     *)
Distinct(m) ==
  \A i, j \in DOMAIN m : m[i] = m[j] /\ m[i] \in Segment => i = j
Fresh ==
  /\ alive \subseteq Segment \cap (ToSet(conn.mbox) \cup {buf, conn.refused})
  /\ ~doubled => Distinct(conn.mbox)
  /\ \A s \in ToSet(conn.mbox) \cap Segment : s < next
  /\ buf < next /\ conn.refused < next

(* How App_EthTask learns the end of a connection: from the flags it reads    *)
(* before it waits, or from what is in recvmbox or comes there with what was  *)
(* refused.                                                                   *)
EndKnown ==
  /\ conn.live /\ ~conn.up => pc \in {"delete"} \cup Freeing
  /\ conn.live /\ conn.up /\ conn.pcb = "none" => conn.closed
  /\ conn.pcb = "close_wait" =>
       \/ Fin \in ToSet(conn.mbox) \/ pc \in {"fin", "shut", "delete"}
       \/ conn.lost \/ (conn.refused # NoBuf /\ conn.late)
  /\ pc = "fetch" /\ conn.pcb = "none" => conn.mbox # << >>

IInv ==
  /\ Typed /\ OneSignal /\ CallHasPcb /\ Phase
  /\ NetbufsCounted /\ PbufsConserved /\ Fresh /\ EndKnown

-----------------------------------------------------------------------------
(* Sequences of messages. *)

LEMMA EmptyMbox == << >> \in Mbox /\ ToSet(<< >>) = {} /\ Distinct(<< >>)
BY DEF Mbox, ToSet, Distinct

LEMMA MboxAppend ==
  ASSUME NEW m \in Mbox, NEW x \in Message
  PROVE  Append(m, x) \in Mbox /\ ToSet(Append(m, x)) = ToSet(m) \cup {x}
<1> DEFINE n == Append(m, x)
<1>1. n \in Mbox /\ DOMAIN n = 1 .. Len(m) + 1 /\ DOMAIN m = 1 .. Len(m) /\ Len(m) \in Nat
  BY DEF Mbox
<1>2. n[Len(m) + 1] = x /\ \A i \in DOMAIN m : n[i] = m[i]
  BY DEF Mbox
<1>3. DOMAIN n = DOMAIN m \cup {Len(m) + 1}
  BY <1>1
<1> QED BY <1>1, <1>2, <1>3 DEF ToSet

LEMMA DistinctAppend ==
  ASSUME NEW m \in Mbox, NEW x \in Message, Distinct(m), x \notin ToSet(m) \cap Segment
  PROVE  Distinct(Append(m, x))
<1>1. DOMAIN m = 1 .. Len(m) /\ Len(m) \in Nat /\ DOMAIN Append(m, x) = 1 .. Len(m) + 1
  BY DEF Mbox
<1>2. Append(m, x)[Len(m) + 1] = x /\ \A i \in DOMAIN m : Append(m, x)[i] = m[i]
  BY DEF Mbox
<1>3. \A i \in DOMAIN m : m[i] = x => x \notin Segment
  BY DEF ToSet
<1> QED BY <1>1, <1>2, <1>3 DEF Distinct

LEMMA MboxTail ==
  ASSUME NEW m \in Mbox, m # << >>
  PROVE  /\ Tail(m) \in Mbox /\ Head(m) \in Message
         /\ ToSet(m) = {Head(m)} \cup ToSet(Tail(m))
<1> DEFINE n == Tail(m)
<1>1. n \in Mbox /\ Head(m) = m[1] /\ m[1] \in Message /\ Len(m) \in Nat \ {0}
  BY DEF Mbox
<1>2. DOMAIN m = 1 .. Len(m) /\ DOMAIN n = 1 .. Len(m) - 1
  BY DEF Mbox
<1>3. \A i \in DOMAIN n : i + 1 \in DOMAIN m /\ n[i] = m[i + 1]
  BY DEF Mbox
<1>4. \A i \in DOMAIN m : i # 1 => i - 1 \in DOMAIN n /\ n[i - 1] = m[i]
  BY <1>1, <1>2, <1>3
<1>5. 1 \in DOMAIN m
  BY <1>1, <1>2
<1>6. ToSet(n) \cup {m[1]} \subseteq ToSet(m)
  BY <1>3, <1>5 DEF ToSet
<1>7. ToSet(m) \subseteq {m[1]} \cup ToSet(n)
  BY <1>4 DEF ToSet
<1> QED BY <1>1, <1>6, <1>7

LEMMA DistinctTail ==
  ASSUME NEW m \in Mbox, m # << >>, Distinct(m)
  PROVE  Distinct(Tail(m)) /\ Head(m) \notin ToSet(Tail(m)) \cap Segment
<1> DEFINE n == Tail(m)
<1>1. Head(m) = m[1] /\ Len(m) \in Nat \ {0} /\ DOMAIN m = 1 .. Len(m) /\ DOMAIN n = 1 .. Len(m) - 1
  BY DEF Mbox
<1>2. \A i \in DOMAIN n : i + 1 \in DOMAIN m /\ n[i] = m[i + 1] /\ i + 1 # 1 /\ i \in Int
  BY <1>1 DEF Mbox
<1>3. Distinct(n)
  BY <1>2 DEF Distinct
<1>4. \A i \in DOMAIN n : n[i] = m[1] => m[1] \notin Segment
  BY <1>1, <1>2 DEF Distinct
<1> QED BY <1>1, <1>3, <1>4 DEF ToSet

LEMMA MboxMessages == ASSUME NEW m \in Mbox PROVE ToSet(m) \subseteq Message
BY DEF Mbox, ToSet

LEMMA Kinds ==
  /\ Message = Segment \cup {Fin, Err} /\ Fin \notin Segment /\ Err \notin Segment
  /\ Fin # Err /\ NoBuf \notin Message /\ NoBuf \notin Segment
  /\ \A s \in Segment : s \in Nat /\ s # 0 /\ s # NoBuf
BY ClientAssumption DEF Message, Segment, Fin, Err, NoBuf

LEMMA NumberKinds == NoBuf = 0 /\ \A n \in Nat \ {0} : NoBuf < n
BY DEF NoBuf

-----------------------------------------------------------------------------
(* sys_mbox_trypost and recv_tcp. *)

(* What a message for recvmbox leaves alone of the netconn. *)
SameCall(c, d) ==
  /\ d.live = c.live /\ d.pcb = c.pcb /\ d.state = c.state /\ d.msg = c.msg
  /\ d.pend = c.pend /\ d.closed = c.closed /\ d.up = c.up /\ d.taking = c.taking

LEMMA TrypostIs ==
  ASSUME NEW c, IsConn(c), NEW x \in Message
  PROVE  /\ IsConn(Trypost(c, x)) /\ SameCall(c, Trypost(c, x))
         /\ Trypost(c, x).mbox = IF Queues(c) THEN Append(c.mbox, x) ELSE c.mbox
         /\ Trypost(c, x).refused = c.refused /\ Trypost(c, x).late = c.late
         /\ Trypost(c, x).lost = c.lost
         /\ ~Queues(c) => c.mbox # << >>
<1>1. c.mbox \in Mbox /\ Append(c.mbox, x) \in Mbox /\ c.places \in Nat
  BY MboxAppend DEF IsConn
<1>2. ~Queues(c) => c.mbox # << >>
  BY ClientAssumption DEF Queues
<1>3. /\ (IF Queues(c) THEN Append(c.mbox, x) ELSE c.mbox) \in Mbox
      /\ (IF Accepts(c) THEN c.places - 1 ELSE c.places) \in Nat
  BY <1>1 DEF Accepts
<1>4. IsConn(Trypost(c, x))
  BY <1>3 DEF Trypost, IsConn
<1> QED BY <1>2, <1>4 DEF Trypost, IsConn, SameCall

LEMMA ClosedIs ==
  ASSUME NEW c, IsConn(c)
  PROVE  /\ IsConn(Closed(c)) /\ SameCall(c, Closed(c))
         /\ Closed(c).mbox = IF Queues(c) THEN Append(c.mbox, Fin) ELSE c.mbox
         /\ Closed(c).refused = c.refused /\ Closed(c).late = c.late
         /\ Fin \in ToSet(Closed(c).mbox) \/ Closed(c).lost
<1> DEFINE t == Trypost(c, Fin)
<1>1. /\ IsConn(t) /\ SameCall(c, t) /\ t.refused = c.refused /\ t.late = c.late
      /\ t.mbox = IF Queues(c) THEN Append(c.mbox, Fin) ELSE c.mbox
      /\ t.lost = c.lost
  BY TrypostIs, Kinds
<1>2. Closed(c) = [t EXCEPT !.lost = t.lost \/ ~Queues(c)]
  BY DEF Closed
<1> HIDE DEF t
<1>3. /\ IsConn(Closed(c)) /\ SameCall(t, Closed(c)) /\ Closed(c).mbox = t.mbox
      /\ Closed(c).refused = t.refused /\ Closed(c).late = t.late
      /\ Closed(c).lost = (t.lost \/ ~Queues(c))
  BY <1>1, <1>2 DEF IsConn, SameCall
<1>4. Queues(c) => Fin \in ToSet(Closed(c).mbox)
  <2>1. c.mbox \in Mbox
    BY DEF IsConn
  <2> QED BY <1>1, <1>3, <2>1, MboxAppend, Kinds
<1>5. SameCall(c, Closed(c))
  BY <1>1, <1>3 DEF SameCall
<1> QED BY <1>1, <1>3, <1>4, <1>5

(* A segment with or without a FIN behind it: recvmbox takes it, or refuses   *)
(* it, or does both.                                                          *)
Taken(c, s, fin) ==
  /\ conn'.refused = NoBuf /\ doubled' = doubled
  /\ \/ conn'.mbox = Append(c.mbox, s)
     \/ fin /\ conn'.mbox = Append(Append(c.mbox, s), Fin)
  /\ fin => Fin \in ToSet(conn'.mbox) \/ conn'.lost
Refused(c, s, fin) ==
  /\ conn'.refused = s /\ conn'.late = fin
  /\ \/ conn'.mbox = c.mbox /\ doubled' = doubled
     \/ conn'.mbox = Append(c.mbox, s) /\ doubled'

LEMMA DeliverIs ==
  ASSUME NEW c, IsConn(c), NEW s \in Segment, NEW fin \in BOOLEAN, Deliver(c, s, fin),
         doubled \in BOOLEAN
  PROVE  /\ IsConn(conn') /\ SameCall(c, conn') /\ doubled' \in BOOLEAN
         /\ Taken(c, s, fin) \/ Refused(c, s, fin)
<1> DEFINE t == Trypost(c, s)
           d == [t EXCEPT !.refused = IF Accepts(c) THEN NoBuf ELSE s,
                          !.late = fin /\ ~Accepts(c)]
<1>1. /\ IsConn(t) /\ SameCall(c, t)
      /\ t.mbox = IF Queues(c) THEN Append(c.mbox, s) ELSE c.mbox
  BY TrypostIs, Kinds
<1>2. /\ conn' = IF Accepts(c) /\ fin THEN Closed(d) ELSE d
      /\ doubled' = (doubled \/ (Queues(c) /\ ~Accepts(c)))
  BY DEF Deliver
<1> HIDE DEF t
<1>3. /\ IsConn(d) /\ SameCall(t, d) /\ d.mbox = t.mbox
      /\ d.refused = (IF Accepts(c) THEN NoBuf ELSE s) /\ d.late = (fin /\ ~Accepts(c))
  BY <1>1 DEF IsConn, SameCall
<1> HIDE DEF d
<1>4. SameCall(c, d)
  BY <1>1, <1>3 DEF SameCall
<1>5. CASE Accepts(c)
  <2>1. Queues(c) /\ d.mbox = Append(c.mbox, s) /\ d.refused = NoBuf /\ doubled' = doubled
    BY <1>1, <1>2, <1>3, <1>5 DEF Accepts
  <2>2. CASE fin
    <3>1. conn' = Closed(d)
      BY <1>2, <1>5, <2>2
    <3>2. /\ IsConn(conn') /\ SameCall(d, conn') /\ conn'.refused = NoBuf
          /\ conn'.mbox = IF Queues(d) THEN Append(d.mbox, Fin) ELSE d.mbox
          /\ Fin \in ToSet(conn'.mbox) \/ conn'.lost
      BY <1>3, <2>1, <3>1, ClosedIs
    <3>3. SameCall(c, conn')
      BY <1>4, <3>2 DEF SameCall
    <3> QED BY <2>1, <2>2, <3>2, <3>3 DEF Taken
  <2>3. CASE ~fin
    <3>1. conn' = d
      BY <1>2, <2>3
    <3> QED BY <1>3, <1>4, <2>1, <2>3, <3>1 DEF Taken
  <2> QED BY <2>2, <2>3
<1>6. CASE ~Accepts(c)
  <2>1. conn' = d /\ d.refused = s /\ d.late = fin
    BY <1>2, <1>3, <1>6
  <2>2. Refused(c, s, fin)
    BY <1>1, <1>2, <1>3, <1>6, <2>1 DEF Refused
  <2> QED BY <1>2, <1>3, <1>4, <2>1, <2>2
<1> QED BY <1>5, <1>6

(* The two ways to recv_tcp with a segment. *)
LEMMA RecvIs ==
  ASSUME Typed, RecvSegment
  PROVE  /\ next \in Segment /\ next \in Message
         /\ conn.pcb = "established" /\ conn.refused = NoBuf
         /\ alive' = alive \cup {next} /\ next' = next + 1
         /\ UNCHANGED <<sem, failed, pc, buf, netbufs, recved, unacked>>
         /\ IsConn(conn') /\ doubled' \in BOOLEAN
         /\ conn'.live = conn.live /\ conn'.state = conn.state /\ conn'.msg = conn.msg
         /\ conn'.pend = conn.pend /\ conn'.closed = conn.closed /\ conn'.up = conn.up
         /\ \E fin \in BOOLEAN :
              /\ conn'.pcb = IF fin THEN "close_wait" ELSE "established"
              /\ Taken(conn, next, fin) \/ Refused(conn, next, fin)
<1>1. /\ next \in Segment /\ next \in Message
      /\ conn.pcb = "established" /\ conn.refused = NoBuf
      /\ alive' = alive \cup {next} /\ next' = next + 1
      /\ UNCHANGED <<sem, failed, pc, buf, netbufs, recved, unacked>>
  BY Kinds DEF RecvSegment, Typed, Segment, task
<1>2. PICK fin \in BOOLEAN :
        Deliver([conn EXCEPT !.pcb = IF fin THEN "close_wait" ELSE @], next, fin)
  BY DEF RecvSegment
<1> DEFINE c == [conn EXCEPT !.pcb = IF fin THEN "close_wait" ELSE @]
<1>3. /\ IsConn(c) /\ c.pcb = (IF fin THEN "close_wait" ELSE "established")
      /\ c.live = conn.live /\ c.state = conn.state /\ c.msg = conn.msg
      /\ c.pend = conn.pend /\ c.closed = conn.closed /\ c.up = conn.up /\ c.mbox = conn.mbox
  BY <1>1 DEF Typed, IsConn
<1>4. Deliver(c, next, fin)
  BY <1>2
<1> HIDE DEF c
<1>5. /\ IsConn(conn') /\ SameCall(c, conn') /\ doubled' \in BOOLEAN
      /\ Taken(c, next, fin) \/ Refused(c, next, fin)
  BY <1>1, <1>3, <1>4, DeliverIs DEF Typed
<1>6. Taken(conn, next, fin) \/ Refused(conn, next, fin)
  BY <1>3, <1>5 DEF Taken, Refused
<1> QED BY <1>1, <1>3, <1>5, <1>6 DEF SameCall

LEMMA RedeliverIs ==
  ASSUME Typed, Redeliver
  PROVE  /\ conn.refused \in Segment
         /\ UNCHANGED <<sem, failed, pc, buf, netbufs, alive, next, recved, unacked>>
         /\ IsConn(conn') /\ SameCall(conn, conn') /\ doubled' \in BOOLEAN
         /\ \/ Taken(conn, conn.refused, conn.late)
            \/ Refused(conn, conn.refused, conn.late)
<1>1. /\ conn.refused \in Segment /\ IsConn(conn) /\ conn.late \in BOOLEAN
      /\ UNCHANGED <<sem, failed, pc, buf, netbufs, alive, next, recved, unacked>>
  BY DEF Redeliver, Typed, IsConn, task
<1> QED BY <1>1, DeliverIs DEF Redeliver, Typed

(* A FIN without data. *)
LEMMA FinIs ==
  ASSUME Typed, RecvFin
  PROVE  /\ conn.pcb = "established" /\ conn.refused = NoBuf
         /\ UNCHANGED <<sem, failed, pc, buf, netbufs, alive, next, recved, unacked, doubled>>
         /\ IsConn(conn') /\ conn'.pcb = "close_wait" /\ conn'.refused = NoBuf
         /\ conn'.live = conn.live /\ conn'.state = conn.state /\ conn'.msg = conn.msg
         /\ conn'.closed = conn.closed /\ conn'.up = conn.up
         /\ conn'.mbox \in {conn.mbox, Append(conn.mbox, Fin)}
         /\ Fin \in ToSet(conn'.mbox) \/ conn'.lost
<1> DEFINE c == [conn EXCEPT !.pcb = "close_wait"]
<1>1. /\ conn.pcb = "established" /\ conn.refused = NoBuf /\ conn' = Closed(c)
      /\ UNCHANGED <<sem, failed, pc, buf, netbufs, alive, next, recved, unacked, doubled>>
  BY DEF RecvFin, task, tcb
<1>2. /\ IsConn(c) /\ c.pcb = "close_wait" /\ c.refused = conn.refused
      /\ c.live = conn.live /\ c.state = conn.state /\ c.msg = conn.msg
      /\ c.closed = conn.closed /\ c.up = conn.up /\ c.mbox = conn.mbox
  BY DEF Typed, IsConn
<1> HIDE DEF c
<1>3. /\ IsConn(conn') /\ SameCall(c, conn') /\ conn'.refused = c.refused
      /\ conn'.mbox = (IF Queues(c) THEN Append(c.mbox, Fin) ELSE c.mbox)
      /\ Fin \in ToSet(conn'.mbox) \/ conn'.lost
  BY <1>1, <1>2, ClosedIs
<1> QED BY <1>1, <1>2, <1>3 DEF SameCall

(* The error goes behind what is in recvmbox, if there is room.               *)
LEMMA ErrIs ==
  ASSUME Typed, ErrTcp
  PROVE  /\ conn.pcb \notin {"none", "closed"} /\ alive' = alive \ {conn.refused}
         /\ UNCHANGED <<pc, buf, netbufs, next, recved, unacked, doubled>>
         /\ IF conn.state # "NONE" THEN failed' = TRUE /\ sem' = sem + 1
                                   ELSE UNCHANGED <<failed, sem>>
         /\ IsConn(conn') /\ conn'.pcb = "none" /\ conn'.closed /\ conn'.refused = NoBuf
         /\ conn'.state = "NONE" /\ conn'.msg = FALSE
         /\ conn'.live = conn.live /\ conn'.up = conn.up
         /\ conn'.mbox \in {conn.mbox, Append(conn.mbox, Err)}
         /\ conn.up => conn'.mbox # << >>
<1> DEFINE c == IF conn.up THEN Trypost(conn, Err) ELSE conn
<1>1. /\ conn.pcb \notin {"none", "closed"} /\ alive' = alive \ {conn.refused}
      /\ UNCHANGED <<pc, buf, netbufs, next, recved, unacked, doubled>>
      /\ IF conn.state # "NONE" THEN failed' = TRUE /\ sem' = sem + 1
                                ELSE UNCHANGED <<failed, sem>>
      /\ conn' = [c EXCEPT !.pcb = "none", !.pend = TRUE, !.closed = TRUE,
                           !.state = "NONE", !.msg = FALSE,
                           !.refused = NoBuf, !.late = FALSE]
  BY DEF ErrTcp, task, tcb
<1>2. /\ IsConn(c) /\ SameCall(conn, c)
      /\ c.mbox \in {conn.mbox, Append(conn.mbox, Err)}
      /\ conn.up => c.mbox # << >>
  <2>1. /\ IsConn(Trypost(conn, Err)) /\ SameCall(conn, Trypost(conn, Err))
        /\ Trypost(conn, Err).mbox = IF Queues(conn) THEN Append(conn.mbox, Err) ELSE conn.mbox
        /\ ~Queues(conn) => conn.mbox # << >>
    BY TrypostIs, Kinds DEF Typed
  <2>2. Append(conn.mbox, Err) # << >>
    BY DEF Typed, IsConn, Mbox
  <2>3. SameCall(conn, conn) /\ IsConn(conn)
    BY DEF SameCall, Typed
  <2> QED BY <2>1, <2>2, <2>3
<1> HIDE DEF c
<1>3. /\ IsConn(conn') /\ conn'.pcb = "none" /\ conn'.closed /\ conn'.refused = NoBuf
      /\ conn'.state = "NONE" /\ conn'.msg = FALSE
      /\ conn'.live = c.live /\ conn'.up = c.up /\ conn'.mbox = c.mbox
  BY <1>1, <1>2 DEF IsConn
<1> QED BY <1>1, <1>2, <1>3 DEF SameCall

(* The place of a message that was fetched is given back. *)
LEMMA GivePlaceIs ==
  ASSUME Typed, GivePlace
  PROVE  /\ IsConn(conn') /\ conn.taking /\ UNCHANGED <<sem, failed, task, alive, tcb>>
         /\ conn'.live = conn.live /\ conn'.pcb = conn.pcb /\ conn'.state = conn.state
         /\ conn'.msg = conn.msg /\ conn'.closed = conn.closed /\ conn'.up = conn.up
         /\ conn'.mbox = conn.mbox /\ conn'.refused = conn.refused
         /\ conn'.late = conn.late /\ conn'.lost = conn.lost
<1>1. /\ conn' = [conn EXCEPT !.taking = FALSE, !.places = conn.places + 1]
      /\ conn.taking /\ UNCHANGED <<sem, failed, task, alive, tcb>>
  BY DEF GivePlace
<1>2. IsConn(conn) /\ conn.places + 1 \in Nat
  BY DEF Typed, IsConn
<1>3. IsConn(conn')
  BY <1>1, <1>2 DEF IsConn
<1> QED BY <1>1, <1>2, <1>3 DEF IsConn

(* recvmbox is drained and deleted. *)
LEMMA WithoutIs ==
  ASSUME Typed, conn' \in {Without(conn), [Without(conn) EXCEPT !.pcb = "none"]}
  PROVE  /\ IsConn(conn') /\ conn'.live = conn.live /\ conn'.pcb \in {conn.pcb, "none"}
         /\ conn' # Without(conn) => conn'.pcb = "none"
         /\ conn'.state = conn.state /\ conn'.msg = conn.msg /\ conn'.closed = conn.closed
         /\ conn'.up = FALSE /\ conn'.mbox = << >> /\ conn'.refused = NoBuf
<1> DEFINE w == Without(conn)
<1>1. /\ IsConn(w) /\ w.live = conn.live /\ w.pcb = conn.pcb
      /\ w.state = conn.state /\ w.msg = conn.msg /\ w.closed = conn.closed
      /\ w.up = FALSE /\ w.mbox = << >> /\ w.refused = NoBuf
  BY EmptyMbox DEF Without, Typed, IsConn
<1>2. CASE conn' = w
  BY <1>1, <1>2
<1>3. CASE conn' = [w EXCEPT !.pcb = "none"]
  <2> HIDE DEF w
  <2>1. conn'.pcb = "none" /\ IsConn(conn')
    BY <1>1, <1>3 DEF IsConn
  <2>2. /\ conn'.live = w.live /\ conn'.state = w.state /\ conn'.msg = w.msg
        /\ conn'.closed = w.closed /\ conn'.up = w.up /\ conn'.mbox = w.mbox
        /\ conn'.refused = w.refused
    BY <1>1, <1>3 DEF IsConn
  <2> QED BY <1>1, <2>1, <2>2
<1> QED BY <1>2, <1>3

-----------------------------------------------------------------------------
(* Types. *)

LEMMA TypedInit == Init => Typed
<1> SUFFICES ASSUME Init PROVE Typed
  OBVIOUS
<1>1. IsConn(NoConn)
  BY EmptyMbox DEF NoConn, IsConn
<1>2. doubled \in BOOLEAN
  BY DEF Init
<1>3. conn = NoConn /\ sem = 0 /\ pc = "top" /\ buf = NoBuf /\ netbufs = NetBufs /\ next = 1
  BY DEF Init
<1> QED BY <1>1, <1>2, <1>3, ClientAssumption DEF Typed, PC

(* Writemore changes the state of the call, and nothing else of the netconn.  *)
LEMMA WritemoreConn ==
  ASSUME IsConn(conn), sem \in Nat, NEW sent, NEW delayed, Writemore(sent, delayed)
  PROVE  /\ IsConn(conn') /\ sem' \in Nat
         /\ conn'.live = conn.live /\ conn'.pcb = conn.pcb /\ conn'.mbox = conn.mbox
         /\ conn'.up = conn.up /\ conn'.closed = conn.closed
         /\ conn'.refused = conn.refused /\ conn'.late = conn.late /\ conn'.lost = conn.lost
         /\ conn'.msg <=> conn'.state # "NONE"
         /\ \/ conn'.state = "WRITE" /\ sem' = sem
            \/ /\ conn'.state = "NONE"
               /\ sem' = IF delayed THEN sem + 1 ELSE sem
<1>1. CASE /\ conn' = [conn EXCEPT !.state = "WRITE", !.msg = TRUE]
           /\ sem' = sem
  BY <1>1 DEF IsConn
<1>2. CASE /\ conn' = [conn EXCEPT !.state = "NONE", !.msg = FALSE]
           /\ sem' = IF delayed THEN sem + 1 ELSE sem
  <2>1. sem' \in Nat
    BY <1>2
  <2> QED BY <1>2, <2>1 DEF IsConn
<1> QED BY <1>1, <1>2 DEF Writemore

LEMMA TypedEvents == Typed /\ tcpip_thread => Typed'
<1> SUFFICES ASSUME Typed, tcpip_thread PROVE Typed'
  OBVIOUS
<1>1. CASE Connected
  <2>1. IsConn(conn')
    BY <1>1 DEF Connected, Typed, IsConn
  <2> QED BY <1>1, <2>1 DEF Connected, Typed, task, tcb
<1>2. CASE RecvSegment
  <2>1. next' \in Nat \ {0}
    BY <1>2, RecvIs DEF Typed
  <2> QED BY <1>2, <2>1, RecvIs DEF Typed
<1>3. CASE Redeliver \/ RecvFin
  BY <1>3, RedeliverIs, FinIs DEF Typed
<1>4. CASE ErrTcp
  <2>0. sem' = IF conn.state # "NONE" THEN sem + 1 ELSE sem
    BY <1>4, ErrIs
  <2>1. sem' \in Nat
    BY <2>0 DEF Typed
  <2>2. IsConn(conn') /\ UNCHANGED <<pc, buf, netbufs, next, doubled>>
    BY <1>4, ErrIs
  <2> QED BY <2>1, <2>2 DEF Typed
<1>5. CASE SentTcp
  <2>1. CASE conn.state = "WRITE"
    <3>1. IsConn(conn') /\ sem' \in Nat
      BY <1>5, <2>1, WritemoreConn DEF SentTcp, Typed
    <3> QED BY <1>5, <3>1 DEF SentTcp, Typed, task
  <2>2. CASE conn.state # "WRITE"
    BY <1>5, <2>2 DEF SentTcp, Typed, task
  <2> QED BY <2>1, <2>2
<1>6. CASE PollTcp
  <2>1. IsConn(conn') /\ sem' \in Nat
    BY <1>6, WritemoreConn DEF PollTcp, Typed
  <2> QED BY <1>6, <2>1 DEF PollTcp, Typed, task
<1> QED BY <1>1, <1>2, <1>3, <1>4, <1>5, <1>6 DEF tcpip_thread

LEMMA TypedTask == Typed /\ App_EthTask => Typed'
<1> SUFFICES ASSUME Typed, App_EthTask PROVE Typed'
  OBVIOUS
<1>0. << >> \in Mbox
  BY EmptyMbox
<1>1. CASE New
  <2>0. IsConn([NoConn EXCEPT !.live = TRUE, !.pcb = "closed", !.up = TRUE,
                              !.places = MboxSize])
    BY <1>0, ClientAssumption DEF NoConn, IsConn
  <2>1. IsConn(conn')
    BY <1>1, <2>0 DEF New, Typed
  <2> QED BY <1>1, <2>1 DEF New, Typed, PC, tcb
<1>2. CASE Connect
  <2>1. IsConn(conn')
    BY <1>2 DEF Connect, Typed, IsConn
  <2> QED BY <1>2, <2>1 DEF Connect, Typed, PC, tcb
<1>9. CASE GivePlace
  <2>1. IsConn(conn') /\ UNCHANGED <<sem, task, tcb>>
    BY <1>9, GivePlaceIs
  <2> QED BY <2>1 DEF Typed, task, tcb
<1>3. CASE ConnectEnds \/ Keepalive \/ Again \/ Recv \/ Recved \/ Echo \/ WriteEnds \/ Delay
  BY <1>3 DEF ConnectEnds, Keepalive, Again, Recv, Recved, Echo, WriteEnds, Delay,
              Typed, PC, tcb
<1>4. CASE Fetch
  <2>1. conn.mbox # << >> => Tail(conn.mbox) \in Mbox /\ Head(conn.mbox) \in Message
    BY MboxTail DEF Typed, IsConn
  <2>2. IsConn(conn')
    BY <1>4, <2>1 DEF Fetch, Typed, IsConn
  <2>3. buf' \in Segment \cup {NoBuf} /\ netbufs' \in Nat /\ pc' \in PC
    BY <1>4, <2>1, Kinds DEF Fetch, Typed, PC
  <2> QED BY <1>4, <2>2, <2>3 DEF Fetch, Typed, tcb
<1>5. CASE HandleFin \/ Shut
  <2>1. IsConn(conn')
    BY <1>5, WithoutIs DEF HandleFin, Shut, Typed, IsConn
  <2> QED BY <1>5, <2>1 DEF HandleFin, Shut, Typed, PC, tcb
<1>6. CASE Write
  <2>1. IsConn(conn') /\ sem' \in Nat
    <3>1. CASE conn.pend \/ conn.pcb = "none"
      <4>1. conn' = [conn EXCEPT !.pend = FALSE] /\ sem' = sem
        BY <1>6, <3>1 DEF Write
      <4> QED BY <4>1 DEF Typed, IsConn
    <3>2. CASE ~(conn.pend \/ conn.pcb = "none")
      BY <1>6, <3>2, WritemoreConn DEF Write, Typed
    <3> QED BY <3>1, <3>2
  <2> QED BY <1>6, <2>1 DEF Write, Typed, PC
<1>7. CASE DelConn
  <2>1. IsConn(conn')
    BY <1>7, WithoutIs DEF DelConn, Typed
  <2> QED BY <1>7, <2>1 DEF DelConn, Typed, PC, tcb
<1>8. CASE Free
  <2>1. IsConn(conn')
    BY <1>0, <1>8 DEF Free, NoConn, IsConn
  <2> QED BY <1>8, <2>1 DEF Free, Typed, PC, tcb
<1> QED BY <1>1, <1>2, <1>3, <1>4, <1>5, <1>6, <1>7, <1>8, <1>9 DEF App_EthTask

-----------------------------------------------------------------------------
(* Who waits, and what for. *)

Control == OneSignal /\ CallHasPcb /\ Phase

LEMMA ControlInit == Init => Control
BY DEF Init, NoConn, Control, OneSignal, CallHasPcb, Phase, Freeing

LEMMA ControlEvents == Typed /\ Control /\ tcpip_thread => Control'
<1> SUFFICES ASSUME Typed, Control, tcpip_thread PROVE Control'
  OBVIOUS
<1> USE DEF Control
<1>1. CASE Connected
  <2>1. OneSignal'
    BY <1>1 DEF Connected, Typed, IsConn, OneSignal, CallHasPcb, task
  <2>2. CallHasPcb' /\ Phase'
    BY <1>1 DEF Connected, Typed, IsConn, OneSignal, CallHasPcb, Phase, Freeing, NoConn, task
  <2> QED BY <2>1, <2>2
<1>2. CASE RecvSegment \/ RecvFin \/ Redeliver
  <2>0. /\ conn.pcb \in {"established", "close_wait"} /\ conn'.pcb \in {"established", "close_wait"}
        /\ conn'.live = conn.live /\ conn'.state = conn.state /\ conn'.msg = conn.msg
        /\ UNCHANGED <<sem, pc>>
        /\ conn'.refused # NoBuf /\ conn'.late => conn'.pcb = "close_wait"
    <3>1. CASE RecvSegment
      BY <3>1, RecvIs DEF Taken, Refused
    <3>2. CASE RecvFin
      BY <3>2, FinIs
    <3>3. CASE Redeliver
      BY <3>3, RedeliverIs, Kinds DEF SameCall, CallHasPcb, Taken, Refused
    <3> QED BY <1>2, <3>1, <3>2, <3>3
  <2>1. OneSignal'
    BY <2>0 DEF OneSignal
  <2>2. CallHasPcb' /\ Phase'
    BY <2>0 DEF CallHasPcb, Phase, Freeing, NoConn
  <2> QED BY <2>1, <2>2
<1>3. CASE ErrTcp
  <2>0. /\ UNCHANGED pc /\ conn'.state = "NONE" /\ conn'.msg = FALSE
        /\ sem' = IF conn.state # "NONE" THEN sem + 1 ELSE sem
    BY <1>3, ErrIs
  <2>1. OneSignal'
    BY <2>0 DEF Typed, OneSignal
  <2>2. CallHasPcb'
    BY <1>3, ErrIs DEF CallHasPcb
  <2>3. Phase'
    BY <1>3, ErrIs DEF Phase, Freeing, NoConn
  <2> QED BY <2>1, <2>2, <2>3
<1>4. CASE SentTcp \/ PollTcp
  <2>1. CASE conn.state # "WRITE"
    <3>1. UNCHANGED <<conn, sem, pc>>
      BY <1>4, <2>1 DEF SentTcp, PollTcp, task
    <3> QED BY <3>1 DEF OneSignal, CallHasPcb, Phase, Freeing
  <2>2. CASE conn.state = "WRITE"
    <3>1. PICK sent : Writemore(sent, TRUE)
      BY <1>4, <2>2 DEF SentTcp, PollTcp
    <3>2. pc' = pc
      BY <1>4 DEF SentTcp, PollTcp, task
    <3>3. OneSignal'
      <4>1. /\ conn'.msg <=> conn'.state # "NONE"
            /\ \/ conn'.state = "WRITE" /\ sem' = sem
               \/ conn'.state = "NONE" /\ sem' = sem + 1
        BY <3>1, WritemoreConn DEF Typed
      <4> QED BY <2>2, <3>2, <4>1 DEF OneSignal
    <3>4. conn.live /\ conn.pcb \in {"established", "close_wait"}
      BY <2>2 DEF CallHasPcb, Phase, NoConn
    <3>5. /\ conn'.live /\ conn'.pcb = conn.pcb /\ conn'.state \in {"WRITE", "NONE"}
          /\ conn'.refused = conn.refused /\ conn'.late = conn.late
      BY <3>1, <3>4, WritemoreConn DEF Typed
    <3>6. CallHasPcb' /\ Phase'
      BY <3>2, <3>4, <3>5 DEF CallHasPcb, Phase, Freeing
    <3> QED BY <3>3, <3>6
  <2> QED BY <2>1, <2>2
<1> QED BY <1>1, <1>2, <1>3, <1>4 DEF tcpip_thread

LEMMA ControlTask == Typed /\ Control /\ App_EthTask => Control'
<1> SUFFICES ASSUME Typed, Control, App_EthTask PROVE Control'
  OBVIOUS
<1> USE DEF Control
<1>1. CASE New
  <2>1. OneSignal'
    BY <1>1 DEF New, NoConn, OneSignal, Phase
  <2>2. CallHasPcb' /\ Phase'
    BY <1>1 DEF New, NoConn, CallHasPcb, Phase, Freeing
  <2> QED BY <2>1, <2>2
<1>2. CASE Connect
  <2>1. CASE pc' = "give_up"
    BY <1>2, <2>1 DEF Connect, OneSignal, CallHasPcb, Phase, Freeing
  <2>2. CASE pc' = "connecting"
    <3>1. conn' = [conn EXCEPT !.pcb = "syn_sent", !.state = "CONNECT", !.msg = TRUE]
      BY <1>2, <2>2 DEF Connect
    <3>2. /\ conn'.pcb = "syn_sent" /\ conn'.state = "CONNECT"
          /\ conn'.msg = TRUE /\ conn'.live = conn.live /\ conn'.refused = conn.refused
          /\ conn.refused = NoBuf
      BY <1>2, <3>1 DEF Connect, Typed, IsConn, CallHasPcb
    <3>3. OneSignal'
      BY <1>2, <2>2, <3>2 DEF Connect, OneSignal
    <3>4. CallHasPcb' /\ Phase'
      BY <1>2, <2>2, <3>2 DEF Connect, CallHasPcb, Phase, Freeing
    <3> QED BY <3>3, <3>4
  <2> QED BY <1>2, <2>1, <2>2 DEF Connect
<1>3. CASE ConnectEnds \/ WriteEnds
  <2>1. OneSignal'
    BY <1>3 DEF ConnectEnds, WriteEnds, Typed, OneSignal
  <2>2. CallHasPcb' /\ Phase'
    BY <1>3 DEF ConnectEnds, WriteEnds, CallHasPcb, Phase, Freeing
  <2> QED BY <2>1, <2>2
<1>10. CASE GivePlace
  <2>1. /\ conn.taking /\ UNCHANGED <<sem, pc>>
        /\ conn'.live = conn.live /\ conn'.pcb = conn.pcb /\ conn'.state = conn.state
        /\ conn'.msg = conn.msg /\ conn'.mbox = conn.mbox /\ conn'.refused = conn.refused
        /\ conn'.late = conn.late
    BY <1>10, GivePlaceIs DEF task
  <2>2. conn.live
    BY <2>1 DEF Phase, NoConn
  <2> QED BY <2>1, <2>2 DEF OneSignal, CallHasPcb, Phase
<1>4. CASE Keepalive \/ Again \/ Recv \/ Recved \/ Echo \/ Delay
  <2>1. OneSignal'
    BY <1>4 DEF Keepalive, Again, Recv, Recved, Echo, Delay, OneSignal
  <2>2. CallHasPcb' /\ Phase'
    BY <1>4 DEF Keepalive, Again, Recv, Recved, Echo, Delay, CallHasPcb, Phase, Freeing
  <2> QED BY <2>1, <2>2
<1>5. CASE Fetch
  <2>1. OneSignal'
    BY <1>5 DEF Fetch, Typed, IsConn, OneSignal
  <2>2. CallHasPcb' /\ Phase'
    BY <1>5 DEF Fetch, Typed, IsConn, CallHasPcb, Phase, Freeing
  <2> QED BY <2>1, <2>2
<1>6. CASE HandleFin \/ Shut
  <2>1. /\ pc \in {"fin", "shut"} /\ pc' \in {"shut", "delete"} /\ UNCHANGED sem
        /\ conn'.live = conn.live /\ conn'.pcb \in {conn.pcb, "none"} /\ conn'.state = conn.state
        /\ conn'.msg = conn.msg /\ conn'.refused \in {conn.refused, NoBuf}
        /\ conn'.refused # NoBuf => conn'.pcb = conn.pcb /\ conn'.late = conn.late
    BY <1>6, WithoutIs DEF HandleFin, Shut, Typed, IsConn
  <2>2. OneSignal' /\ CallHasPcb' /\ Phase'
    BY <2>1 DEF OneSignal, CallHasPcb, Phase, Freeing
  <2> QED BY <2>2
<1>7. CASE Write
  <2>1. CASE conn.pend \/ conn.pcb = "none"
    <3>1. OneSignal'
      BY <1>7, <2>1 DEF Write, Typed, IsConn, OneSignal
    <3>2. /\ pc = "write" /\ pc' = "top" /\ conn'.live = conn.live /\ conn'.pcb = conn.pcb
          /\ conn'.state = conn.state /\ conn'.refused = conn.refused /\ conn'.late = conn.late
      BY <1>7, <2>1 DEF Write, Typed, IsConn
    <3>3. CallHasPcb' /\ Phase'
      BY <3>2 DEF CallHasPcb, Phase, Freeing
    <3> QED BY <3>1, <3>3
  <2>2. CASE ~(conn.pend \/ conn.pcb = "none")
    <3>1. Writemore(unacked, FALSE) /\ pc' = IF conn'.state = "WRITE" THEN "writing" ELSE "top"
      BY <1>7, <2>2 DEF Write
    <3>2. OneSignal'
      BY <1>7, <3>1, WritemoreConn DEF Write, Typed, OneSignal
    <3>3. conn.pcb \in {"established", "close_wait"} /\ conn.live
      BY <1>7, <2>2 DEF Write, Typed, IsConn, OneSignal, CallHasPcb, Phase
    <3>4. CallHasPcb' /\ Phase'
      BY <3>1, <3>3, WritemoreConn DEF Typed, CallHasPcb, Phase, Freeing
    <3> QED BY <3>2, <3>4
  <2> QED BY <2>1, <2>2
<1>8. CASE DelConn
  <2>1. conn.state = "NONE" /\ conn.live
    BY <1>8 DEF DelConn, OneSignal, Phase
  <2>0. /\ pc \in {"delete", "give_up"} /\ pc' \in Freeing /\ UNCHANGED sem
        /\ conn'.live /\ conn'.state = "NONE" /\ conn'.msg = conn.msg /\ conn'.refused = NoBuf
        /\ conn'.mbox = << >>
    BY <1>8, <2>1, WithoutIs DEF DelConn, Freeing
  <2>4. conn'.pcb = "none"
    BY <1>8, <2>1 DEF DelConn, Without, Typed, IsConn
  <2>2. OneSignal'
    BY <2>0, <2>1 DEF OneSignal, Freeing
  <2>3. CallHasPcb' /\ Phase'
    BY <2>0, <2>1, <2>4 DEF CallHasPcb, Phase, Freeing
  <2> QED BY <2>2, <2>3
<1>9. CASE Free
  <2>1. OneSignal'
    BY <1>9 DEF Free, NoConn, OneSignal
  <2>2. CallHasPcb' /\ Phase'
    BY <1>9 DEF Free, NoConn, CallHasPcb, Phase, Freeing
  <2> QED BY <2>1, <2>2
<1> QED BY <1>1, <1>2, <1>3, <1>4, <1>5, <1>6, <1>7, <1>8, <1>9, <1>10 DEF App_EthTask

-----------------------------------------------------------------------------
(* Netbufs. *)

LEMMA NetbufsStep ==
  Typed /\ Phase /\ NetbufsCounted /\ Next => NetbufsCounted'
<1> SUFFICES ASSUME Typed, Phase, NetbufsCounted, Next PROVE NetbufsCounted'
  OBVIOUS
<1> USE ClientAssumption DEF NetbufsCounted, Holding
<1>1. CASE tcpip_thread
  <2>1. UNCHANGED task
    BY <1>1 DEF tcpip_thread, Connected, RecvSegment, RecvFin, Redeliver, ErrTcp, SentTcp, PollTcp
  <2> QED BY <2>1 DEF task
<1>7. CASE GivePlace
  BY <1>7 DEF GivePlace, task
<1>2. CASE New \/ Connect \/ ConnectEnds \/ Keepalive \/ Again
  BY <1>2 DEF New, Connect, ConnectEnds, Keepalive, Again
<1>3. CASE Recv \/ Recved
  BY <1>3 DEF Recv, Recved, Typed
<1>4. CASE Fetch
  <2>1. conn.mbox # << >> => Head(conn.mbox) \in Message
    BY MboxTail DEF Typed, IsConn
  <2> QED BY <1>4, <2>1, Kinds DEF Fetch, Typed
<1>5. CASE HandleFin \/ Shut \/ Echo
  BY <1>5 DEF HandleFin, Shut, Echo, Typed
<1>6. CASE Write \/ WriteEnds \/ DelConn \/ Free \/ Delay
  BY <1>6 DEF Write, WriteEnds, DelConn, Free, Delay
<1> QED BY <1>1, <1>2, <1>3, <1>4, <1>5, <1>6, <1>7 DEF Next, App_EthTask

-----------------------------------------------------------------------------
(* Pbufs. *)

Pbufs == PbufsConserved /\ Fresh

LEMMA PbufsInit == Init => Pbufs
BY EmptyMbox DEF Init, NoConn, Pbufs, PbufsConserved, Fresh, NoBuf

(* Nothing changes: nothing is to be shown. *)
LEMMA PbufsSame ==
  Pbufs /\ UNCHANGED <<conn.mbox, conn.refused, buf, alive, next, doubled>> => Pbufs'
BY DEF Pbufs, PbufsConserved, Fresh

(* The segments in a mailbox. *)
Waiting(m) == ToSet(m) \cap Segment

(* With the segments alone: a FIN and an error are not pbufs, no pbuf is 0.   *)
Segments ==
  /\ ~doubled =>
       /\ alive = Waiting(conn.mbox) \cup ({buf, conn.refused} \ {NoBuf})
       /\ buf \notin Waiting(conn.mbox) /\ conn.refused \notin Waiting(conn.mbox)
       /\ buf = conn.refused => buf = NoBuf
       /\ Distinct(conn.mbox)
  /\ alive \subseteq Segment \cap (Waiting(conn.mbox) \cup {buf, conn.refused})
  /\ \A s \in Waiting(conn.mbox) : s < next
  /\ buf < next /\ conn.refused < next

LEMMA PbufsAre == Typed => (Pbufs <=> Segments)
<1> SUFFICES ASSUME Typed PROVE Pbufs <=> Segments
  OBVIOUS
<1>1. /\ buf \in Segment \cup {NoBuf} /\ conn.refused \in Segment \cup {NoBuf}
      /\ ToSet(conn.mbox) \subseteq Message
  BY MboxMessages DEF Typed, IsConn
<1>2. /\ buf \in ToSet(conn.mbox) <=> buf \in Waiting(conn.mbox)
      /\ conn.refused \in ToSet(conn.mbox) <=> conn.refused \in Waiting(conn.mbox)
  BY <1>1, Kinds DEF Waiting
<1> QED BY <1>2, Zenon DEF Pbufs, PbufsConserved, Fresh, Segments, Waiting

LEMMA WaitingAppend ==
  ASSUME NEW m \in Mbox, NEW x \in Message
  PROVE  /\ x \in Segment => Waiting(Append(m, x)) = Waiting(m) \cup {x}
         /\ x \notin Segment => Waiting(Append(m, x)) = Waiting(m)
         /\ Distinct(m) /\ x \notin Waiting(m) => Distinct(Append(m, x))
BY MboxAppend, DistinctAppend DEF Waiting

LEMMA TakenIs ==
  ASSUME NEW c, c.mbox \in Mbox, NEW s \in Segment, NEW fin, Taken(c, s, fin)
  PROVE  /\ conn'.refused = NoBuf /\ doubled' = doubled
         /\ Waiting(conn'.mbox) = Waiting(c.mbox) \cup {s}
         /\ Distinct(c.mbox) /\ s \notin Waiting(c.mbox) => Distinct(conn'.mbox)
<1> DEFINE m == Append(c.mbox, s)
<1>1. /\ m \in Mbox /\ Waiting(m) = Waiting(c.mbox) \cup {s}
      /\ Distinct(c.mbox) /\ s \notin Waiting(c.mbox) => Distinct(m)
  BY MboxAppend, WaitingAppend, Kinds
<1> HIDE DEF m
<1>2. /\ Waiting(Append(m, Fin)) = Waiting(m)
      /\ Distinct(m) => Distinct(Append(m, Fin))
  BY <1>1, WaitingAppend, Kinds DEF Waiting
<1>3. /\ conn'.refused = NoBuf /\ doubled' = doubled
      /\ conn'.mbox = m \/ conn'.mbox = Append(m, Fin)
  BY DEF Taken, m
<1> QED BY <1>1, <1>2, <1>3

LEMMA RefusedIs ==
  ASSUME NEW c, c.mbox \in Mbox, NEW s \in Segment, NEW fin, Refused(c, s, fin)
  PROVE  /\ conn'.refused = s
         /\ \/ conn'.mbox = c.mbox /\ doubled' = doubled
            \/ Waiting(conn'.mbox) = Waiting(c.mbox) \cup {s} /\ doubled'
<1>1. Waiting(Append(c.mbox, s)) = Waiting(c.mbox) \cup {s}
  BY WaitingAppend, Kinds
<1> QED BY <1>1 DEF Refused

LEMMA PbufsEvents == Typed /\ Typed' /\ Pbufs /\ tcpip_thread => Pbufs'
<1> SUFFICES ASSUME Typed, Typed', Pbufs, tcpip_thread PROVE Pbufs'
  OBVIOUS
<1> DEFINE m == conn.mbox
<1>0. m \in Mbox /\ conn.refused \in Segment \cup {NoBuf} /\ doubled \in BOOLEAN
  BY DEF Typed, IsConn
<1>s. Segments
  BY PbufsAre
<1>p. Segments' => Pbufs'
  BY PbufsAre, PTL
<1>1. CASE Connected
  BY <1>1, PbufsSame DEF Connected, Typed, IsConn, task, tcb
<1>2. CASE RecvSegment
  <2>1. PICK fin \in BOOLEAN : Taken(conn, next, fin) \/ Refused(conn, next, fin)
    BY <1>2, RecvIs
  <2>2. /\ next \in Segment /\ next \in Nat /\ conn.refused = NoBuf
        /\ alive' = alive \cup {next} /\ next' = next + 1 /\ buf' = buf
    BY <1>2, RecvIs DEF Typed
  <2>3. next \notin Waiting(m) /\ buf # next /\ buf < next' /\ next < next' /\ NoBuf < next'
        /\ \A s \in Waiting(m) \cup {next} : s < next'
    <3>1. buf \in Nat /\ \A s \in Waiting(m) : s \in Nat
      BY Kinds, NumberKinds DEF Typed, Waiting
    <3>2. next \notin Waiting(m) /\ buf # next /\ buf < next + 1 /\ next < next + 1
      BY <1>s, <2>2, <3>1 DEF Segments
    <3>3. \A s \in Waiting(m) \cup {next} : s < next + 1
      BY <1>s, <2>2, <3>1 DEF Segments
    <3>4. NoBuf < next + 1
      BY <2>2, NumberKinds
    <3> QED BY <2>2, <3>2, <3>3, <3>4
  <2>4. CASE Taken(conn, next, fin)
    <3>1. /\ conn'.refused = NoBuf /\ doubled' = doubled
          /\ Waiting(conn'.mbox) = Waiting(m) \cup {next}
          /\ Distinct(m) => Distinct(conn'.mbox)
      BY <1>0, <2>2, <2>3, <2>4, TakenIs
    <3> QED BY <1>p, <1>s, <2>2, <2>3, <3>1, Kinds DEF Segments
  <2>5. CASE Refused(conn, next, fin)
    <3>1. /\ conn'.refused = next
          /\ \/ conn'.mbox = m /\ doubled' = doubled
             \/ Waiting(conn'.mbox) = Waiting(m) \cup {next} /\ doubled'
      BY <1>0, <2>2, <2>5, RefusedIs
    <3> QED BY <1>p, <1>s, <2>2, <2>3, <3>1, Kinds DEF Segments
  <2> QED BY <2>1, <2>4, <2>5
<1>5. CASE Redeliver
  <2>1. /\ conn.refused \in Segment
        /\ UNCHANGED <<buf, alive, next>>
        /\ \/ Taken(conn, conn.refused, conn.late)
           \/ Refused(conn, conn.refused, conn.late)
    BY <1>5, RedeliverIs
  <2>2. /\ conn.refused < next /\ \A s \in Waiting(m) \cup {conn.refused} : s < next'
        /\ NoBuf < next'
    BY <1>s, <2>1, Kinds, NumberKinds DEF Segments, Typed
  <2>4. CASE Taken(conn, conn.refused, conn.late)
    <3>1. /\ conn'.refused = NoBuf /\ doubled' = doubled
          /\ Waiting(conn'.mbox) = Waiting(m) \cup {conn.refused}
          /\ Distinct(m) /\ conn.refused \notin Waiting(m) => Distinct(conn'.mbox)
      BY <1>0, <2>1, <2>4, TakenIs
    <3> QED BY <1>p, <1>s, <2>1, <2>2, <3>1, Kinds DEF Segments
  <2>5. CASE Refused(conn, conn.refused, conn.late)
    <3>1. /\ conn'.refused = conn.refused
          /\ \/ conn'.mbox = m /\ doubled' = doubled
             \/ Waiting(conn'.mbox) = Waiting(m) \cup {conn.refused} /\ doubled'
      BY <1>0, <2>1, <2>5, RefusedIs
    <3> QED BY <1>p, <1>s, <2>1, <2>2, <3>1, Kinds DEF Segments
  <2> QED BY <2>1, <2>4, <2>5
<1>3. CASE RecvFin \/ ErrTcp
  <2>1. PICK x \in {Fin, Err} : conn'.mbox \in {m, Append(m, x)}
    BY <1>3, FinIs, ErrIs
  <2>2. /\ UNCHANGED <<buf, next, doubled>> /\ alive' = alive \ {conn.refused}
        /\ conn'.refused = NoBuf
    <3>1. CASE RecvFin
      <4>1. alive' = alive /\ conn.refused = NoBuf /\ conn'.refused = NoBuf
            /\ UNCHANGED <<buf, next, doubled>>
        BY <3>1, FinIs
      <4>2. NoBuf \notin alive
        BY Kinds DEF Pbufs, Fresh
      <4> QED BY <4>1, <4>2
    <3>2. CASE ErrTcp
      BY <3>2, ErrIs
    <3> QED BY <1>3, <3>1, <3>2
  <2>3. Waiting(conn'.mbox) = Waiting(m) /\ (Distinct(m) => Distinct(conn'.mbox))
    <3>1. x \in Message /\ x \notin Segment /\ x \notin Waiting(m)
      BY Kinds DEF Waiting
    <3>2. Waiting(Append(m, x)) = Waiting(m) /\ (Distinct(m) => Distinct(Append(m, x)))
      BY <1>0, <3>1, WaitingAppend
    <3> QED BY <2>1, <3>2
  <2>4. NoBuf < next /\ NoBuf \notin Waiting(m)
    BY Kinds, NumberKinds DEF Typed, Waiting
  <2> QED BY <1>p, <1>s, <2>2, <2>3, <2>4, Kinds DEF Segments
<1>4. CASE SentTcp \/ PollTcp
  <2>1. UNCHANGED <<buf, alive, next, doubled>>
    BY <1>4 DEF SentTcp, PollTcp, task
  <2>2. conn'.mbox = conn.mbox /\ conn'.refused = conn.refused
    <3>1. CASE conn.state = "WRITE"
      <4>1. PICK sent : Writemore(sent, TRUE)
        BY <1>4, <3>1 DEF SentTcp, PollTcp
      <4> QED BY <4>1, WritemoreConn DEF Typed
    <3>2. CASE conn.state # "WRITE"
      BY <1>4, <3>2 DEF SentTcp, PollTcp
    <3> QED BY <3>1, <3>2
  <2> QED BY <2>1, <2>2, PbufsSame
<1> QED BY <1>1, <1>2, <1>3, <1>4, <1>5 DEF tcpip_thread

(* What is drained is freed, and recvmbox is empty then. *)
LEMMA PbufsDrain ==
  ASSUME Typed, Typed', Pbufs, alive' = Drained(conn), conn'.mbox = << >>, conn'.refused = NoBuf,
         UNCHANGED <<buf, next, doubled>>
  PROVE  Pbufs'
<1>1. Segments
  BY PbufsAre
<1>2. Waiting(conn'.mbox) = {} /\ Distinct(conn'.mbox)
  BY EmptyMbox DEF Waiting
<1>3. alive' = alive \ (Waiting(conn.mbox) \cup {conn.refused})
  <2>1. alive \subseteq Segment
    BY <1>1 DEF Segments
  <2> QED BY <2>1 DEF Drained, Waiting
<1>4. NoBuf < next /\ buf \in Segment \cup {NoBuf} /\ NoBuf \notin Segment
  BY NumberKinds, Kinds DEF Typed
<1>5. Segments'
  BY <1>1, <1>2, <1>3, <1>4 DEF Segments
<1>6. Segments' => Pbufs'
  BY PbufsAre, PTL
<1> QED BY <1>5, <1>6

LEMMA PbufsTask == Typed /\ Typed' /\ Phase /\ NetbufsCounted /\ Pbufs /\ App_EthTask => Pbufs'
<1> SUFFICES ASSUME Typed, Typed', Phase, NetbufsCounted, Pbufs, App_EthTask PROVE Pbufs'
  OBVIOUS
<1> DEFINE m == conn.mbox
<1>0. m \in Mbox
  BY DEF Typed, IsConn
<1>s. Segments
  BY PbufsAre
<1>p. Segments' => Pbufs'
  BY PbufsAre, PTL
<1>1. CASE New
  <2>1. m = << >> /\ buf = NoBuf /\ conn.refused = NoBuf
    BY <1>1 DEF New, Phase, NoConn, NetbufsCounted
  <2>2. /\ conn'.mbox = m /\ conn'.refused = NoBuf /\ UNCHANGED <<buf, alive, doubled>>
        /\ next' \in {1, next}
    BY <1>1, <2>1 DEF New, NoConn
  <2>3. Waiting(m) = {} /\ NoBuf < next /\ NoBuf < 1
    BY <2>1, EmptyMbox, NumberKinds DEF Waiting, Typed
  <2> QED BY <1>p, <1>s, <2>1, <2>2, <2>3 DEF Segments
<1>2. CASE Connect \/ ConnectEnds \/ Keepalive \/ Again \/ Recv \/ Recved \/ HandleFin \/ WriteEnds \/ Delay
  <2>1. UNCHANGED <<conn.mbox, conn.refused, buf, alive, next, doubled>>
    BY <1>2 DEF Connect, ConnectEnds, Keepalive, Again, Recv, Recved, HandleFin,
                WriteEnds, Delay, Typed, IsConn, tcb
  <2> QED BY <2>1, PbufsSame
<1>9. CASE GivePlace
  BY <1>9, GivePlaceIs, PbufsSame DEF task, tcb
<1>3. CASE Fetch
  <2>1. CASE m = << >>
    <3>1. UNCHANGED <<conn.mbox, conn.refused, buf, alive, next, doubled>>
      BY <1>3, <2>1 DEF Fetch, Typed, IsConn, tcb
    <3> QED BY <3>1, PbufsSame
  <2>2. CASE m # << >>
    <3>1. /\ ToSet(m) = {Head(m)} \cup ToSet(Tail(m)) /\ Head(m) \in Message
          /\ Distinct(m) => Distinct(Tail(m)) /\ Head(m) \notin Waiting(Tail(m))
      BY <1>0, <2>2, MboxTail, DistinctTail DEF Waiting
    <3>2. /\ conn'.mbox = Tail(m) /\ UNCHANGED <<conn.refused, alive, next, doubled>>
          /\ buf = NoBuf
      BY <1>3, <2>2 DEF Fetch, Typed, IsConn, NetbufsCounted, tcb
    <3>3. buf' = IF Head(m) \in Segment THEN Head(m) ELSE NoBuf
      BY <1>3, <2>2, <3>1, <3>2, Kinds DEF Fetch
    <3>4. Waiting(m) = IF Head(m) \in Segment THEN {Head(m)} \cup Waiting(Tail(m))
                                              ELSE Waiting(Tail(m))
      BY <3>1 DEF Waiting
    <3>5. NoBuf \notin Waiting(Tail(m)) /\ NoBuf < next
      BY Kinds, NumberKinds DEF Waiting, Typed
    <3>6. CASE Head(m) \in Segment
      <4>1. buf' = Head(m) /\ Waiting(m) = {Head(m)} \cup Waiting(conn'.mbox) /\ Head(m) # NoBuf
        BY <3>2, <3>3, <3>4, <3>6, Kinds
      <4>2. ~doubled => Distinct(conn'.mbox) /\ buf' \notin Waiting(conn'.mbox)
        BY <1>s, <3>1, <3>2, <4>1 DEF Segments
      <4>3. NoBuf \notin Segment
        BY Kinds
      <4>4. alive' \subseteq Segment \cap (Waiting(conn'.mbox) \cup {buf', conn'.refused})
        BY <1>s, <3>2, <4>1, <4>3 DEF Segments
      <4>5. /\ \A s \in Waiting(conn'.mbox) : s < next'
            /\ buf' < next' /\ conn'.refused < next'
        BY <1>s, <3>2, <4>1 DEF Segments
      <4>6. ASSUME ~doubled'
            PROVE  /\ alive' = Waiting(conn'.mbox) \cup ({buf', conn'.refused} \ {NoBuf})
                   /\ buf' \notin Waiting(conn'.mbox) /\ conn'.refused \notin Waiting(conn'.mbox)
                   /\ buf' = conn'.refused => buf' = NoBuf
                   /\ Distinct(conn'.mbox)
        BY <1>s, <3>2, <4>1, <4>2, <4>6 DEF Segments
      <4>7. Segments'
        BY <4>4, <4>5, <4>6 DEF Segments
      <4> QED BY <1>p, <4>7
    <3>7. CASE Head(m) \notin Segment
      <4>1. buf' = NoBuf /\ Waiting(m) = Waiting(conn'.mbox) /\ (Distinct(m) => Distinct(conn'.mbox))
        BY <3>1, <3>2, <3>3, <3>4, <3>7
      <4>2. Segments'
        BY <1>s, <3>2, <4>1 DEF Segments
      <4> QED BY <1>p, <4>2
    <3> QED BY <3>6, <3>7
  <2> QED BY <2>1, <2>2
<1>4. CASE Shut
  <2>1. CASE conn.pcb = "none"
    BY <1>4, <2>1, PbufsSame DEF Shut, tcb
  <2>2. CASE conn.pcb # "none"
    <3>1. alive' = Drained(conn) /\ conn' = Without(conn) /\ UNCHANGED <<buf, next, doubled>>
      BY <1>4, <2>2 DEF Shut, tcb
    <3>2. conn'.mbox = << >> /\ conn'.refused = NoBuf
      BY <3>1, WithoutIs
    <3> QED BY <3>1, <3>2, PbufsDrain
  <2> QED BY <2>1, <2>2
<1>5. CASE Echo
  <2>1. alive' = alive \ {buf} /\ buf' = NoBuf /\ UNCHANGED <<conn, next, doubled>>
    BY <1>5 DEF Echo, tcb
  <2>2. NoBuf \notin Waiting(m) /\ NoBuf < next /\ NoBuf \notin Segment
    BY Kinds, NumberKinds DEF Waiting, Typed
  <2> QED BY <1>p, <1>s, <2>1, <2>2 DEF Segments
<1>6. CASE Write
  <2>1. UNCHANGED <<buf, alive, next, doubled>>
    BY <1>6 DEF Write
  <2>2. conn'.mbox = conn.mbox /\ conn'.refused = conn.refused
    <3>1. CASE conn.pend \/ conn.pcb = "none"
      BY <1>6, <3>1 DEF Write, Typed, IsConn
    <3>2. CASE ~(conn.pend \/ conn.pcb = "none")
      BY <1>6, <3>2, WritemoreConn DEF Write, Typed
    <3> QED BY <3>1, <3>2
  <2> QED BY <2>1, <2>2, PbufsSame
<1>7. CASE DelConn
  <2>1. CASE conn.state # "NONE"
    BY <1>7, <2>1, PbufsSame DEF DelConn, tcb
  <2>2. CASE conn.state = "NONE"
    <3>1. /\ alive' = Drained(conn) /\ conn' = [Without(conn) EXCEPT !.pcb = "none"]
          /\ UNCHANGED <<buf, next, doubled>>
      BY <1>7, <2>2 DEF DelConn, tcb
    <3>2. conn'.mbox = << >> /\ conn'.refused = NoBuf
      BY <3>1, WithoutIs
    <3> QED BY <3>1, <3>2, PbufsDrain
  <2> QED BY <2>1, <2>2
<1>8. CASE Free
  <2>1. conn.mbox = << >> /\ UNCHANGED <<buf, alive, next, doubled>> /\ conn' = NoConn
    BY <1>8 DEF Free, Phase, Freeing, tcb
  <2>2. conn'.mbox = conn.mbox /\ conn'.refused = conn.refused
    BY <1>8, <2>1 DEF NoConn, Phase, Freeing, Free
  <2> QED BY <2>1, <2>2, PbufsSame
<1> QED BY <1>1, <1>2, <1>3, <1>4, <1>5, <1>6, <1>7, <1>8, <1>9 DEF App_EthTask

-----------------------------------------------------------------------------
(* The end of a connection. *)

LEMMA EndInit == Init => EndKnown
BY DEF Init, NoConn, EndKnown

(* What is lost stays lost. *)
LEMMA LostDelivered ==
  ASSUME NEW c, IsConn(c), NEW s \in Segment, NEW fin \in BOOLEAN, Deliver(c, s, fin),
         c.lost
  PROVE  conn'.lost
<1> DEFINE t == Trypost(c, s)
           d == [t EXCEPT !.refused = IF Accepts(c) THEN NoBuf ELSE s,
                          !.late = fin /\ ~Accepts(c)]
<1>1. IsConn(t) /\ t.lost = c.lost
  BY TrypostIs, Kinds
<1>2. conn' = IF Accepts(c) /\ fin THEN Closed(d) ELSE d
  BY DEF Deliver
<1> HIDE DEF t
<1>3. IsConn(d) /\ d.lost = t.lost
  BY <1>1 DEF IsConn
<1> HIDE DEF d
<1>4. Closed(d).lost
  <2>1. Trypost(d, Fin).lost = d.lost /\ IsConn(Trypost(d, Fin))
    BY <1>3, TrypostIs, Kinds
  <2> QED BY <1>1, <1>3, <2>1 DEF Closed, IsConn
<1> QED BY <1>1, <1>2, <1>3, <1>4

LEMMA LostStays == Typed /\ Redeliver => (conn.lost => conn'.lost)
BY LostDelivered DEF Redeliver, Typed, IsConn

LEMMA EndEvents == Typed /\ Control /\ EndKnown /\ tcpip_thread => EndKnown'
<1> SUFFICES ASSUME Typed, Control, EndKnown, tcpip_thread PROVE EndKnown'
  OBVIOUS
<1> DEFINE m == conn.mbox
<1>0. m \in Mbox
  BY DEF Typed, IsConn
<1>1. CASE Connected
  BY <1>1 DEF Connected, Typed, IsConn, EndKnown, task
<1>2. CASE RecvSegment
  <2>1. PICK fin \in BOOLEAN :
          /\ conn'.pcb = IF fin THEN "close_wait" ELSE "established"
          /\ Taken(conn, next, fin) \/ Refused(conn, next, fin)
    BY <1>2, RecvIs
  <2>2. /\ UNCHANGED <<pc, conn.live, conn.up, conn.closed>> /\ conn.pcb = "established"
        /\ next \in Segment
    BY <1>2, RecvIs
  <2>3. fin => \/ Fin \in ToSet(conn'.mbox) \/ conn'.lost
              \/ (conn'.refused # NoBuf /\ conn'.late)
    BY <2>1, <2>2, Kinds DEF Taken, Refused
  <2> QED BY <2>1, <2>2, <2>3 DEF EndKnown
<1>5. CASE Redeliver
  <2>1. /\ conn.refused \in Segment /\ UNCHANGED pc /\ SameCall(conn, conn')
        /\ Taken(conn, conn.refused, conn.late) \/ Refused(conn, conn.refused, conn.late)
    BY <1>5, RedeliverIs
  <2>2. /\ UNCHANGED <<conn.live, conn.pcb, conn.up, conn.closed>>
        /\ conn.pcb # "none"
    BY <2>1, Kinds DEF SameCall, Control, CallHasPcb
  <2>3. CASE Taken(conn, conn.refused, conn.late)
    <3>1. conn'.mbox \in {Append(m, conn.refused), Append(Append(m, conn.refused), Fin)}
      BY <2>3 DEF Taken
    <3>2. ToSet(m) \subseteq ToSet(conn'.mbox)
      <4>1. /\ Append(m, conn.refused) \in Mbox
            /\ ToSet(Append(m, conn.refused)) = ToSet(m) \cup {conn.refused}
        BY <1>0, <2>1, MboxAppend, Kinds
      <4>2. ToSet(Append(Append(m, conn.refused), Fin)) = ToSet(m) \cup {conn.refused, Fin}
        BY <4>1, MboxAppend, Kinds
      <4> QED BY <3>1, <4>1, <4>2
    <3>3. conn.lost => conn'.lost
      BY <1>5, LostStays DEF Typed
    <3>4. conn.late => Fin \in ToSet(conn'.mbox) \/ conn'.lost
      BY <2>3 DEF Taken
    <3> QED BY <2>1, <2>2, <3>2, <3>3, <3>4 DEF EndKnown
  <2>4. CASE Refused(conn, conn.refused, conn.late)
    <3>1. ToSet(m) \subseteq ToSet(conn'.mbox)
      BY <1>0, <2>1, <2>4, MboxAppend, Kinds DEF Refused
    <3>2. conn'.refused = conn.refused /\ conn'.late = conn.late
      BY <2>4 DEF Refused
    <3>3. conn.lost => conn'.lost
      BY <1>5, LostStays DEF Typed
    <3> QED BY <2>1, <2>2, <3>1, <3>2, <3>3 DEF EndKnown
  <2> QED BY <2>1, <2>3, <2>4
<1>6. CASE RecvFin
  BY <1>6, FinIs DEF EndKnown
<1>3. CASE ErrTcp
  <2>1. conn.live
    BY <1>3 DEF ErrTcp, Control, Phase, NoConn
  <2>2. pc = "fetch" => conn.up
    BY <2>1 DEF EndKnown, Freeing
  <2>3. /\ conn'.pcb = "none" /\ conn'.closed /\ UNCHANGED <<pc, conn.live, conn.up>>
        /\ conn.up => conn'.mbox # << >>
    BY <1>3, ErrIs
  <2> QED BY <2>2, <2>3 DEF EndKnown
<1>4. CASE SentTcp \/ PollTcp
  <2>1. UNCHANGED pc
    BY <1>4 DEF SentTcp, PollTcp, task
  <2>2. UNCHANGED <<conn.live, conn.up, conn.pcb, conn.closed, conn.mbox, conn.refused,
                    conn.late, conn.lost>>
    <3>1. CASE conn.state = "WRITE"
      <4>1. PICK sent : Writemore(sent, TRUE)
        BY <1>4, <3>1 DEF SentTcp, PollTcp
      <4> QED BY <4>1, WritemoreConn DEF Typed
    <3>2. CASE conn.state # "WRITE"
      BY <1>4, <3>2 DEF SentTcp, PollTcp
    <3> QED BY <3>1, <3>2
  <2> QED BY <2>1, <2>2 DEF EndKnown
<1> QED BY <1>1, <1>2, <1>3, <1>4, <1>5, <1>6 DEF tcpip_thread

LEMMA EndTask == Typed /\ Control /\ EndKnown /\ App_EthTask => EndKnown'
<1> SUFFICES ASSUME Typed, Control, EndKnown, App_EthTask PROVE EndKnown'
  OBVIOUS
<1> USE DEF Freeing
<1>1. CASE New
  BY <1>1 DEF New, NoConn, EndKnown, Control, Phase
<1>2. CASE Connect
  BY <1>2 DEF Connect, Typed, IsConn, EndKnown
<1>3. CASE Recv
  BY <1>3 DEF Recv, EndKnown, Control, Phase
<1>4. CASE Fetch
  <2>1. CASE conn.mbox = << >>
    <3>1. pc = "tryfetch" /\ pc' = "delete"
      BY <1>4, <2>1, Kinds DEF Fetch
    <3>2. UNCHANGED <<conn.live, conn.up, conn.pcb, conn.closed, conn.mbox>>
      BY <1>4, <2>1 DEF Fetch, Typed, IsConn
    <3> QED BY <3>1, <3>2 DEF EndKnown
  <2>2. CASE conn.mbox # << >>
    <3>1. ToSet(conn.mbox) = {Head(conn.mbox)} \cup ToSet(Tail(conn.mbox))
      BY <2>2, MboxTail DEF Typed, IsConn
    <3>2. conn'.mbox = Tail(conn.mbox)
      BY <1>4, <2>2 DEF Fetch, Typed, IsConn
    <3>3. UNCHANGED <<conn.live, conn.up, conn.pcb, conn.closed, conn.refused, conn.late,
                      conn.lost>>
      BY <1>4, <2>2 DEF Fetch, Typed, IsConn
    <3>4. pc' \in {"delete", "fin", "recved"} /\ (Head(conn.mbox) = Fin => pc' = "fin")
      BY <1>4, <2>2, Kinds DEF Fetch
    <3>5. pc \in {"fetch", "tryfetch"}
      BY <1>4 DEF Fetch
    <3> QED BY <3>1, <3>2, <3>3, <3>4, <3>5 DEF EndKnown
  <2> QED BY <2>1, <2>2
<1>5. CASE HandleFin
  BY <1>5 DEF HandleFin, Typed, IsConn, EndKnown
<1>6. CASE Shut
  <2>1. pc' = "delete" /\ conn' \in {conn, Without(conn)}
    BY <1>6 DEF Shut
  <2>2. /\ UNCHANGED <<conn.live, conn.pcb, conn.closed>> /\ conn'.up \in {conn.up, FALSE}
    BY <2>1 DEF Without, Typed, IsConn
  <2> QED BY <2>1, <2>2 DEF EndKnown
<1>11. CASE GivePlace
  <2>1. /\ UNCHANGED <<pc, conn.live, conn.up, conn.pcb, conn.closed, conn.mbox, conn.refused,
                       conn.late, conn.lost>>
    BY <1>11, GivePlaceIs DEF task
  <2> QED BY <2>1 DEF EndKnown
<1>7. CASE ConnectEnds \/ Keepalive \/ Again \/ Recved \/ Echo \/ WriteEnds \/ Delay
  BY <1>7 DEF ConnectEnds, Keepalive, Again, Recved, Echo, WriteEnds, Delay, EndKnown
<1>8. CASE Write
  <2>1. UNCHANGED <<conn.live, conn.up, conn.pcb, conn.closed, conn.mbox, conn.refused,
                    conn.late, conn.lost>>
    <3>1. CASE conn.pend \/ conn.pcb = "none"
      BY <1>8, <3>1 DEF Write, Typed, IsConn
    <3>2. CASE ~(conn.pend \/ conn.pcb = "none")
      BY <1>8, <3>2, WritemoreConn DEF Write, Typed
    <3> QED BY <3>1, <3>2
  <2>2. pc = "write" /\ pc' \in {"top", "writing"}
    BY <1>8 DEF Write
  <2> QED BY <2>1, <2>2 DEF EndKnown
<1>9. CASE DelConn
  <2>1. conn.state = "NONE"
    BY <1>9 DEF DelConn, Control, OneSignal
  <2>2. /\ pc' \in Freeing /\ conn' = [Without(conn) EXCEPT !.pcb = "none"]
    BY <1>9, <2>1 DEF DelConn
  <2>3. conn'.up = FALSE /\ conn'.pcb = "none"
    BY <2>2 DEF Without, Typed, IsConn
  <2> QED BY <2>2, <2>3 DEF EndKnown
<1>10. CASE Free
  BY <1>10 DEF Free, NoConn, EndKnown
<1> QED BY <1>1, <1>2, <1>3, <1>4, <1>5, <1>6, <1>7, <1>8, <1>9, <1>10, <1>11
   DEF App_EthTask

-----------------------------------------------------------------------------
(* The inductive invariant, and what follows from it. *)

LEMMA IInvInit == Init => IInv
<1>1. Init => NetbufsCounted
  BY DEF Init, NetbufsCounted, Holding
<1> QED BY <1>1, TypedInit, ControlInit, PbufsInit, EndInit DEF IInv, Control, Pbufs

LEMMA IInvStep == IInv /\ [Next]_vars => IInv'
<1> SUFFICES ASSUME IInv, [Next]_vars PROVE IInv'
  OBVIOUS
<1>1. CASE UNCHANGED vars
  BY <1>1 DEF vars, task, tcb, IInv, Typed, OneSignal, CallHasPcb, Phase, NetbufsCounted,
              Holding, PbufsConserved, Fresh, EndKnown
<1>2. CASE Next
  <2>1. Typed' /\ Control' /\ EndKnown'
    BY <1>2, TypedEvents, TypedTask, ControlEvents, ControlTask, EndEvents, EndTask
       DEF Next, IInv, Control
  <2>2. NetbufsCounted'
    BY <1>2, NetbufsStep DEF IInv
  <2>3. Pbufs'
    BY <1>2, <2>1, PbufsEvents, PbufsTask DEF Next, IInv, Pbufs
  <2> QED BY <2>1, <2>2, <2>3 DEF IInv, Control, Pbufs
<1> QED BY <1>1, <1>2

(* IInv is an invariant of the client, whatever the peer and the constants.   *)
THEOREM Inductive == Spec => []IInv
BY IInvInit, IInvStep, PTL DEF Spec

(* The task that waits in netconn_connect or netconn_write has exactly one    *)
(* signal to get, once its call has ended, and no other call finds one.       *)
THEOREM SignalsOnce == Spec => []OneSignal
<1>1. IInv => OneSignal
  BY DEF IInv
<1> QED BY <1>1, Inductive, PTL

(* Each pbuf that was received is in recvmbox, with App_EthTask or refused,   *)
(* in one of them only, or freed - until a trypost of recv_tcp refuses a pbuf *)
(* that it has queued.                                                        *)
THEOREM PbufsKept == Spec => []PbufsConserved
<1>1. IInv => PbufsConserved
  BY DEF IInv
<1> QED BY <1>1, Inductive, PTL

(* netconn_recv does not wait for a connection that is gone, nor for one that *)
(* the peer has closed, unless its FIN found recvmbox full and was lost.      *)
THEOREM FetchEnds == Spec => []FetchWakes
<1>1. IInv => FetchWakes
  <2> SUFFICES ASSUME IInv, pc = "fetch", conn.pcb = "close_wait", ~conn.lost
               PROVE  conn.mbox # << >> \/ conn.refused # NoBuf
    BY Zenon DEF IInv, EndKnown, FetchWakes
  <2> QED BY EmptyMbox DEF IInv, EndKnown
<1> QED BY <1>1, Inductive, PTL

(* A netconn goes back to its pool with no pcb, no pbuf and no netbuf left.   *)
THEOREM FreedClean == Spec => []NothingLeft
<1>1. IInv => NothingLeft
  <2> SUFFICES ASSUME IInv, ~conn.live PROVE alive = {} /\ netbufs = NetBufs /\ sem = 0
    BY DEF IInv, Phase, Freeing, NothingLeft
  <2>1. conn.mbox = << >> /\ conn.refused = NoBuf /\ pc \in {"top", "delay"}
    BY DEF IInv, Phase, NoConn
  <2>2. buf = NoBuf
    BY <2>1 DEF IInv, NetbufsCounted
  <2>3. alive = {}
    BY <2>1, <2>2, EmptyMbox, Kinds DEF IInv, Fresh
  <2> QED BY <2>1, <2>3 DEF IInv, OneSignal, NetbufsCounted, Holding
<1> QED BY <1>1, Inductive, PTL

-----------------------------------------------------------------------------
(* The stream. *)

Bounded ==
  /\ failed \in BOOLEAN /\ next <= MaxSeg + 1
  /\ recved \in 0 .. MaxSeg /\ unacked \in 0 .. SndBuf

(* The mailbox m begins with the segments b .. n - 1. *)
Run(m, b, n) ==
  b <= n /\ n - b <= Len(m) /\ \A i \in 1 .. n - b : m[i] = b + i - 1

(* Behind k segments, m has what the state p of the pcb tells. *)
Ends(m, k, p) ==
  \/ Len(m) = k
  \/ Len(m) = k + 1 /\ m[k + 1] = Fin /\ p \in {"close_wait", "none"}
  \/ Len(m) = k + 1 /\ m[k + 1] = Err /\ p = "none"
  \/ Len(m) = k + 2 /\ m[k + 1] = Fin /\ m[k + 2] = Err /\ p = "none"

(* Segment b is the first that App_EthTask has not taken from recvmbox: the   *)
(* one before it is the one it holds and reports, while it is in "recved".    *)
(* n is the first that is not in recvmbox: refused, to be sent by the peer,   *)
(* or, on a connection that is gone, dropped with the pcb.                    *)
Carries(b, n) ==
  /\ Run(conn.mbox, b, n) /\ Ends(conn.mbox, n - b, conn.pcb)
  /\ n = (IF conn.refused = NoBuf THEN next ELSE next - 1)
     \/ (conn.pcb = "none" /\ conn.refused = NoBuf /\ n = next - 1)
  /\ conn.refused # NoBuf => conn.refused = n /\ Len(conn.mbox) = n - b
  /\ pc = "recved" => buf = b - 1
  /\ conn.pcb # "none" => recved + 1 = IF pc = "recved" THEN b - 1 ELSE b

Stream == conn.up /\ ~doubled => \E b \in Nat \ {0}, n \in Nat : Carries(b, n)
SInv == IInv /\ Bounded /\ Stream

(* What ends the stream moves up with the rest.                               *)
LEMMA EndsShift ==
  ASSUME NEW m, NEW n, NEW k \in Nat, NEW p, Len(m) \in Nat, Len(n) = Len(m) - 1,
         \A i \in 1 .. Len(m) - 1 : n[i] = m[i + 1], Ends(m, k + 1, p)
  PROVE  Ends(n, k, p)
<1>1. CASE Len(m) = k + 1
  BY <1>1 DEF Ends
<1>2. CASE Len(m) = k + 2
  <2>1. n[k + 1] = m[k + 2] /\ Len(n) = k + 1
    BY <1>2
  <2> QED BY <1>2, <2>1 DEF Ends
<1>3. CASE Len(m) = k + 3
  <2>1. n[k + 1] = m[k + 2] /\ n[k + 2] = m[k + 3] /\ Len(n) = k + 2
    BY <1>3
  <2> QED BY <1>3, <2>1 DEF Ends
<1> QED BY <1>1, <1>2, <1>3 DEF Ends

(* A segment, or a FIN or an error, arrives behind what is in the mailbox.    *)
LEMMA RunAppend ==
  ASSUME NEW m \in Mbox, NEW x \in Message, NEW b \in Nat \ {0}, NEW n \in Nat, Run(m, b, n)
  PROVE  /\ Run(Append(m, x), b, n)
         /\ Len(m) = n - b /\ x = n => Run(Append(m, x), b, n + 1)
         /\ Len(Append(m, x)) = Len(m) + 1 /\ Append(m, x)[Len(m) + 1] = x
         /\ \A i \in 1 .. Len(m) : Append(m, x)[i] = m[i]
<1>1. /\ Len(m) \in Nat /\ Len(Append(m, x)) = Len(m) + 1 /\ Append(m, x)[Len(m) + 1] = x
      /\ \A i \in 1 .. Len(m) : Append(m, x)[i] = m[i]
  BY DEF Mbox
<1>2. Run(Append(m, x), b, n)
  BY <1>1 DEF Run
<1>3. ASSUME Len(m) = n - b, x = n PROVE Run(Append(m, x), b, n + 1)
  <2>1. \A i \in 1 .. n + 1 - b : i \in 1 .. n - b \/ i = Len(m) + 1
    BY <1>1, <1>3 DEF Run
  <2>2. \A i \in 1 .. n + 1 - b : Append(m, x)[i] = b + i - 1
    BY <1>1, <1>2, <1>3, <2>1 DEF Run
  <2> QED BY <1>1, <1>2, <1>3, <2>2 DEF Run
<1> QED BY <1>1, <1>2, <1>3

(* The first message is taken. *)
LEMMA RunTail ==
  ASSUME NEW m \in Mbox, m # << >>, NEW b \in Nat \ {0}, NEW n \in Nat, Run(m, b, n)
  PROVE  /\ b < n => Head(m) = b /\ Run(Tail(m), b + 1, n)
         /\ Head(m) = m[1] /\ Len(m) \in Nat \ {0} /\ Len(Tail(m)) = Len(m) - 1
         /\ \A i \in 1 .. Len(m) - 1 : Tail(m)[i] = m[i + 1]
<1>1. /\ Head(m) = m[1] /\ Len(m) \in Nat \ {0} /\ Len(Tail(m)) = Len(m) - 1
      /\ \A i \in 1 .. Len(m) - 1 : Tail(m)[i] = m[i + 1]
  BY DEF Mbox
<1>2. ASSUME b < n PROVE Head(m) = b /\ Run(Tail(m), b + 1, n)
  <2>1. Head(m) = b
    BY <1>1, <1>2 DEF Run
  <2>2. ASSUME NEW i \in 1 .. n - (b + 1) PROVE Tail(m)[i] = (b + 1) + i - 1
    <3>1. i \in 1 .. Len(m) - 1 /\ Tail(m)[i] = m[i + 1]
      BY <1>1, <1>2 DEF Run
    <3>2. PICK j \in 1 .. n - b : j = i + 1
      BY <1>2
    <3> QED BY <3>1, <3>2 DEF Run
  <2> QED BY <1>1, <1>2, <2>1, <2>2 DEF Run
<1> QED BY <1>1, <1>2

(* What a step leaves alone. *)
LEMMA StreamSame ==
  ASSUME Typed, Stream, doubled' = doubled,
         conn'.up => /\ conn.up /\ conn'.mbox = conn.mbox /\ conn'.pcb = conn.pcb
                     /\ conn'.refused = conn.refused,
         (pc = "recved") <=> (pc' = "recved"), UNCHANGED <<next, recved, buf>>
  PROVE  Stream'
<1> SUFFICES ASSUME conn'.up, ~doubled PROVE \E b \in Nat \ {0}, n \in Nat : Carries(b, n)'
  BY DEF Stream
<1>1. PICK b \in Nat \ {0}, n \in Nat : Carries(b, n)
  BY DEF Stream
<1>2. Carries(b, n)'
  BY <1>1 DEF Carries
<1> QED BY <1>2

(* Segment n is the next that recv_tcp gets: recvmbox takes it, with or       *)
(* without a FIN behind it, or refuses it.                                    *)
LEMMA StreamDeliver ==
  ASSUME NEW m \in Mbox, NEW b \in Nat \ {0}, NEW n \in Segment,
         Run(m, b, n), Len(m) = n - b, NEW t, NEW p,
         \/ t = Append(m, n)
         \/ t = Append(Append(m, n), Fin) /\ p \in {"close_wait", "none"}
  PROVE  Run(t, b, n + 1) /\ Ends(t, n + 1 - b, p)
<1>1. n \in Nat /\ n \in Message /\ b <= n
  BY Kinds DEF Run
<1> DEFINE u == Append(m, n)
<1>2. Run(u, b, n + 1) /\ Len(u) = n + 1 - b /\ u \in Mbox
  <2>1. Run(u, b, n + 1) /\ Len(u) = Len(m) + 1
    BY <1>1, RunAppend
  <2>2. u \in Mbox
    BY <1>1, MboxAppend
  <2> QED BY <1>1, <2>1, <2>2
<1> HIDE DEF u
<1>3. CASE t = u
  BY <1>2, <1>3 DEF Ends
<1>4. CASE t = Append(u, Fin) /\ p \in {"close_wait", "none"}
  <2>1. PICK k \in Nat : k = n + 1
    BY <1>1
  <2>2. /\ Run(Append(u, Fin), b, k) /\ Len(Append(u, Fin)) = Len(u) + 1
        /\ Append(u, Fin)[Len(u) + 1] = Fin
    BY <1>2, <2>1, RunAppend, Kinds
  <2> QED BY <1>2, <1>4, <2>1, <2>2 DEF Ends
<1> QED BY <1>3, <1>4 DEF u

LEMMA StreamEvents == SInv /\ IInv' /\ tcpip_thread => Stream'
<1> SUFFICES ASSUME SInv, IInv', tcpip_thread, conn'.up, ~doubled'
             PROVE  \E b \in Nat \ {0}, n \in Nat : Carries(b, n)'
  BY DEF Stream
<1> USE DEF SInv, IInv
<1> DEFINE m == conn.mbox
<1>0. /\ m \in Mbox /\ next \in Nat /\ ~(conn.pcb \in {"closed"} /\ pc = "recved")
      /\ conn.refused \in Segment \cup {NoBuf} /\ doubled \in BOOLEAN
      /\ conn.pcb = "none" => conn.refused = NoBuf
  BY DEF Typed, IsConn, CallHasPcb
<1>1. conn'.up = conn.up /\ ~doubled
  <2>1. CASE SentTcp \/ PollTcp
    <3>0. UNCHANGED doubled
      BY <2>1 DEF SentTcp, PollTcp
    <3>1. CASE conn.state = "WRITE"
      <4>1. PICK sent : Writemore(sent, TRUE)
        BY <2>1, <3>1 DEF SentTcp, PollTcp
      <4> QED BY <3>0, <4>1, WritemoreConn DEF Typed
    <3>2. CASE conn.state # "WRITE"
      BY <2>1, <3>0, <3>2 DEF SentTcp, PollTcp
    <3> QED BY <3>1, <3>2
  <2>2. CASE Connected
    BY <2>2 DEF Connected, Typed, IsConn, tcb
  <2>3. CASE RecvFin \/ ErrTcp
    <3>1. conn'.up = conn.up
      BY <2>3, FinIs, ErrIs
    <3>2. doubled' = doubled
      BY <2>3 DEF RecvFin, ErrTcp, tcb
    <3>3. ~doubled
      BY <3>2
    <3> QED BY <3>1, <3>3
  <2>5. CASE RecvSegment
    <3>1. conn'.up = conn.up
      BY <2>5, RecvIs
    <3>2. ~doubled
      BY <2>5 DEF RecvSegment, Deliver
    <3> QED BY <3>1, <3>2
  <2>6. CASE Redeliver
    <3>1. conn'.up = conn.up
      BY <2>6, RedeliverIs DEF SameCall
    <3>2. ~doubled
      BY <2>6 DEF Redeliver, Deliver
    <3> QED BY <3>1, <3>2
  <2> QED BY <2>1, <2>2, <2>3, <2>5, <2>6 DEF tcpip_thread
<1>2. PICK b \in Nat \ {0}, n \in Nat : Carries(b, n)
  BY <1>1 DEF Stream
<1>3. Len(m) \in Nat /\ Run(m, b, n) /\ Ends(m, n - b, conn.pcb) /\ b <= n
  BY <1>0, <1>2 DEF Carries, Mbox, Run
<1>4. CASE Connected
  <2>1. /\ conn.pcb = "syn_sent" /\ conn'.pcb = "established" /\ conn'.mbox = m
        /\ conn'.refused = conn.refused /\ UNCHANGED <<pc, buf, next, recved>>
    BY <1>4 DEF Connected, Typed, IsConn, task, tcb
  <2>2. Carries(b, n)'
    BY <1>2, <2>1 DEF Carries, Ends
  <2> QED BY <2>2
<1>5. CASE RecvSegment
  <2>1. /\ conn.pcb = "established" /\ conn.refused = NoBuf /\ next' = next + 1
        /\ next \in Segment /\ UNCHANGED <<pc, buf, recved>>
    BY <1>5, RecvIs
  <2>2. PICK fin \in BOOLEAN :
          /\ conn'.pcb = IF fin THEN "close_wait" ELSE "established"
          /\ Taken(conn, next, fin) \/ Refused(conn, next, fin)
    BY <1>5, RecvIs
  <2>3. n = next /\ Len(m) = n - b
    BY <1>2, <1>3, <2>1 DEF Carries, Ends
  <2>4. CASE Taken(conn, next, fin)
    <3>1. /\ conn'.refused = NoBuf
          /\ \/ conn'.mbox = Append(m, n)
             \/ conn'.mbox = Append(Append(m, n), Fin) /\ conn'.pcb \in {"close_wait", "none"}
      BY <2>2, <2>3, <2>4 DEF Taken
    <3>2. Run(conn'.mbox, b, n + 1) /\ Ends(conn'.mbox, n + 1 - b, conn'.pcb)
      BY ONLY <1>0, <1>3, <2>1, <2>3, <3>1, StreamDeliver
    <3>3. PICK k \in Nat : k = n + 1
      BY <1>0
    <3>4. Carries(b, k)'
      BY <1>2, <2>1, <2>2, <2>3, <3>1, <3>2, <3>3 DEF Carries
    <3> QED BY <3>4
  <2>5. CASE Refused(conn, next, fin)
    <3>1. conn'.refused = next /\ conn'.mbox = m /\ next # NoBuf
      BY <2>1, <2>5, Kinds DEF Refused
    <3>2. Ends(m, n - b, conn'.pcb)
      BY <2>3 DEF Ends
    <3>3. next' - 1 = next
      BY <1>0, <2>1
    <3>4. Carries(b, n)'
      BY <1>2, <2>1, <2>2, <2>3, <3>1, <3>2, <3>3 DEF Carries
    <3> QED BY <3>4
  <2> QED BY <2>2, <2>4, <2>5
<1>9. CASE Redeliver
  <2>1. /\ conn.refused \in Segment /\ SameCall(conn, conn')
        /\ UNCHANGED <<pc, buf, next, recved>>
        /\ \/ Taken(conn, conn.refused, conn.late)
           \/ Refused(conn, conn.refused, conn.late)
    BY <1>9, RedeliverIs
  <2>2. conn.refused # NoBuf /\ n \in Segment /\ n = next - 1 /\ conn.refused = n /\ Len(m) = n - b
    BY <1>2, <2>1, Kinds DEF Carries
  <2>3. /\ conn.pcb \in {"established", "close_wait"} /\ conn'.pcb = conn.pcb
        /\ conn.late => conn.pcb = "close_wait"
    BY <2>1, <2>2 DEF CallHasPcb, SameCall
  <2>4. CASE Taken(conn, conn.refused, conn.late)
    <3>1. /\ conn'.refused = NoBuf
          /\ \/ conn'.mbox = Append(m, n)
             \/ conn'.mbox = Append(Append(m, n), Fin) /\ conn'.pcb \in {"close_wait", "none"}
      BY <2>2, <2>3, <2>4 DEF Taken
    <3>2. Run(conn'.mbox, b, n + 1) /\ Ends(conn'.mbox, n + 1 - b, conn'.pcb)
      BY ONLY <1>0, <1>3, <2>2, <3>1, StreamDeliver
    <3>3. PICK k \in Nat : k = n + 1 /\ k = next
      BY <1>0, <2>2
    <3>4. Carries(b, k)'
      BY <1>2, <2>1, <2>2, <2>3, <3>1, <3>2, <3>3 DEF Carries
    <3> QED BY <3>4
  <2>5. CASE Refused(conn, conn.refused, conn.late)
    <3>1. conn'.refused = conn.refused /\ conn'.mbox = m
      BY <2>5 DEF Refused
    <3>2. Carries(b, n)'
      BY <1>2, <2>1, <2>2, <2>3, <3>1 DEF Carries
    <3> QED BY <3>2
  <2> QED BY <2>1, <2>4, <2>5
<1>6. CASE RecvFin
  <2>1. /\ conn.pcb = "established" /\ conn'.pcb = "close_wait" /\ conn.refused = NoBuf
        /\ conn'.refused = NoBuf /\ UNCHANGED <<pc, buf, next, recved>>
        /\ conn'.mbox \in {m, Append(m, Fin)}
    BY <1>6, FinIs
  <2>2. Len(m) = n - b
    BY <1>3, <2>1 DEF Ends
  <2>3. Run(conn'.mbox, b, n) /\ Ends(conn'.mbox, n - b, "close_wait")
    <3>1. /\ Run(Append(m, Fin), b, n) /\ Len(Append(m, Fin)) = Len(m) + 1
          /\ Append(m, Fin)[Len(m) + 1] = Fin
      BY <1>0, <1>3, Kinds, RunAppend
    <3> QED BY <1>3, <2>1, <2>2, <3>1 DEF Ends
  <2>4. Carries(b, n)'
    BY <1>2, <2>1, <2>3 DEF Carries
  <2> QED BY <2>4
<1>7. CASE ErrTcp
  <2>1. /\ conn.pcb \notin {"none", "closed"} /\ conn'.pcb = "none" /\ conn'.refused = NoBuf
        /\ conn'.mbox \in {m, Append(m, Err)} /\ UNCHANGED <<pc, buf, next, recved>>
    BY <1>7, ErrIs
  <2>2. \/ Len(m) = n - b
        \/ Len(m) = n - b + 1 /\ m[Len(m)] = Fin
    BY <1>3, <2>1 DEF Ends
  <2>3. /\ Run(Append(m, Err), b, n) /\ Len(Append(m, Err)) = Len(m) + 1
        /\ Append(m, Err)[Len(m) + 1] = Err
        /\ \A i \in 1 .. Len(m) : Append(m, Err)[i] = m[i]
    BY <1>0, <1>3, Kinds, RunAppend
  <2>4. Run(conn'.mbox, b, n) /\ Ends(conn'.mbox, n - b, "none")
    <3>1. n - b \in Nat
      BY <1>0, <1>3 DEF Run
    <3>2. Ends(m, n - b, "none")
      BY <1>3, <2>2 DEF Ends
    <3>3. Ends(Append(m, Err), n - b, "none")
      BY <1>3, <2>2, <2>3, <3>1 DEF Ends
    <3> QED BY <1>3, <2>1, <2>3, <3>2, <3>3
  <2>5. n \in {next - 1, next}
    BY <1>2 DEF Carries
  <2>6. Carries(b, n)'
    BY <1>2, <2>1, <2>4, <2>5 DEF Carries
  <2> QED BY <2>6
<1>8. CASE SentTcp \/ PollTcp
  <2>1. UNCHANGED <<pc, buf, next, recved>>
    BY <1>8 DEF SentTcp, PollTcp, task
  <2>2. UNCHANGED <<conn.pcb, conn.mbox, conn.refused>>
    <3>1. CASE conn.state = "WRITE"
      <4>1. PICK sent : Writemore(sent, TRUE)
        BY <1>8, <3>1 DEF SentTcp, PollTcp
      <4> QED BY <4>1, WritemoreConn DEF Typed
    <3>2. CASE conn.state # "WRITE"
      BY <1>8, <3>2 DEF SentTcp, PollTcp
    <3> QED BY <3>1, <3>2
  <2>3. Carries(b, n)'
    BY <1>2, <2>1, <2>2 DEF Carries
  <2> QED BY <2>3
<1> QED BY <1>4, <1>5, <1>6, <1>7, <1>8, <1>9 DEF tcpip_thread

LEMMA StreamTask == SInv /\ App_EthTask => Stream'
<1> SUFFICES ASSUME SInv, App_EthTask PROVE Stream'
  OBVIOUS
<1> USE DEF SInv, IInv
<1> DEFINE m == conn.mbox
<1>0. /\ m \in Mbox /\ next \in Nat /\ conn.refused \in Segment \cup {NoBuf}
      /\ Typed /\ Stream
  BY DEF Typed, IsConn
<1>1. CASE New
  <2>0. doubled' = doubled
    BY <1>1 DEF New
  <2>1. CASE UNCHANGED <<conn, next, recved>>
    <3>1. (pc = "recved") <=> (pc' = "recved")
      BY <1>1 DEF New
    <3>2. UNCHANGED <<next, recved, buf>>
      BY <1>1, <2>1 DEF New
    <3> QED BY <1>0, <2>0, <2>1, <3>1, <3>2, StreamSame
  <2>2. CASE /\ conn' = [NoConn EXCEPT !.live = TRUE, !.pcb = "closed", !.up = TRUE,
                                       !.places = MboxSize]
             /\ pc' = "connect" /\ next' = 1 /\ recved' = 0
    <3>1. conn'.mbox = << >> /\ conn'.pcb = "closed" /\ conn'.refused = NoBuf
      BY <2>2 DEF NoConn
    <3>2. Carries(1, 1)'
      BY <2>2, <3>1 DEF Carries, Run, Ends
    <3> QED BY <3>2 DEF Stream
  <2> QED BY <1>1, <2>1, <2>2 DEF New
<1>2. CASE Connect
  <2>0. doubled' = doubled /\ UNCHANGED <<next, recved, buf>>
    BY <1>2 DEF Connect, tcb
  <2>1. CASE UNCHANGED conn
    <3>1. (pc = "recved") <=> (pc' = "recved")
      BY <1>2 DEF Connect
    <3> QED BY <1>0, <2>0, <2>1, <3>1, StreamSame
  <2>2. CASE conn' = [conn EXCEPT !.pcb = "syn_sent", !.state = "CONNECT", !.msg = TRUE]
    <3>1. /\ conn'.up = conn.up /\ conn'.mbox = conn.mbox /\ conn'.pcb = "syn_sent"
          /\ conn'.refused = conn.refused
      BY <2>2 DEF Typed, IsConn
    <3>2. pc = "connect" /\ pc' \in {"connecting", "give_up"}
      BY <1>2 DEF Connect
    <3> SUFFICES ASSUME conn'.up, ~doubled PROVE \E b \in Nat \ {0}, n \in Nat : Carries(b, n)'
      BY <2>0 DEF Stream
    <3>4. PICK b \in Nat \ {0}, n \in Nat : Carries(b, n)
      BY <1>0, <3>1 DEF Stream
    <3>5. conn.pcb = "closed"
      BY <3>2 DEF CallHasPcb
    <3>6. Carries(b, n)'
      BY <2>0, <3>1, <3>2, <3>4, <3>5 DEF Carries, Ends
    <3> QED BY <3>6
  <2> QED BY <1>2, <2>1, <2>2 DEF Connect
<1>3. CASE ConnectEnds \/ Keepalive \/ Again \/ Recv \/ WriteEnds \/ Delay
  <2>1. UNCHANGED <<conn, next, recved, buf, doubled>>
    BY <1>3 DEF ConnectEnds, Keepalive, Again, Recv, WriteEnds, Delay, tcb
  <2>2. pc # "recved" /\ pc' # "recved"
    BY <1>3 DEF ConnectEnds, Keepalive, Again, Recv, WriteEnds, Delay
  <2> QED BY <1>0, <2>1, <2>2, StreamSame
<1>12. CASE Echo
  <2>1. UNCHANGED <<conn, next, recved, doubled>> /\ pc # "recved" /\ pc' # "recved"
    BY <1>12 DEF Echo, tcb
  <2> SUFFICES ASSUME conn.up, ~doubled PROVE \E b \in Nat \ {0}, n \in Nat : Carries(b, n)'
    BY <2>1 DEF Stream
  <2>2. PICK b \in Nat \ {0}, n \in Nat : Carries(b, n)
    BY <1>0 DEF Stream
  <2>3. Carries(b, n)'
    BY <2>1, <2>2 DEF Carries
  <2> QED BY <2>3
<1>11. CASE GivePlace
  <2>1. /\ conn'.up = conn.up /\ conn'.mbox = conn.mbox /\ conn'.pcb = conn.pcb
        /\ conn'.refused = conn.refused /\ UNCHANGED <<pc, next, recved, buf, doubled>>
    BY <1>0, <1>11, GivePlaceIs DEF task, tcb
  <2> QED BY <1>0, <2>1, StreamSame
<1>4. CASE Fetch
  <2>1. UNCHANGED <<next, recved, doubled>> /\ pc # "recved"
    BY <1>4 DEF Fetch, tcb
  <2>2. CASE m = << >>
    <3>1. pc' = "delete" /\ UNCHANGED <<buf, conn.up, conn.mbox, conn.pcb, conn.refused>>
      BY <1>4, <2>2, Kinds DEF Fetch, Typed, IsConn
    <3> QED BY <1>0, <2>1, <3>1, StreamSame
  <2>3. CASE m # << >>
    <3>1. conn'.mbox = Tail(m) /\ UNCHANGED <<conn.up, conn.pcb, conn.refused>>
      BY <1>4, <2>3 DEF Fetch, Typed, IsConn
    <3>2. Head(m) \in Message
      BY <1>0, <2>3, MboxTail
    <3>3. IF Head(m) \in Segment THEN pc' = "recved" /\ buf' = Head(m) ELSE pc' # "recved"
      BY <1>4, <2>3, <3>2, Kinds DEF Fetch
    <3> SUFFICES ASSUME conn.up, ~doubled PROVE \E b \in Nat \ {0}, n \in Nat : Carries(b, n)'
      BY <2>1, <3>1 DEF Stream
    <3>4. PICK b \in Nat \ {0}, n \in Nat : Carries(b, n)
      BY <1>0 DEF Stream
    <3>5. /\ b < n => Head(m) = b /\ Run(Tail(m), b + 1, n)
          /\ Head(m) = m[1] /\ Len(m) \in Nat \ {0} /\ Len(Tail(m)) = Len(m) - 1
          /\ \A i \in 1 .. Len(m) - 1 : Tail(m)[i] = m[i + 1]
      BY <1>0, <2>3, <3>4, RunTail DEF Carries
    <3>a. n <= MaxSeg + 1
      BY <1>0, <3>4, ClientAssumption DEF Carries, Bounded
    <3>6. CASE b < n
      <4>1. PICK k \in Nat : k = n - (b + 1)
        BY <3>6
      <4>2. n - b = k + 1 /\ Ends(m, k + 1, conn.pcb)
        BY <3>4, <4>1 DEF Carries
      <4>3. Ends(Tail(m), k, conn.pcb)
        BY <3>5, <4>2, EndsShift
      <4>4. PICK c \in Nat \ {0} : c = b + 1
        OBVIOUS
      <4>5. Run(Tail(m), c, n)
        BY <3>5, <3>6, <4>4 DEF Run
      <4>6. n - c = k /\ b \in Segment
        BY <3>6, <3>a, <4>1, <4>4, ClientAssumption DEF Segment
      <4>7. pc' = "recved" /\ buf' = c - 1
        BY <3>3, <3>5, <3>6, <4>4, <4>6
      <4>9. conn.refused # NoBuf => conn.refused = n /\ Len(Tail(m)) = n - c
        BY <3>4, <3>5, <4>2, <4>6 DEF Carries
      <4>8. Carries(c, n)'
        <5>1. /\ conn'.refused # NoBuf => conn'.refused = n /\ Len(conn'.mbox) = n - c
              /\ Run(conn'.mbox, c, n) /\ Ends(conn'.mbox, n - c, conn'.pcb)
          BY <3>1, <4>3, <4>5, <4>6, <4>9
        <5>2. /\ n = (IF conn'.refused = NoBuf THEN next' ELSE next' - 1)
                 \/ (conn'.pcb = "none" /\ conn'.refused = NoBuf /\ n = next' - 1)
          BY <2>1, <3>1, <3>4 DEF Carries
        <5>3. conn'.pcb # "none" => recved' + 1 = c - 1
          BY <2>1, <3>1, <3>4, <4>4 DEF Carries
        <5> QED BY <4>7, <5>1, <5>2, <5>3 DEF Carries
      <4> QED BY <4>8
    <3>7. CASE b = n
      <4>1. Ends(m, 0, conn.pcb) /\ Run(m, b, n)
        BY <3>4, <3>7 DEF Carries
      <4>2. Head(m) \notin Segment
        BY <3>5, <4>1, Kinds DEF Ends
      <4>3. Run(Tail(m), b, n)
        BY <3>5, <3>7 DEF Run
      <4>4. Ends(Tail(m), 0, conn.pcb)
        BY <3>5, <4>1, Kinds DEF Ends
      <4>6. conn.refused = NoBuf
        BY <3>4, <3>5, <3>7 DEF Carries
      <4>5. Carries(b, n)'
        BY <2>1, <3>1, <3>3, <3>4, <3>7, <4>2, <4>3, <4>4, <4>6 DEF Carries
      <4> QED BY <4>5
    <3> QED BY <3>4, <3>6, <3>7 DEF Carries, Run
  <2> QED BY <2>2, <2>3
<1>5. CASE Recved
  <2>1. pc = "recved" /\ pc' = "echo" /\ UNCHANGED <<conn, next, doubled>>
    BY <1>5 DEF Recved
  <2> SUFFICES ASSUME conn.up, ~doubled PROVE \E b \in Nat \ {0}, n \in Nat : Carries(b, n)'
    BY <2>1 DEF Stream
  <2>2. recved' = IF conn.pcb = "none" THEN recved ELSE recved + 1
    BY <1>5 DEF Recved
  <2>3. PICK b \in Nat \ {0}, n \in Nat : Carries(b, n)
    BY <1>0 DEF Stream
  <2>4. Carries(b, n)'
    BY <2>1, <2>2, <2>3 DEF Carries
  <2> QED BY <2>4
<1>6. CASE HandleFin
  <2>1. UNCHANGED <<conn.up, conn.mbox, conn.pcb, conn.refused, next, recved, buf, doubled>>
    BY <1>6 DEF HandleFin, Typed, IsConn, tcb
  <2>2. pc # "recved" /\ pc' # "recved"
    BY <1>6 DEF HandleFin
  <2> QED BY <1>0, <2>1, <2>2, StreamSame
<1>7. CASE Shut
  <2>1. pc # "recved" /\ pc' # "recved" /\ UNCHANGED <<next, recved, buf, doubled>>
    BY <1>7 DEF Shut, tcb
  <2>2. conn'.up => conn' = conn
    BY <1>7, WithoutIs DEF Shut
  <2> QED BY <1>0, <2>1, <2>2, StreamSame
<1>8. CASE Write
  <2>1. UNCHANGED <<next, recved, buf, doubled>>
    BY <1>8 DEF Write
  <2>2. pc # "recved" /\ pc' # "recved"
    BY <1>8 DEF Write
  <2>3. UNCHANGED <<conn.up, conn.mbox, conn.pcb, conn.refused>>
    <3>1. CASE conn.pend \/ conn.pcb = "none"
      BY <1>8, <3>1 DEF Write, Typed, IsConn
    <3>2. CASE ~(conn.pend \/ conn.pcb = "none")
      BY <1>8, <3>2, WritemoreConn DEF Write, Typed
    <3> QED BY <3>1, <3>2
  <2> QED BY <1>0, <2>1, <2>2, <2>3, StreamSame
<1>9. CASE DelConn
  <2>1. pc # "recved" /\ pc' # "recved" /\ UNCHANGED <<next, recved, buf, doubled>>
    BY <1>9 DEF DelConn, tcb
  <2>2. conn'.up => conn' = conn
    BY <1>9, WithoutIs DEF DelConn
  <2> QED BY <1>0, <2>1, <2>2, StreamSame
<1>10. CASE Free
  BY <1>10 DEF Free, NoConn, Stream
<1> QED BY <1>1, <1>2, <1>3, <1>4, <1>5, <1>6, <1>7, <1>8, <1>9, <1>10, <1>11, <1>12
   DEF App_EthTask

(* The segment that is reported was in the window. *)
LEMMA Reported ==
  ASSUME SInv, pc = "recved", conn.pcb # "none", ~doubled
  PROVE  recved + 1 \in 0 .. MaxSeg
<1>1. conn.up
  BY DEF SInv, IInv, EndKnown, Freeing, Phase, NoConn
<1>2. PICK b \in Nat \ {0}, n \in Nat : Carries(b, n)
  BY <1>1 DEF SInv, Stream
<1>3. /\ b <= n /\ n <= next /\ recved + 1 = b - 1
      /\ recved \in Nat /\ next \in Nat /\ next <= MaxSeg + 1
  BY <1>2 DEF Carries, Run, SInv, IInv, Typed, Bounded
<1> QED BY <1>3, ClientAssumption

LEMMA Zeros == 0 \in 0 .. MaxSeg /\ 0 \in 0 .. SndBuf /\ 1 <= MaxSeg + 1
BY ClientAssumption

LEMMA BoundedStep == SInv /\ Next => Bounded'
<1> SUFFICES ASSUME SInv, Next PROVE Bounded'
  OBVIOUS
<1> USE ClientAssumption DEF Bounded
<1>0. Typed /\ Bounded
  BY DEF SInv, IInv
<1>1. CASE tcpip_thread
  <2>1. CASE Connected \/ RecvSegment \/ RecvFin \/ Redeliver \/ ErrTcp
    <3>1. next' \in {next, next + 1} /\ (next' = next \/ next <= MaxSeg)
      BY <2>1 DEF Connected, RecvSegment, RecvFin, Redeliver, ErrTcp, tcb
    <3>2. next' <= MaxSeg + 1
      BY <1>0, <3>1 DEF Typed
    <3>3. recved' = recved /\ unacked' = unacked
      BY <2>1 DEF Connected, RecvSegment, RecvFin, Redeliver, ErrTcp, tcb
    <3>4. failed' \in BOOLEAN
      BY <1>0, <2>1 DEF Connected, RecvSegment, RecvFin, Redeliver, ErrTcp
    <3> QED BY <1>0, <3>2, <3>3, <3>4
  <2>2. CASE SentTcp \/ PollTcp
    <3>1. UNCHANGED <<failed, next, recved>>
      BY <2>2 DEF SentTcp, PollTcp, Writemore
    <3>2. unacked' \in 0 .. SndBuf
      BY <1>0, <2>2 DEF SentTcp, PollTcp, Writemore
    <3> QED BY <1>0, <3>1, <3>2
  <2> QED BY <1>1, <2>1, <2>2 DEF tcpip_thread
<1>2. CASE App_EthTask
  <2>1. CASE New
    <3>1. failed' = failed
      BY <2>1 DEF New
    <3>2. UNCHANGED <<next, recved, unacked>> \/ (next' = 1 /\ recved' = 0 /\ unacked' = 0)
      BY <2>1 DEF New
    <3> QED BY <1>0, <3>1, <3>2, Zeros
  <2>2. CASE Recved
    <3>1. UNCHANGED <<failed, next, unacked>> /\ pc = "recved"
      BY <2>2 DEF Recved
    <3>2. CASE conn.pcb = "none"
      BY <1>0, <2>2, <3>1, <3>2 DEF Recved
    <3>3. CASE conn.pcb # "none" /\ doubled
      <4>1. recved' \in recved .. next - 1
        BY <2>2, <3>3 DEF Recved
      <4> QED BY <1>0, <3>1, <4>1 DEF Typed
    <3>4. CASE conn.pcb # "none" /\ ~doubled
      <4>1. recved' = recved + 1
        BY <2>2, <3>4 DEF Recved
      <4> QED BY <1>0, <3>1, <3>4, <4>1, Reported
    <3> QED BY <3>2, <3>3, <3>4
  <2>3. CASE Write
    BY <1>0, <2>3 DEF Write, Writemore
  <2>4. CASE Connect \/ ConnectEnds \/ Keepalive \/ Again \/ Recv \/ Fetch \/ HandleFin
    BY <1>0, <2>4 DEF Connect, ConnectEnds, Keepalive, Again, Recv, Fetch, HandleFin, tcb
  <2>5. CASE Shut \/ Echo \/ WriteEnds \/ DelConn \/ Free \/ Delay \/ GivePlace
    BY <1>0, <2>5 DEF Shut, Echo, WriteEnds, DelConn, Free, Delay, GivePlace, tcb
  <2> QED BY <1>2, <2>1, <2>2, <2>3, <2>4, <2>5 DEF App_EthTask
<1> QED BY <1>1, <1>2 DEF Next

LEMMA SInvInit == Init => SInv
<1> SUFFICES ASSUME Init PROVE Bounded /\ Stream
  BY IInvInit DEF SInv
<1>1. conn.up = FALSE /\ failed \in BOOLEAN
  BY DEF Init, NoConn
<1>2. next = 1 /\ recved = 0 /\ unacked = 0
  BY DEF Init
<1> QED BY <1>1, <1>2, Zeros DEF Bounded, Stream

LEMMA SInvStep == SInv /\ [Next]_vars => SInv'
<1> SUFFICES ASSUME SInv, [Next]_vars PROVE SInv'
  OBVIOUS
<1>1. IInv'
  BY IInvStep DEF SInv
<1>2. CASE UNCHANGED vars
  <2>1. Bounded'
    BY <1>2 DEF vars, task, tcb, SInv, Bounded
  <2>2. Stream'
    BY <1>2 DEF vars, task, tcb, SInv, Stream, Carries
  <2> QED BY <1>1, <2>1, <2>2 DEF SInv
<1>3. CASE Next
  BY <1>1, <1>3, BoundedStep, StreamEvents, StreamTask DEF SInv, Next
<1> QED BY <1>2, <1>3

LEMMA TypeOKHolds == IInv /\ Bounded => TypeOK
<1> SUFFICES ASSUME IInv, Bounded PROVE TypeOK
  OBVIOUS
<1>1. /\ conn \in Netconn /\ sem \in Nat /\ failed \in BOOLEAN /\ doubled \in BOOLEAN
      /\ buf \in Segment \cup {NoBuf}
  BY DEF IInv, Typed, IsConn, Netconn, Mbox, Message, Bounded
<1>2. pc \in {"top", "connect", "connecting", "keepalive", "recv", "fetch", "tryfetch",
             "recved", "fin", "shut", "echo", "write", "writing",
             "delete", "give_up", "free", "free_delay", "delay"}
  BY DEF IInv, Typed, PC
<1>3. netbufs \in 0 .. NetBufs
  BY ClientAssumption DEF IInv, Typed, NetbufsCounted
<1>4. alive \subseteq Segment
  BY DEF IInv, Fresh
<1>5. next \in 1 .. MaxSeg + 1 /\ recved \in 0 .. MaxSeg /\ unacked \in 0 .. SndBuf
  BY ClientAssumption DEF IInv, Typed, Bounded
<1> QED BY <1>1, <1>2, <1>3, <1>4, <1>5 DEF TypeOK

(* Sequences of which the length and the elements are known. *)
LEMMA SameSeq ==
  ASSUME NEW S, NEW s \in Seq(S), NEW t \in Seq(S), Len(s) = Len(t),
         \A i \in 1 .. Len(s) : s[i] = t[i]
  PROVE  s = t
OBVIOUS

LEMMA Regrouped ==
  ASSUME NEW s \in Seq(Message), NEW t \in Seq(Message), NEW u \in Seq(Message)
  PROVE  (s \o t) \o u = s \o (t \o u)
OBVIOUS

(* The form in which StreamIntact says what is in transit. *)
LEMMA Decomposed ==
  ASSUME NEW m \in Mbox, NEW b \in Nat \ {0}, NEW n \in Nat, n <= MaxSeg + 1, Run(m, b, n),
         NEW l \in Mbox, Len(m) = n - b + Len(l),
         \A i \in 1 .. Len(l) : m[n - b + i] = l[i]
  PROVE  m = [i \in 1 .. n - b |-> b + i - 1] \o l
<1> DEFINE r == [i \in 1 .. n - b |-> b + i - 1]
<1>1. n - b \in Nat /\ Len(l) \in Nat /\ Len(m) \in Nat
  BY DEF Run, Mbox
<1>2. r \in Seq(Message) /\ Len(r) = n - b
  <2>1. \A i \in 1 .. n - b : b + i - 1 \in Message
    BY <1>1, ClientAssumption DEF Message, Segment
  <2> QED BY <1>1, <2>1
<1>3. r \o l \in Seq(Message) /\ Len(r \o l) = n - b + Len(l)
  BY <1>1, <1>2 DEF Mbox
<1>4. ASSUME NEW i \in 1 .. Len(m) PROVE (r \o l)[i] = m[i]
  <2>1. CASE i \in 1 .. n - b
    BY <1>1, <1>2, <2>1 DEF Run, Mbox
  <2>2. CASE i \notin 1 .. n - b
    <3>1. PICK j \in 1 .. Len(l) : i = n - b + j
      <4>1. i - (n - b) \in 1 .. Len(l) /\ i = n - b + (i - (n - b))
        BY <1>1, <2>2
      <4> QED BY <4>1
    <3> QED BY <1>1, <1>2, <1>3, <3>1 DEF Mbox
  <2> QED BY <2>1, <2>2
<1> HIDE DEF r
<1>5. m = r \o l
  BY <1>3, <1>4, SameSeq DEF Mbox
<1> QED BY <1>5 DEF r

Lasts == {<< >>, <<Fin>>, <<Err>>, <<Fin, Err>>}

LEMMA LastIs ==
  ASSUME NEW m \in Mbox, NEW k \in Nat, NEW p, Ends(m, k, p)
  PROVE  \E l \in Lasts : l \in Mbox /\ Len(m) = k + Len(l) /\ \A i \in 1 .. Len(l) : m[k + i] = l[i]
<1>1. CASE Len(m) = k
  <2>1. << >> \in Lasts /\ << >> \in Mbox /\ Len(m) = k + Len(<< >>)
    BY <1>1 DEF Lasts, Mbox
  <2> QED BY <2>1
<1>2. ASSUME NEW x \in {Fin, Err}, Len(m) = k + 1, m[k + 1] = x
      PROVE  \E l \in Lasts : l \in Mbox /\ Len(m) = k + Len(l) /\ \A i \in 1 .. Len(l) : m[k + i] = l[i]
  <2>1. <<x>> \in Lasts /\ <<x>> \in Mbox /\ Len(m) = k + Len(<<x>>)
    BY <1>2 DEF Lasts, Mbox, Message
  <2>2. \A i \in 1 .. Len(<<x>>) : m[k + i] = <<x>>[i]
    BY <1>2
  <2> QED BY <2>1, <2>2
<1>3. CASE Len(m) = k + 2 /\ m[k + 1] = Fin /\ m[k + 2] = Err
  <2>1. <<Fin, Err>> \in Lasts /\ <<Fin, Err>> \in Mbox /\ Len(m) = k + Len(<<Fin, Err>>)
    BY <1>3 DEF Lasts, Mbox, Message
  <2>2. \A i \in 1 .. Len(<<Fin, Err>>) : m[k + i] = <<Fin, Err>>[i]
    BY <1>3
  <2> QED BY <2>1, <2>2
<1> QED BY <1>1, <1>2, <1>3 DEF Ends

(* The segment that App_EthTask holds, put before recvmbox again. *)
LEMMA Prepended ==
  ASSUME NEW m \in Mbox, NEW a \in Segment, NEW b \in Nat, b = a + 1,
         NEW n \in Nat, NEW p, Run(m, b, n), Ends(m, n - b, p)
  PROVE  <<a>> \o m \in Mbox /\ Run(<<a>> \o m, a, n) /\ Ends(<<a>> \o m, n - a, p)
<1> DEFINE t == <<a>> \o m
<1>1. a \in Nat /\ <<a>> \in Mbox
  BY Kinds DEF Mbox
<1>2. t \in Mbox /\ Len(t) = Len(m) + 1 /\ Len(m) \in Nat
  BY <1>1 DEF Mbox
<1>3. t[1] = a /\ \A i \in 1 .. Len(m) : t[i + 1] = m[i]
  BY <1>1, <1>2 DEF Mbox
<1> HIDE DEF t
<1>4. Run(t, a, n)
  <2>1. ASSUME NEW i \in 1 .. n - a PROVE t[i] = a + i - 1
    <3>1. CASE i = 1
      BY <1>1, <1>3, <3>1
    <3>2. CASE i # 1
      <4>1. PICK j \in 1 .. n - b : i = j + 1
        <5>1. i - 1 \in 1 .. n - b /\ i = (i - 1) + 1
          BY <1>1, <3>2
        <5> QED BY <5>1
      <4> QED BY <1>1, <1>2, <1>3, <4>1 DEF Run
    <3> QED BY <3>1, <3>2
  <2> QED BY <1>1, <1>2, <2>1 DEF Run
<1>5. PICK k \in Nat : k = n - b
  BY <1>1 DEF Run
<1>6. Ends(t, k + 1, p)
  <2>1. Ends(m, k, p)
    BY <1>5
  <2>2. CASE Len(m) = k
    BY <1>2, <2>2 DEF Ends
  <2>3. CASE Len(m) = k + 1
    <3>1. t[k + 2] = m[k + 1] /\ Len(t) = k + 2
      BY <1>2, <1>3, <2>3
    <3> QED BY <2>1, <2>3, <3>1 DEF Ends
  <2>4. CASE Len(m) = k + 2
    <3>1. t[k + 2] = m[k + 1] /\ t[k + 3] = m[k + 2] /\ Len(t) = k + 3
      BY <1>2, <1>3, <2>4
    <3> QED BY <2>1, <2>4, <3>1 DEF Ends
  <2> QED BY <2>1, <2>2, <2>3, <2>4 DEF Ends
<1>7. n - a = k + 1
  BY <1>1, <1>5
<1> QED BY <1>2, <1>4, <1>6, <1>7 DEF t

(* The refused segment, put behind recvmbox. *)
LEMMA Appended ==
  ASSUME Typed, NEW b \in Nat \ {0}, NEW n \in Nat, Carries(b, n)
  PROVE  LET r == IF conn.refused = NoBuf THEN << >> ELSE <<conn.refused>> IN
         \E k \in {next - 1, next} :
           /\ conn.mbox \o r \in Mbox /\ Run(conn.mbox \o r, b, k)
           /\ Ends(conn.mbox \o r, k - b, conn.pcb)
           /\ k \in Nat /\ (conn.pcb # "none" => k = next)
<1> DEFINE m == conn.mbox
<1>1. m \in Mbox /\ next \in Nat /\ conn.refused \in Segment \cup {NoBuf}
  BY DEF Typed, IsConn
<1>2. CASE conn.refused = NoBuf
  <2>1. m \o << >> = m
    BY <1>1 DEF Mbox
  <2>2. n \in {next - 1, next} /\ (conn.pcb # "none" => n = next)
    BY <1>2 DEF Carries
  <2> QED BY <1>1, <1>2, <2>1, <2>2 DEF Carries
<1>3. CASE conn.refused # NoBuf
  <2>1. n \in Segment /\ n \in Message /\ conn.refused = n /\ n = next - 1 /\ Len(m) = n - b
    BY <1>1, <1>3, Kinds DEF Carries
  <2>2. m \o <<n>> = Append(m, n) /\ Append(m, n) \in Mbox
    BY <1>1, <2>1 DEF Mbox
  <2>3. Run(m, b, n)
    BY DEF Carries
  <2>4. Run(Append(m, n), b, n + 1) /\ Len(Append(m, n)) = Len(m) + 1
    BY <1>1, <2>1, <2>3, RunAppend
  <2>5. next = n + 1
    BY <1>1, <2>1
  <2>6. Ends(Append(m, n), next - b, conn.pcb)
    BY <2>1, <2>4, <2>5 DEF Ends
  <2> QED BY <1>1, <1>3, <2>1, <2>2, <2>4, <2>5, <2>6
<1> QED BY <1>2, <1>3

LEMMA StreamIs ==
  ASSUME SInv, NEW t \in Mbox, NEW b \in Nat \ {0}, NEW k \in {next - 1, next}, k \in Nat,
         Run(t, b, k), NEW p, Ends(t, k - b, p)
  PROVE  /\ b \in 0 .. next
         /\ \E l \in Lasts : t = [i \in 1 .. k - b |-> b + i - 1] \o l
<1>1. k <= MaxSeg + 1 /\ b \in 0 .. next
  <2>1. next \in Nat /\ next <= MaxSeg + 1 /\ b <= k
    BY DEF SInv, IInv, Typed, Bounded, Run
  <2> QED BY <2>1, ClientAssumption
<1>2. PICK j \in Nat : j = k - b
  BY DEF Run
<1>3. PICK l \in Lasts : l \in Mbox /\ Len(t) = j + Len(l) /\ \A i \in 1 .. Len(l) : t[j + i] = l[i]
  BY <1>2, LastIs
<1>4. Len(t) = k - b + Len(l) /\ \A i \in 1 .. Len(l) : t[k - b + i] = l[i]
  BY <1>2, <1>3
<1>5. t = [i \in 1 .. k - b |-> b + i - 1] \o l
  BY ONLY <1>1, <1>3, <1>4, Decomposed, k \in Nat, b \in Nat \ {0}, t \in Mbox, Run(t, b, k)
<1> QED BY <1>1, <1>3, <1>5

(* The bytes that the echo takes are those the peer sent, in their order, to  *)
(* the FIN and the error behind the last of them: whatever the connection     *)
(* goes through, however small the segments, and also after recvmbox refused  *)
(* one of them - until a trypost refuses a segment that it has queued.        *)
THEOREM StreamKept == Spec => []StreamIntact
<1>1. SInv => StreamIntact
  <2> SUFFICES ASSUME SInv, conn.up, ~doubled
      PROVE  \E last \in Lasts, from \in 0 .. next, to \in {next - 1, next} :
               /\ InTransit = [i \in 1 .. to - from |-> from + i - 1] \o last
               /\ conn.pcb # "none" => from = recved + 1 /\ to = next
    BY TypeOKHolds DEF SInv, StreamIntact, Lasts
  <2>1. PICK b \in Nat \ {0}, n \in Nat : Carries(b, n)
    BY DEF SInv, Stream
  <2>2. /\ Typed /\ conn.mbox \in Mbox /\ next \in Nat
        /\ pc = "recved" => buf \in Segment
    BY DEF SInv, IInv, Typed, IsConn, NetbufsCounted
  <2> DEFINE r == IF conn.refused = NoBuf THEN << >> ELSE <<conn.refused>>
             t == conn.mbox \o r
  <2>3. r \in Seq(Message)
    <3>1. conn.refused \in Segment \cup {NoBuf}
      BY <2>2 DEF Typed, IsConn
    <3>2. conn.refused # NoBuf => conn.refused \in Message
      BY <3>1 DEF Message
    <3> QED BY <3>2
  <2>4. PICK k \in {next - 1, next} :
          /\ t \in Mbox /\ Run(t, b, k) /\ Ends(t, k - b, conn.pcb)
          /\ k \in Nat /\ (conn.pcb # "none" => k = next)
    BY <2>1, <2>2, Appended
  <2>5. CASE pc = "recved"
    <3>1. buf \in Segment /\ buf \in Nat \ {0} /\ b = buf + 1
      BY <2>1, <2>2, <2>5, Kinds DEF Carries
    <3>2. InTransit = <<buf>> \o t
      <4>1. InTransit = <<buf>> \o conn.mbox \o r
        BY <2>5 DEF InTransit
      <4>2. <<buf>> \in Seq(Message) /\ conn.mbox \in Seq(Message)
        BY <2>2, <3>1 DEF Mbox, Message
      <4> HIDE DEF r
      <4>3. (<<buf>> \o conn.mbox) \o r = <<buf>> \o (conn.mbox \o r)
        BY <2>3, <4>2, Regrouped
      <4> QED BY <4>1, <4>3
    <3> HIDE DEF t
    <3>3. /\ InTransit \in Mbox /\ Run(InTransit, buf, k)
          /\ Ends(InTransit, k - buf, conn.pcb)
      BY <2>4, <3>1, <3>2, Prepended
    <3>4. /\ buf \in 0 .. next
          /\ \E l \in Lasts : InTransit = [i \in 1 .. k - buf |-> buf + i - 1] \o l
      BY <2>4, <3>1, <3>3, StreamIs
    <3>5. conn.pcb # "none" => buf = recved + 1
      BY <2>1, <2>5, <3>1 DEF Carries
    <3> QED BY <2>4, <3>4, <3>5
  <2>6. CASE pc # "recved"
    <3>1. InTransit = t
      <4>1. InTransit = << >> \o conn.mbox \o r
        BY <2>6 DEF InTransit
      <4>2. << >> \o conn.mbox = conn.mbox
        BY <2>2 DEF Mbox
      <4> QED BY <4>1, <4>2
    <3> HIDE DEF t
    <3>2. /\ b \in 0 .. next
          /\ \E l \in Lasts : InTransit = [i \in 1 .. k - b |-> b + i - 1] \o l
      BY <2>4, <3>1, StreamIs
    <3>3. conn.pcb # "none" => b = recved + 1
      BY <2>1, <2>6 DEF Carries
    <3> QED BY <2>4, <3>2, <3>3
  <2> QED BY <2>5, <2>6
<1>2. Spec => []SInv
  BY SInvInit, SInvStep, PTL DEF Spec
<1> QED BY <1>1, <1>2, PTL
=============================================================================
