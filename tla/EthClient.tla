----------------------------- MODULE EthClient -----------------------------
(***************************************************************************)
(* The TCP client App_EthTask (User/Src/app.c) over one netconn of the     *)
(* sequential API (Lwip-2.1.2/api/api_lib.c, api_msg.c): it connects,      *)
(* echoes what it receives, and starts again whenever a connection ends.   *)
(*                                                                         *)
(* Two tasks work on the netconn.  A step of App_EthTask is what it does   *)
(* under the core lock, or between two such sections.  A step of           *)
(* tcpip_thread is a segment or a timeout with the callbacks it causes; it *)
(* is more urgent, so it may come between any two steps of App_EthTask,    *)
(* but not into a section under the lock.  Which segments come is the      *)
(* peer's choice; retransmission and the bytes of a segment are left out.  *)
(*                                                                         *)
(* The window is counted in bytes and recvmbox in entries, so that small   *)
(* segments fill recvmbox: it refuses segments, which TCP offers again,    *)
(* and can lose a FIN (lost).  A trypost while App_EthTask is halfway in a *)
(* fetch may refuse a segment and queue it (doubled).  The OS_MSGs do not  *)
(* run out: all the queues of the build together have fewer entries.       *)
(***************************************************************************)
EXTENDS Integers, Sequences, FiniteSets, SequencesExt

CONSTANTS
  MaxSeg,      \* bound: segments of the peer on one connection
  Window,      \* TCP_WND, in segments of the size the peer sends
  MboxSize,    \* DEFAULT_TCP_RECVMBOX_SIZE
  SndBuf,      \* TCP_SND_BUF, in segments
  NetBufs      \* MEMP_NUM_NETBUF

ASSUME ClientAssumption ==
  /\ MaxSeg \in Nat /\ Window \in Nat \ {0} /\ MboxSize \in Nat \ {0}
  /\ SndBuf \in Nat \ {0} /\ NetBufs \in Nat

Segment == 1 .. MaxSeg
Fin == MaxSeg + 1      \* netconn_closed
Err == MaxSeg + 2      \* netconn_reset, netconn_aborted
NoBuf == 0

VARIABLES
  conn,      \* the netconn: see Netconn
  sem,       \* conn->op_completed
  failed,    \* msg.err # ERR_OK, of the api_msg waited for
  pc,        \* where App_EthTask is
  buf,       \* the pbuf App_EthTask has from recvmbox
  netbufs,   \* free elements of MEMP_NETBUF
  alive,     \* segments whose pbuf is not freed
  next,      \* the segment the peer sends next
  recved,    \* segments App_EthTask has reported by tcp_recved
  unacked,   \* segments sent and not acknowledged
  doubled    \* history: a segment was refused and is in recvmbox nevertheless

task == <<pc, buf, netbufs>>
tcb == <<next, recved, unacked, doubled>>
vars == <<conn, sem, failed, task, alive, tcb>>

Netconn ==
  [live   : BOOLEAN,                     \* taken from MEMP_NETCONN
   pcb    : {"none", "closed", "syn_sent", "established", "close_wait"},
   state  : {"NONE", "CONNECT", "WRITE"},
   msg    : BOOLEAN,                     \* current_msg # NULL
   pend   : BOOLEAN,                     \* pending_err # ERR_OK
   closed : BOOLEAN,                     \* NETCONN_FLAG_MBOXCLOSED
   up     : BOOLEAN,                     \* recvmbox exists
   mbox   : Seq(Segment \cup {Fin, Err}),  \* its queue
   places : Nat,                         \* its semaphore
   taking : BOOLEAN,                     \* a fetch is between OSQPend and OSSemPost
   refused : Segment \cup {NoBuf},       \* pcb->refused_data
   late   : BOOLEAN,                     \* its PBUF_FLAG_TCP_FIN
   lost   : BOOLEAN]                     \* history: the FIN found recvmbox full

NoConn ==
  [live |-> FALSE, pcb |-> "none", state |-> "NONE", msg |-> FALSE,
   pend |-> FALSE, closed |-> FALSE, up |-> FALSE, mbox |-> << >>, places |-> 0,
   taking |-> FALSE, refused |-> NoBuf, late |-> FALSE, lost |-> FALSE]

Init ==
  /\ conn = NoConn /\ sem = 0 /\ failed = FALSE
  /\ pc = "top" /\ buf = NoBuf /\ netbufs = NetBufs
  /\ alive = {} /\ next = 1 /\ recved = 0 /\ unacked = 0 /\ doubled = FALSE

-----------------------------------------------------------------------------
(* tcpip_thread. *)

Connected ==
  /\ conn.pcb = "syn_sent"
  /\ conn' = [conn EXCEPT !.pcb = "established", !.state = "NONE", !.msg = FALSE]
  /\ failed' = FALSE /\ sem' = sem + 1
  /\ UNCHANGED <<task, alive, tcb>>

(* sys_mbox_trypost to recvmbox: OSQPost, then OSSemPend without waiting.     *)
Queues(c) == Len(c.mbox) < MboxSize
Accepts(c) == Queues(c) /\ c.places > 0
Trypost(c, m) ==
  [c EXCEPT !.mbox = IF Queues(c) THEN Append(@, m) ELSE @,
            !.places = IF Accepts(c) THEN @ - 1 ELSE @]

(* recv_tcp of a FIN: nobody looks at its result.                             *)
Closed(c) == [Trypost(c, Fin) EXCEPT !.lost = @ \/ ~Queues(c)]

(* recv_tcp of segment s, with a FIN behind it if fin, for the netconn c: what *)
(* is refused is kept as refused_data.                                        *)
Deliver(c, s, fin) ==
  /\ conn' = LET d == [Trypost(c, s) EXCEPT !.refused = IF Accepts(c) THEN NoBuf ELSE s,
                                            !.late = fin /\ ~Accepts(c)]
             IN  IF Accepts(c) /\ fin THEN Closed(d) ELSE d
  /\ doubled' = (doubled \/ (Queues(c) /\ ~Accepts(c)))

(* Mutant: the window is not looked at again while a segment is refused.      *)
RecvSegmentAnyway ==
  /\ conn.pcb = "established"
  /\ next <= MaxSeg /\ next - 1 - recved < Window
  /\ \E fin \in BOOLEAN :
       Deliver([conn EXCEPT !.pcb = IF fin THEN "close_wait" ELSE @], next, fin)
  /\ alive' = alive \cup {next} /\ next' = next + 1
  /\ UNCHANGED <<sem, failed, task, recved, unacked>>

(* tcp_input of a segment in the window, and of a FIN without data: neither   *)
(* is taken while a segment is still refused.                                 *)
RecvSegment ==
  /\ conn.pcb = "established" /\ conn.refused = NoBuf
  /\ next <= MaxSeg /\ next - 1 - recved < Window
  /\ \E fin \in BOOLEAN :
       Deliver([conn EXCEPT !.pcb = IF fin THEN "close_wait" ELSE @], next, fin)
  /\ alive' = alive \cup {next} /\ next' = next + 1
  /\ UNCHANGED <<sem, failed, task, recved, unacked>>

RecvFin ==
  /\ conn.pcb = "established" /\ conn.refused = NoBuf
  /\ conn' = Closed([conn EXCEPT !.pcb = "close_wait"])
  /\ UNCHANGED <<sem, failed, task, alive, tcb>>

(* tcp_process_refused_data, from tcp_fasttmr and from the next segment.      *)
Redeliver ==
  /\ conn.refused # NoBuf /\ Deliver(conn, conn.refused, conn.late)
  /\ UNCHANGED <<sem, failed, task, alive, next, recved, unacked>>

(* Mutant: the error is not put into recvmbox.                                *)
ErrTcpSilent ==
  /\ conn.pcb \notin {"none", "closed"}
  /\ conn' = [conn EXCEPT !.pcb = "none", !.pend = TRUE, !.closed = TRUE,
                          !.state = "NONE", !.msg = FALSE,
                          !.refused = NoBuf, !.late = FALSE]
  /\ alive' = alive \ {conn.refused}
  /\ IF conn.state # "NONE" THEN failed' = TRUE /\ sem' = sem + 1
                            ELSE UNCHANGED <<failed, sem>>
  /\ UNCHANGED <<task, tcb>>

(* err_tcp: a reset, too many retransmissions, no answer to keepalive probes. *)
(* The pcb is purged, what it refused is freed.                               *)
ErrTcp ==
  /\ conn.pcb \notin {"none", "closed"}
  /\ conn' = [(IF conn.up THEN Trypost(conn, Err) ELSE conn)
               EXCEPT !.pcb = "none", !.pend = TRUE, !.closed = TRUE,
                      !.state = "NONE", !.msg = FALSE,
                      !.refused = NoBuf, !.late = FALSE]
  /\ alive' = alive \ {conn.refused}
  /\ IF conn.state # "NONE" THEN failed' = TRUE /\ sem' = sem + 1
                            ELSE UNCHANGED <<failed, sem>>
  /\ UNCHANGED <<task, tcb>>

(* Mutant: a call that did not have to wait is signalled too.                 *)
WritemoreTells(sent, delayed) ==
  \/ /\ conn' = [conn EXCEPT !.state = "WRITE", !.msg = TRUE]
     /\ unacked' = sent /\ UNCHANGED <<sem, failed>>
  \/ /\ conn' = [conn EXCEPT !.state = "NONE", !.msg = FALSE]
     /\ unacked' \in {sent, sent + 1} /\ unacked' <= SndBuf
     /\ sem' = sem + 1 /\ UNCHANGED failed

(* lwip_netconn_do_writemore, with sent segments unacknowledged: there is no  *)
(* memory for the data, or it is sent, or there is no route to send it.  Only *)
(* tcpip_thread (delayed) has somebody to signal.                             *)
Writemore(sent, delayed) ==
  \/ /\ conn' = [conn EXCEPT !.state = "WRITE", !.msg = TRUE]
     /\ unacked' = sent /\ UNCHANGED <<sem, failed>>
  \/ /\ conn' = [conn EXCEPT !.state = "NONE", !.msg = FALSE]
     /\ unacked' \in {sent, sent + 1} /\ unacked' <= SndBuf
     /\ sem' = (IF delayed THEN sem + 1 ELSE sem) /\ UNCHANGED failed

(* sent_tcp, on an acknowledgement, and poll_tcp, on a timer.                 *)
SentTcp ==
  /\ conn.pcb \in {"established", "close_wait"} /\ unacked > 0
  /\ IF conn.state = "WRITE" THEN Writemore(unacked - 1, TRUE)
       ELSE unacked' = unacked - 1 /\ UNCHANGED <<conn, sem, failed>>
  /\ UNCHANGED <<task, alive, next, recved, doubled>>

PollTcp ==
  /\ conn.state = "WRITE" /\ Writemore(unacked, TRUE)
  /\ UNCHANGED <<task, alive, next, recved, doubled>>

-----------------------------------------------------------------------------
(* App_EthTask. *)

(* netconn_new; netconn_connect and netconn_delete of NULL do nothing.        *)
New ==
  /\ pc = "top" /\ ~conn.live
  /\ \/ /\ conn' = [NoConn EXCEPT !.live = TRUE, !.pcb = "closed", !.up = TRUE,
                                  !.places = MboxSize]
        /\ sem' = 0 /\ pc' = "connect" /\ next' = 1 /\ recved' = 0 /\ unacked' = 0
     \/ pc' = "delay" /\ UNCHANGED <<conn, sem, next, recved, unacked>>
  /\ UNCHANGED <<failed, buf, netbufs, alive, doubled>>

(* lwip_netconn_do_connect up to its wait; tcp_connect may fail.              *)
Connect ==
  /\ pc = "connect"
  /\ \/ /\ conn' = [conn EXCEPT !.pcb = "syn_sent", !.state = "CONNECT", !.msg = TRUE]
        /\ pc' = "connecting"
     \/ pc' = "give_up" /\ UNCHANGED conn
  /\ UNCHANGED <<sem, failed, buf, netbufs, alive, tcb>>

ConnectEnds ==
  /\ pc = "connecting" /\ sem > 0 /\ sem' = sem - 1
  /\ pc' = IF failed THEN "give_up" ELSE "keepalive"
  /\ UNCHANGED <<conn, failed, buf, netbufs, alive, tcb>>

(* conn->pcb.tcp->so_options, without the lock.  If pcb.tcp is NULL the store *)
(* goes to address 9, flash that is not unlocked, and has no effect.          *)
Keepalive ==
  /\ pc = "keepalive" /\ pc' = "recv"
  /\ UNCHANGED <<conn, sem, failed, buf, netbufs, alive, tcb>>

(* conn exists: its state is never NETCONN_CLOSE between two calls.           *)
Again ==
  /\ pc = "top" /\ conn.live /\ pc' = "recv"
  /\ UNCHANGED <<conn, sem, failed, buf, netbufs, alive, tcb>>

(* netconn_recv takes a netbuf and chooses between fetch and tryfetch.        *)
Recv ==
  /\ pc = "recv"
  /\ IF netbufs = 0 THEN pc' = "delete" /\ UNCHANGED netbufs
       ELSE /\ netbufs' = netbufs - 1
            /\ pc' = IF conn.closed \/ conn.pend THEN "tryfetch" ELSE "fetch"
  /\ UNCHANGED <<conn, sem, failed, buf, alive, tcb>>

(* Mutant: the netbuf is forgotten on the way out with an error.              *)
FetchErrLeak ==
  /\ pc \in {"fetch", "tryfetch"} /\ (pc = "fetch" => conn.mbox # << >>)
  /\ LET m == IF conn.mbox = << >> THEN Err ELSE Head(conn.mbox) IN
     CASE m = Err -> pc' = "delete" /\ UNCHANGED <<buf, netbufs>>
       [] m = Fin -> pc' = "fin" /\ UNCHANGED <<buf, netbufs>>
       [] OTHER   -> pc' = "recved" /\ buf' = m /\ UNCHANGED netbufs
  /\ conn' = IF conn.mbox = << >> THEN [conn EXCEPT !.pend = FALSE]
                                  ELSE [conn EXCEPT !.mbox = Tail(@), !.taking = TRUE]
  /\ UNCHANGED <<sem, failed, alive, tcb>>

(* Nothing for tryfetch is an error too, taken from the netconn (netconn_err). *)
Fetch ==
  /\ pc \in {"fetch", "tryfetch"} /\ (pc = "fetch" => conn.mbox # << >>)
  /\ LET m == IF conn.mbox = << >> THEN Err ELSE Head(conn.mbox) IN
     CASE m = Err -> pc' = "delete" /\ netbufs' = netbufs + 1 /\ UNCHANGED buf
       [] m = Fin -> pc' = "fin" /\ UNCHANGED <<buf, netbufs>>
       [] OTHER   -> pc' = "recved" /\ buf' = m /\ UNCHANGED netbufs
  /\ conn' = IF conn.mbox = << >> THEN [conn EXCEPT !.pend = FALSE]
                                  ELSE [conn EXCEPT !.mbox = Tail(@), !.taking = TRUE]
  /\ UNCHANGED <<sem, failed, alive, tcb>>

(* The other half of the fetch: OSSemPost gives the place back.               *)
GivePlace ==
  /\ conn.taking
  /\ conn' = [conn EXCEPT !.taking = FALSE, !.places = @ + 1]
  /\ UNCHANGED <<sem, failed, task, alive, tcb>>

(* lwip_netconn_do_recv: tcp_recved opens the window again, to its full size  *)
(* at most.  A pbuf that was freed already has any length.                    *)
Recved ==
  /\ pc = "recved" /\ ~conn.taking /\ pc' = "echo"
  /\ recved' \in IF conn.pcb = "none" THEN {recved}
                  ELSE IF doubled THEN recved .. next - 1 ELSE {recved + 1}
  /\ UNCHANGED <<conn, sem, failed, buf, netbufs, alive, next, unacked, doubled>>

(* The peer has closed: handle_fin of netconn_recv_data_tcp.                  *)
HandleFin ==
  /\ pc = "fin" /\ ~conn.taking
  /\ IF conn.pcb = "none"
       THEN /\ conn' = [conn EXCEPT !.pend = FALSE]
            /\ netbufs' = netbufs + 1 /\ pc' = "delete"
       ELSE pc' = "shut" /\ UNCHANGED <<conn, netbufs>>
  /\ UNCHANGED <<sem, failed, buf, alive, tcb>>

(* netconn_drain frees what is in recvmbox and deletes it; tcp_shutdown and   *)
(* tcp_close free what was refused.                                           *)
Drained(c) == alive \ (ToSet(c.mbox) \cup {c.refused})
Without(c) ==
  [c EXCEPT !.up = FALSE, !.mbox = << >>, !.places = 0, !.refused = NoBuf, !.late = FALSE]

(* lwip_netconn_do_close with NETCONN_SHUT_RD; tcp_shutdown does not fail.    *)
Shut ==
  /\ pc = "shut" /\ pc' = "delete" /\ netbufs' = netbufs + 1
  /\ IF conn.pcb = "none" THEN UNCHANGED <<conn, alive>>
       ELSE alive' = Drained(conn) /\ conn' = Without(conn)
  /\ UNCHANGED <<sem, failed, buf, tcb>>

(* Mutant: the netbuf is freed, its pbuf is not.                              *)
EchoKeep ==
  /\ pc = "echo" /\ pc' = "write"
  /\ buf' = NoBuf /\ netbufs' = netbufs + 1
  /\ UNCHANGED <<conn, sem, failed, alive, tcb>>

(* netbuf_delete, before the data are written.                                *)
Echo ==
  /\ pc = "echo" /\ pc' = "write"
  /\ alive' = alive \ {buf} /\ buf' = NoBuf /\ netbufs' = netbufs + 1
  /\ UNCHANGED <<conn, sem, failed, tcb>>

(* lwip_netconn_do_write up to its wait; its result is ignored.               *)
Write ==
  /\ pc = "write"
  /\ IF conn.pend \/ conn.pcb = "none"
       THEN /\ conn' = [conn EXCEPT !.pend = FALSE] /\ pc' = "top"
            /\ UNCHANGED <<sem, failed, unacked>>
       ELSE /\ Writemore(unacked, FALSE)
            /\ pc' = IF conn'.state = "WRITE" THEN "writing" ELSE "top"
  /\ UNCHANGED <<buf, netbufs, alive, next, recved, doubled>>

WriteEnds ==
  /\ pc = "writing" /\ sem > 0 /\ sem' = sem - 1 /\ pc' = "top"
  /\ UNCHANGED <<conn, failed, buf, netbufs, alive, tcb>>

(* Mutant: a connection that is gone cannot be deleted.                       *)
DelConnGone ==
  /\ pc \in {"delete", "give_up"} /\ ~conn.taking
  /\ IF conn.state # "NONE" \/ conn.pcb = "none"
       THEN UNCHANGED <<conn, alive>> /\ pc' = IF pc = "delete" THEN "top" ELSE "delay"
       ELSE /\ alive' = Drained(conn)
            /\ conn' = [Without(conn) EXCEPT !.pcb = "none"]
            /\ pc' = IF pc = "delete" THEN "free" ELSE "free_delay"
  /\ UNCHANGED <<sem, failed, buf, netbufs, tcb>>

(* lwip_netconn_do_delconn; tcp_close does not fail in this version of lwIP.  *)
DelConn ==
  /\ pc \in {"delete", "give_up"} /\ ~conn.taking
  /\ IF conn.state # "NONE"
       THEN UNCHANGED <<conn, alive>> /\ pc' = IF pc = "delete" THEN "top" ELSE "delay"
       ELSE /\ alive' = Drained(conn)
            /\ conn' = [Without(conn) EXCEPT !.pcb = "none"]
            /\ pc' = IF pc = "delete" THEN "free" ELSE "free_delay"
  /\ UNCHANGED <<sem, failed, buf, netbufs, tcb>>

(* netconn_free, after the lock was released.                                 *)
Free ==
  /\ pc \in {"free", "free_delay"}
  /\ conn' = NoConn /\ sem' = 0
  /\ pc' = IF pc = "free" THEN "top" ELSE "delay"
  /\ UNCHANGED <<failed, buf, netbufs, alive, tcb>>

Delay ==
  /\ pc = "delay" /\ pc' = "top"
  /\ UNCHANGED <<conn, sem, failed, buf, netbufs, alive, tcb>>

App_EthTask ==
  \/ New \/ Connect \/ ConnectEnds \/ Keepalive \/ Again
  \/ Recv \/ Fetch \/ GivePlace \/ Recved \/ HandleFin \/ Shut
  \/ Echo \/ Write \/ WriteEnds \/ DelConn \/ Free \/ Delay
tcpip_thread ==
  \/ Connected \/ RecvSegment \/ RecvFin \/ Redeliver
  \/ ErrTcp \/ SentTcp \/ PollTcp
Next == App_EthTask \/ tcpip_thread

Spec == Init /\ [][Next]_vars

(* App_EthTask runs when tcpip_thread does not.  TCP gives up a SYN and data  *)
(* after a number of retransmissions (TCP_SYNMAXRTX, TCP_MAXRTX), so what     *)
(* App_EthTask waits for in connect and write is decided some time.  Refused  *)
(* data are offered again by tcp_fasttmr, every 250 ms.                       *)
Decided == conn.state # "NONE" /\ tcpip_thread /\ conn'.state = "NONE"
Fairness == WF_vars(App_EthTask) /\ WF_vars(Decided) /\ WF_vars(Redeliver)
FairSpec == Spec /\ Fairness

-----------------------------------------------------------------------------
(* Correctness. *)

TypeOK ==
  /\ conn \in Netconn /\ sem \in Nat /\ failed \in BOOLEAN
  /\ pc \in {"top", "connect", "connecting", "keepalive", "recv", "fetch", "tryfetch",
             "recved", "fin", "shut", "echo", "write", "writing",
             "delete", "give_up", "free", "free_delay", "delay"}
  /\ buf \in Segment \cup {NoBuf} /\ netbufs \in 0 .. NetBufs
  /\ alive \subseteq Segment /\ next \in 1 .. MaxSeg + 1
  /\ recved \in 0 .. MaxSeg /\ unacked \in 0 .. SndBuf /\ doubled \in BOOLEAN

(* op_completed: one signal for a call that waits, once its outcome is known, *)
(* and none left over that would end a later call too early.  A second of     *)
(* do_connected, err_tcp and writemore finds state NETCONN_NONE.              *)
OneSignal ==
  /\ conn.msg <=> conn.state # "NONE"
  /\ IF pc \in {"connecting", "writing"}
       THEN sem = IF conn.state = "NONE" THEN 1 ELSE 0
       ELSE sem = 0 /\ conn.state = "NONE"

(* A segment's pbuf is in one place only, and freed when it is in none: in    *)
(* recvmbox, with App_EthTask or refused - as long as no trypost refused what *)
(* it had queued.                                                             *)
PbufsConserved ==
  ~doubled =>
    /\ alive = (ToSet(conn.mbox) \cap Segment) \cup ({buf, conn.refused} \ {NoBuf})
    /\ buf \notin ToSet(conn.mbox) /\ conn.refused \notin ToSet(conn.mbox)
    /\ buf = conn.refused => buf = NoBuf

(* What is between TCP and App_EthTask is the stream in order: the segments   *)
(* not yet reported, the refused one the last of them, then the FIN and the   *)
(* error.  Only an error drops a segment, the refused one.  And only a trypost *)
(* that refused what it had queued puts a segment into it twice.              *)
InTransit ==
  (IF pc = "recved" THEN <<buf>> ELSE << >>) \o conn.mbox
    \o (IF conn.refused = NoBuf THEN << >> ELSE <<conn.refused>>)
StreamIntact ==
  TypeOK /\ (conn.up /\ ~doubled =>
    \E last \in {<< >>, <<Fin>>, <<Err>>, <<Fin, Err>>}, from \in 0 .. next, to \in {next - 1, next} :
      /\ InTransit = [i \in 1 .. to - from |-> from + i - 1] \o last
      /\ conn.pcb # "none" => from = recved + 1 /\ to = next)

(* api_lib.c:598 looks at the flags without a lock before it waits: a dead    *)
(* connection does not leave App_EthTask asleep in sys_arch_mbox_fetch.  The  *)
(* exception is a FIN that found recvmbox full (tcp_in.c:541).                *)
FetchWakes ==
  pc = "fetch" =>
    /\ conn.pcb = "none" => conn.mbox # << >>
    /\ conn.pcb = "close_wait" /\ ~conn.lost => conn.mbox # << >> \/ conn.refused # NoBuf

(* api_msg.c:796, "PCB must be deallocated outside this function": a netconn  *)
(* goes back to its pool, however its connection ended, without a pcb whose   *)
(* callbacks have it, and without a pbuf or a netbuf of its own.              *)
NothingLeft ==
  /\ pc \in {"free", "free_delay"} => conn.pcb = "none"
  /\ ~conn.live => alive = {} /\ netbufs = NetBufs /\ sem = 0

(* A connection that has ended is replaced by another attempt, unless all     *)
(* there was to tell App_EthTask is a FIN that was lost; and what a peer sent *)
(* is taken out of recvmbox, after it was refused too.                        *)
Recovers ==
  /\ conn.live /\ conn.pcb = "none" ~> ~conn.live
  /\ conn.pcb = "close_wait" ~> ~conn.live \/ conn.lost
  /\ \A s \in Segment : s \in ToSet(conn.mbox) ~> s \notin ToSet(conn.mbox)
  /\ conn.refused # NoBuf ~> conn.refused = NoBuf

(* app.c:206, the connection was made, switch keepalive on: there is a pcb to *)
(* switch it on for.                                                          *)
KeepaliveHasPcb == pc = "keepalive" => conn.pcb # "none"
=============================================================================
