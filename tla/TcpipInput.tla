----------------------------- MODULE TcpipInput -----------------------------
(***************************************************************************)
(* From the receive task to tcpip_thread: ethernetif_input hands a pbuf to *)
(* tcpip_inpkt (Lwip-2.1.2/api/tcpip.c), which wraps it into an element of *)
(* the pool MEMP_TCPIP_MSG_INPKT and tries to post it to tcpip_mbox;       *)
(* tcpip_thread fetches, handles the packet and frees the element.  When   *)
(* the pool of pbufs is empty the receive task queues the callback         *)
(* pbuf_free_ooseq instead, once.                                          *)
(*                                                                         *)
(* The mailbox is the one of SysArchMbox, whose steps are taken here as    *)
(* they are.  The receive task holds the core lock while it posts;         *)
(* tcpip_thread releases it around its fetch.                              *)
(***************************************************************************)
EXTENDS SysArchMbox

CONSTANTS
  Rx, Tcpip,   \* the two tasks; the application is the least urgent one
  Inpkt,       \* elements of MEMP_TCPIP_MSG_INPKT
  Api,         \* elements of MEMP_TCPIP_MSG_API
  Pbuf,        \* pbufs of the pool, one for a frame
  NoPbuf,
  NoTask

ASSUME TcpipAssumption ==
  /\ Rx \in TryPoster /\ Tcpip \in Fetcher /\ Prio[Rx] < Prio[Tcpip]
  /\ NoTask \notin Thread /\ NoPbuf \notin Pbuf
  /\ Msg = Inpkt \cup Api /\ Inpkt \cap Api = {}

VARIABLES
  at,        \* where each of the two tasks is
  core,      \* owner of the core lock
  alive,     \* elements of the memp pools in use
  pkt,       \* msg.inp.p of each element
  refs,      \* p->ref of each pbuf, a u8_t; 0 in the pool
  p,         \* the pbuf the receive task has
  elem,      \* the element it fills and posts
  work,      \* the message tcpip_thread handles
  kept,      \* pbufs the stack has queued for later
  pending    \* pbuf_free_ooseq_pending

mem == <<alive, pkt, refs, kept, pending>>
tvars == <<vars, at, core, mem, p, elem, work>>

TInit ==
  /\ Init
  /\ at = [t \in {Rx, Tcpip} |-> IF t = Rx THEN "out" ELSE "fetch"]
  /\ core = NoTask /\ alive = {}
  /\ pkt = [m \in Msg |-> NoPbuf] /\ refs = [b \in Pbuf |-> 0]
  /\ p = NoPbuf /\ elem = NoMsg /\ work = NoMsg /\ kept = {} /\ pending = FALSE

Dec(b) == refs' = [refs EXCEPT ![b] = (@ + 255) % 256]

-----------------------------------------------------------------------------
(* Scheduling.  A task that waits for the core lock is not ready. *)
Ready(t) ==
  /\ pc[t] \notin Blocked /\ at[t] # "out"
  /\ at[t] = "lock" => core = NoTask
Step(t, l) ==
  /\ at[t] = l /\ Ready(t)
  /\ t = Tcpip => ~Ready(Rx)
Goto(t, l) == at' = [at EXCEPT ![t] = l]

-----------------------------------------------------------------------------
(* ethernetif_input: a frame is there; LOCK_TCPIP_CORE.                       *)
Frame ==
  /\ at[Rx] = "out" /\ Goto(Rx, "lock")
  /\ UNCHANGED <<vars, core, mem, p, elem, work>>

Lock(t, l) ==
  /\ Step(t, "lock") /\ core = NoTask /\ core' = t /\ Goto(t, l)
  /\ UNCHANGED <<vars, mem, p, elem, work>>

(* pbuf_alloc; when the pool is empty, pbuf_pool_is_empty notes that the      *)
(* callback is wanted, and queues it unless it was wanted before.             *)
Alloc ==
  /\ Step(Rx, "alloc")
  /\ \/ \E b \in Pbuf :
          /\ refs[b] = 0
          /\ refs' = [refs EXCEPT ![b] = 1] /\ p' = b /\ Goto(Rx, "memp")
          /\ UNCHANGED pending
     \/ /\ \A b \in Pbuf : refs[b] # 0
        /\ pending' = TRUE /\ Goto(Rx, IF pending THEN "unlock" ELSE "memp")
        /\ UNCHANGED <<refs, p>>
  /\ UNCHANGED <<vars, core, alive, pkt, kept, elem, work>>

(* memp_malloc in tcpip_inpkt and tcpip_try_callback.                         *)
Memp ==
  LET pool == IF p = NoPbuf THEN Api ELSE Inpkt IN
  /\ Step(Rx, "memp")
  /\ \/ \E m \in pool \ alive :
          /\ alive' = alive \cup {m} /\ elem' = m
          /\ pkt' = [pkt EXCEPT ![m] = p] /\ Goto(Rx, "post")
     \/ /\ pool \subseteq alive /\ Goto(Rx, "failed") /\ UNCHANGED <<alive, elem, pkt>>
  /\ UNCHANGED <<vars, core, refs, kept, pending, p, work>>

(* sys_mbox_trypost, its two kernel calls; an element that is still queued    *)
(* may be posted again.                                                       *)
TryPostPut ==
  /\ Step(Rx, "post") /\ pc[Rx] = Idle
  /\ ret' = [ret EXCEPT ![elem] = "pending"]
  /\ \/ QPost(Rx, elem, "try_sem") /\ Goto(Rx, "place")
     \/ QPostFails /\ Goto(Rx, "refused") /\ UNCHANGED <<entries, pc, msg>>
  /\ UNCHANGED <<semValid, semCtr, qValid, others, skew, core, mem, p, elem, work>>

TryPostPlace ==
  /\ Step(Rx, "place") /\ TryTakePlace(Rx)
  /\ Goto(Rx, IF semCtr > 0 THEN "unlock" ELSE "refused")
  /\ UNCHANGED <<core, mem, p, elem, work>>

(* Mutant: the element of a refused message is not freed. *)
RefusedLeak ==
  /\ Step(Rx, "refused")
  /\ Goto(Rx, "failed")
  /\ UNCHANGED <<vars, core, mem, p, elem, work>>

(* memp_free after a refused post.                                            *)
Refused ==
  /\ Step(Rx, "refused")
  /\ alive' = alive \ {elem} /\ Goto(Rx, "failed")
  /\ UNCHANGED <<vars, core, pkt, refs, kept, pending, p, elem, work>>

(* ERR_MEM: ethernetif_input frees the pbuf, PBUF_POOL_FREE_OOSEQ_QUEUE_CALL  *)
(* resets the flag.                                                           *)
Failed ==
  /\ Step(Rx, "failed")
  /\ IF p = NoPbuf THEN pending' = FALSE /\ UNCHANGED refs
                   ELSE Dec(p) /\ UNCHANGED pending
  /\ Goto(Rx, "unlock")
  /\ UNCHANGED <<vars, core, alive, pkt, kept, p, elem, work>>

Unlock ==
  /\ Step(Rx, "unlock")
  /\ core' = NoTask /\ p' = NoPbuf /\ elem' = NoMsg /\ Goto(Rx, "out")
  /\ UNCHANGED <<vars, mem, work>>

-----------------------------------------------------------------------------
(* tcpip_timeouts_mbox_fetch, without the core lock; a timeout is followed by *)
(* sys_check_timeouts under it.                                               *)
Fetch ==
  /\ Step(Tcpip, "fetch") /\ (FetchTake(Tcpip) \/ FetchWait(Tcpip))
  /\ UNCHANGED <<at, core, mem, p, elem, work>>

FetchEnds ==
  /\ Step(Tcpip, "fetch") /\ FetchGive(Tcpip)
  /\ work' = msg[Tcpip] /\ Goto(Tcpip, "lock")
  /\ UNCHANGED <<core, mem, p, elem>>

Timeout ==
  /\ at[Tcpip] = "fetch" /\ FetchTimeout(Tcpip)
  /\ Goto(Tcpip, "lock")
  /\ UNCHANGED <<core, mem, p, elem, work>>

(* Mutant: a packet the stack keeps is freed by handle_msg. *)
HandlePacketTwice ==
  /\ Step(Tcpip, "handle") /\ work \in Inpkt
  /\ Dec(pkt[work]) /\ kept' \in {kept, kept \cup {pkt[work]}}
  /\ Goto(Tcpip, "free")
  /\ UNCHANGED <<vars, core, alive, pkt, pending, p, elem, work>>

(* tcpip_thread_handle_msg, a packet: the stack, or handle_msg after an       *)
(* error, frees the pbuf, or the stack keeps it for later.                    *)
HandlePacket ==
  /\ Step(Tcpip, "handle") /\ work \in Inpkt
  /\ \/ Dec(pkt[work]) /\ UNCHANGED kept
     \/ kept' = kept \cup {pkt[work]} /\ UNCHANGED refs
  /\ Goto(Tcpip, "free")
  /\ UNCHANGED <<vars, core, alive, pkt, pending, p, elem, work>>

(* A callback: pbuf_free_ooseq resets the flag first, then frees what a       *)
(* connection had queued out of sequence, if any had.                         *)
HandleCallback ==
  /\ Step(Tcpip, "handle") /\ work \in Api
  /\ pending' = FALSE
  /\ \/ UNCHANGED <<kept, refs>>
     \/ \E b \in kept : Dec(b) /\ kept' = kept \ {b}
  /\ Goto(Tcpip, "free")
  /\ UNCHANGED <<vars, core, alive, pkt, p, elem, work>>

(* memp_free; UNLOCK_TCPIP_CORE.                                              *)
FreeElement ==
  /\ Step(Tcpip, "free")
  /\ alive' = alive \ {work} /\ work' = NoMsg
  /\ core' = NoTask /\ Goto(Tcpip, "fetch")
  /\ UNCHANGED <<vars, pkt, refs, kept, pending, p, elem>>

CheckTimeouts ==
  /\ Step(Tcpip, "handle") /\ work = NoMsg
  /\ core' = NoTask /\ Goto(Tcpip, "fetch")
  /\ UNCHANGED <<vars, mem, p, elem, work>>

(* The application reads what the stack kept and frees it.                    *)
AppFree ==
  /\ ~Ready(Rx) /\ ~Ready(Tcpip)
  /\ \E b \in kept : Dec(b) /\ kept' = kept \ {b}
  /\ UNCHANGED <<vars, at, core, alive, pkt, pending, p, elem, work>>

RxStep ==
  \/ Lock(Rx, "alloc") \/ Alloc \/ Memp \/ TryPostPut \/ TryPostPlace
  \/ Refused \/ Failed \/ Unlock
TcpipStep ==
  \/ Fetch \/ FetchEnds \/ Lock(Tcpip, "handle") \/ HandlePacket
  \/ HandleCallback \/ FreeElement \/ CheckTimeouts

(* Other queues use OS_MSGs of the pool of the kernel.                        *)
Others ==
  (OthersTake \/ OthersReturn) /\ UNCHANGED <<at, core, mem, p, elem, work>>

TNext == Frame \/ RxStep \/ TcpipStep \/ Timeout \/ AppFree \/ Others

TSpec == TInit /\ [][TNext]_tvars

(* The tasks run their code; the frames of the network leave tcpip_thread     *)
(* some time, again and again.                                                *)
TFairSpec == TSpec /\ WF_tvars(RxStep) /\ SF_tvars(TcpipStep)

-----------------------------------------------------------------------------
(* Correctness. *)

TTypeOK ==
  /\ TypeOK
  /\ at \in [{Rx, Tcpip} -> {"out", "lock", "alloc", "memp", "post", "place",
       "refused", "failed", "unlock", "fetch", "handle", "free"}]
  /\ core \in {Rx, Tcpip, NoTask} /\ alive \subseteq Msg
  /\ pkt \in [Msg -> Pbuf \cup {NoPbuf}] /\ refs \in [Pbuf -> 0 .. 255]
  /\ p \in Pbuf \cup {NoPbuf} /\ elem \in Msg \cup {NoMsg}
  /\ work \in Msg \cup {NoMsg} /\ kept \subseteq Pbuf /\ pending \in BOOLEAN

(* The messages on their way to the end of tcpip_thread_handle_msg.           *)
Flight ==
  {entries[i] : i \in 1 .. Len(entries)}
    \cup ({msg[Tcpip], work} \ {NoMsg})

(* What travels through the mailbox is in use, in one place, and its packet   *)
(* too: neither side frees what the other one still has.                      *)
FlightIsAlive ==
  /\ TTypeOK
  /\ Flight \subseteq alive
  /\ \A i, j \in 1 .. Len(entries) : entries[i] = entries[j] => i = j
  /\ at[Tcpip] # "free" =>
       \A m \in Flight \cap Inpkt : refs[pkt[m]] = 1

(* pbuf.c, "Queue a call to pbuf_free_ooseq if not already queued": while the *)
(* flag keeps further calls from being queued, one is on its way.  Otherwise  *)
(* an empty pool would never be replenished again.                            *)
PendingIsQueued ==
  pending => Flight \cap Api # {} \/ (p = NoPbuf /\ at[Rx] \in
               {"memp", "post", "place", "refused", "failed"})

(* Nothing leaks: an element in use is under way or being posted, a pbuf in   *)
(* use belongs to the receive task, to one message or to the stack, and the   *)
(* flag to a callback.                                                        *)
NothingLeaks ==
  /\ alive \subseteq Flight \cup {elem}
  /\ \A b \in Pbuf : refs[b] # 0 =>
       b = p \/ b \in kept \/ \E m \in Flight \cap Inpkt : pkt[m] = b
  /\ PendingIsQueued

(* pbuf.c, the assertion "pbuf_free: p->ref > 0".                             *)
FreedPbufHasRef ==
  /\ at[Rx] = "failed" /\ p # NoPbuf => refs[p] > 0
  /\ at[Tcpip] = "handle" /\ work \in Inpkt => refs[pkt[work]] > 0
  /\ \A b \in kept : refs[b] > 0

(* A message that was accepted is handled and freed.                          *)
MessageHandled == \A m \in Msg : m \in Flight ~> m \notin Flight
=============================================================================
