------------------------------ MODULE Lifecycle ------------------------------
(***************************************************************************)
(* Creation and destruction of a Umem and of the sockets that share it     *)
(* (src/umem/mod.rs, src/socket/mod.rs): who owns the mmapped region, the  *)
(* C structs and the ring structs the C code points to, and in which order *)
(* they go when clients drop their handles in any order, from any thread.  *)
(*                                                                         *)
(* A Umem is a pair of Arcs, dropped one after the other: `inner` (the C   *)
(* umem and the saved rings), then `mem` (the region).  Besides the        *)
(* client's own handle, each SocketInner, FillQueue and CompQueue holds a  *)
(* clone.  A SocketInner is itself shared by its TxQueue and RxQueue.      *)
(***************************************************************************)
EXTENDS Naturals, FiniteSets

CONSTANTS
  Calls,    \* calls to Socket::new, each made at most once
  Pairs     \* (interface, queue id) pairs

VARIABLES
  region,      \* the mmapped region: "none", "mapped" or "unmapped"
  c_umem,      \* the xsk_umem: "none", "live", "deleted", or "leaked" (EBUSY)
  c_saved,     \* the xsk_umem still points to the rings Umem::new gave it
  saved,       \* those rings' memory: "none", "inner" (in saved_fq_and_cq),
               \* "moved" (to the Socket::new whose C call succeeded, and from
               \* there into its FillQueue and CompQueue) or "freed"
  handle,      \* the state of each clone of the Umem
  call,        \* how far each call to Socket::new and its socket have come
  pair,        \* the pair each call binds to
  c_sock,      \* calls whose xsk_socket exists
  own_rings,   \* calls whose fill and completion rings came back non-null
  queues       \* the queues of each call that are alive

vars == <<region, c_umem, c_saved, saved, handle, call, pair, c_sock, own_rings, queues>>

\* The holders of a clone of the Umem.
Handles == {<<"client">>} \cup (Calls \X {"socket", "fq", "cq"})

\* Handles through which the Arc'd inner, and the region, are still alive.
InnerOwners == {h \in Handles : handle[h] = "held"}
RegionOwners == {h \in Handles : handle[h] \notin {"none", "gone"}}

Init ==
  /\ region = "none" /\ c_umem = "none" /\ c_saved = FALSE /\ saved = "none"
  /\ handle = [h \in Handles |-> "none"]
  /\ call = [s \in Calls |-> "none"]
  /\ pair \in [Calls -> Pairs]
  /\ c_sock = {} /\ own_rings = {}
  /\ queues = [s \in Calls |-> {}]

-----------------------------------------------------------------------------
(* Umem::new *)

\* Mutant: the rings are not kept in the UmemInner.
NewUmemDropsRings ==
  /\ c_umem = "none" /\ region = "none"
  /\ region' = "mapped" /\ c_umem' = "live" /\ c_saved' = TRUE /\ saved' = "freed"
  /\ handle' = [handle EXCEPT ![<<"client">>] = "held"]
  /\ UNCHANGED <<call, pair, c_sock, own_rings, queues>>

\* All goes well: the C umem keeps pointers to the two boxed rings.
NewUmem ==
  /\ c_umem = "none" /\ region = "none"
  /\ region' = "mapped" /\ c_umem' = "live" /\ c_saved' = TRUE /\ saved' = "inner"
  /\ handle' = [handle EXCEPT ![<<"client">>] = "held"]
  /\ UNCHANGED <<call, pair, c_sock, own_rings, queues>>

\* mmap or xsk_umem__create fails, or a ring is left null: the locals go, the C
\* umem (if any) before the rings and the rings before the region.
NewUmemFails ==
  /\ c_umem = "none" /\ region = "none"
  /\ region' = "unmapped" /\ saved' = "freed"
  /\ c_umem' \in {"none", "deleted"}
  /\ UNCHANGED <<c_saved, handle, call, pair, c_sock, own_rings, queues>>

-----------------------------------------------------------------------------
(* Socket::new *)

\* The call takes the saved rings under the lock and passes them, or two empty
\* ones, to xsk_socket__create_shared, which fails: the error return drops them.
CreateFails(s) ==
  /\ call[s] = "none" /\ handle[<<"client">>] = "held"
  /\ call' = [call EXCEPT ![s] = "failed"]
  /\ saved' = IF saved = "inner" THEN "freed" ELSE saved
  /\ UNCHANGED <<region, c_umem, c_saved, handle, pair, c_sock, own_rings, queues>>

\* It reports success but leaves the socket pointer null: there is nothing to
\* delete, the error return drops the rings, and whether the C umem still points
\* to them is libxdp's affair.
CreateReturnsNull(s) ==
  /\ call[s] = "none" /\ handle[<<"client">>] = "held"
  /\ call' = [call EXCEPT ![s] = "failed"]
  /\ c_saved' \in {c_saved, FALSE}
  /\ saved' = IF saved = "inner" THEN "freed" ELSE saved
  /\ UNCHANGED <<region, c_umem, handle, pair, c_sock, own_rings, queues>>

\* Sockets bound to the pair of call s.
Sharing(s) == {t \in c_sock : pair[t] = pair[s]}

\* It succeeds: the C umem forgets its ring pointers, and sets up the fill and
\* completion rings if s is the first socket of its pair.
CreateSucceeds(s) ==
  /\ call[s] = "none" /\ handle[<<"client">>] = "held"
  /\ call' = [call EXCEPT ![s] = "created"]
  /\ c_sock' = c_sock \cup {s}
  /\ own_rings' = IF Sharing(s) = {} THEN own_rings \cup {s} ELSE own_rings
  /\ c_saved' = FALSE
  /\ saved' = IF saved = "inner" THEN "moved" ELSE saved
  /\ UNCHANGED <<region, c_umem, handle, pair, queues>>

\* Mutant: the fill and completion queues get no clone of the Umem.
FinishWithoutClones(s) ==
  /\ call[s] = "created"
  /\ call' = [call EXCEPT ![s] = "live"]
  /\ queues' = [queues EXCEPT ![s] =
                  {"tx", "rx"} \cup (IF s \in own_rings THEN {"fq", "cq"} ELSE {})]
  /\ handle' = [handle EXCEPT ![<<s, "socket">>] = "held"]
  /\ UNCHANGED <<region, c_umem, c_saved, saved, pair, c_sock, own_rings>>

\* Every ring is there: four queues, or two if the pair was already bound.
Finish(s) ==
  /\ call[s] = "created"
  /\ call' = [call EXCEPT ![s] = "live"]
  /\ LET own == IF s \in own_rings THEN {"fq", "cq"} ELSE {}
     IN /\ queues' = [queues EXCEPT ![s] = {"tx", "rx"} \cup own]
        /\ handle' = [h \in Handles |->
                        IF h \in {s} \X ({"socket"} \cup own) THEN "held" ELSE handle[h]]
  /\ UNCHANGED <<region, c_umem, c_saved, saved, pair, c_sock, own_rings>>

\* The file descriptor is negative: the socket goes before a clone is made.
FinishWithoutFd(s) ==
  /\ call[s] = "created"
  /\ call' = [call EXCEPT ![s] = "closed"]
  /\ c_sock' = c_sock \ {s}
  /\ UNCHANGED <<region, c_umem, c_saved, saved, handle, pair, own_rings, queues>>

\* One of the rings is null: the SocketInner, with its clone, is dropped.
FinishWithoutRing(s) ==
  /\ call[s] = "created"
  /\ call' = [call EXCEPT ![s] = "closing"]
  /\ handle' = [handle EXCEPT ![<<s, "socket">>] = "held"]
  /\ UNCHANGED <<region, c_umem, c_saved, saved, pair, c_sock, own_rings, queues>>

-----------------------------------------------------------------------------
(* Dropping sockets and queues *)

\* Mutant: only the rx queue ever lets go of the socket.
DropQueueLeaksSocket(s, q) ==
  /\ q \in queues[s]
  /\ queues' = [queues EXCEPT ![s] = @ \ {q}]
  /\ call' = IF call[s] = "live" /\ q = "rx" /\ "tx" \notin queues'[s]
               THEN [call EXCEPT ![s] = "closing"] ELSE call
  /\ UNCHANGED <<region, c_umem, c_saved, saved, handle, pair, c_sock, own_rings>>

\* The client drops a queue of call s; the last of tx and rx drops the socket.
DropQueue(s, q) ==
  /\ q \in queues[s]
  /\ queues' = [queues EXCEPT ![s] = @ \ {q}]
  /\ call' = IF call[s] = "live" /\ q \in {"tx", "rx"} /\ queues'[s] \cap {"tx", "rx"} = {}
               THEN [call EXCEPT ![s] = "closing"] ELSE call
  /\ UNCHANGED <<region, c_umem, c_saved, saved, handle, pair, c_sock, own_rings>>

\* Mutant: XskSocket has no Drop, so the socket stays behind.
DeleteSocketForgotten(s) ==
  /\ call[s] = "closing"
  /\ call' = [call EXCEPT ![s] = "closed"]
  /\ UNCHANGED <<region, c_umem, c_saved, saved, handle, pair, c_sock, own_rings, queues>>

\* Drop for SocketInner, first field: xsk_socket__delete.
DeleteSocket(s) ==
  /\ call[s] = "closing"
  /\ call' = [call EXCEPT ![s] = "closed"]
  /\ c_sock' = c_sock \ {s}
  /\ UNCHANGED <<region, c_umem, c_saved, saved, handle, pair, own_rings, queues>>

-----------------------------------------------------------------------------
(* Dropping a clone of the Umem *)

\* Mutant: the fields of SocketInner are swapped, its Umem may go first.
MayDropBeforeSocket(h) ==
  IF h = <<"client">>
    THEN \A s \in Calls : call[s] # "created"
    ELSE IF h[2] = "socket" THEN call[h[1]] \in {"closing", "closed"} ELSE h[2] \notin queues[h[1]]

\* Whose turn it is: the client drops its own handle when no call borrows it,
\* a fill or completion queue drops its clone with itself, and a SocketInner
\* its second field after the first.
MayDrop(h) ==
  IF h = <<"client">>
    THEN \A s \in Calls : call[s] # "created"
    ELSE IF h[2] = "socket" THEN call[h[1]] = "closed" ELSE h[2] \notin queues[h[1]]

SetHandle(h, st) == handle' = [handle EXCEPT ![h] = st]

\* The Arc of `inner`: the last owner goes on to drop the UmemInner.
DropInner(h) ==
  /\ handle[h] = "held" /\ MayDrop(h)
  /\ SetHandle(h, IF InnerOwners = {h} THEN "last" ELSE "no_inner")
  /\ UNCHANGED <<region, c_umem, c_saved, saved, call, pair, c_sock, own_rings, queues>>

\* Drop for UmemInner, first field: xsk_umem__delete, which refuses while
\* sockets use the umem.
DeleteUmem(h) ==
  /\ handle[h] = "last"
  /\ c_umem' = IF c_sock = {} THEN "deleted" ELSE "leaked"
  /\ SetHandle(h, "deleted")
  /\ UNCHANGED <<region, c_saved, saved, call, pair, c_sock, own_rings, queues>>

\* Second field: the saved rings, if no socket took them.
FreeSaved(h) ==
  /\ handle[h] = "deleted"
  /\ saved' = IF saved = "inner" THEN "freed" ELSE saved
  /\ SetHandle(h, "no_inner")
  /\ UNCHANGED <<region, c_umem, c_saved, call, pair, c_sock, own_rings, queues>>

\* The Arc of `mem`: the last owner unmaps the region.
DropRegion(h) ==
  /\ handle[h] = "no_inner"
  /\ region' = IF RegionOwners = {h} THEN "unmapped" ELSE region
  /\ SetHandle(h, "gone")
  /\ UNCHANGED <<c_umem, c_saved, saved, call, pair, c_sock, own_rings, queues>>

-----------------------------------------------------------------------------

SocketNew(s) ==
  \/ CreateFails(s) \/ CreateReturnsNull(s) \/ CreateSucceeds(s)
  \/ Finish(s) \/ FinishWithoutFd(s) \/ FinishWithoutRing(s)

\* What a drop that has begun does next, without the client.
DropStep(h) == DeleteUmem(h) \/ FreeSaved(h) \/ DropRegion(h)

Next ==
  \/ NewUmem \/ NewUmemFails
  \/ \E s \in Calls : SocketNew(s) \/ DeleteSocket(s)
  \/ \E s \in Calls, q \in {"tx", "rx", "fq", "cq"} : DropQueue(s, q)
  \/ \E h \in Handles : DropInner(h) \/ DropStep(h)

Spec == Init /\ [][Next]_vars

(***************************************************************************)
(* Drop glue runs to its end; a call that has a socket returns.  Nothing   *)
(* makes a client drop its own handle or its queues.                       *)
(***************************************************************************)
Fairness ==
  /\ \A s \in Calls :
       WF_vars(Finish(s) \/ FinishWithoutFd(s) \/ FinishWithoutRing(s)) /\ WF_vars(DeleteSocket(s))
  /\ \A h \in Handles : WF_vars(DropStep(h))
  /\ \A h \in Handles \ {<<"client">>} : WF_vars(DropInner(h))

FairSpec == Spec /\ Fairness

-----------------------------------------------------------------------------
(* Properties *)

\* Type invariant; an xsk_socket exists exactly while some Rust value owns it.
TypeOK ==
  /\ region \in {"none", "mapped", "unmapped"}
  /\ c_umem \in {"none", "live", "deleted", "leaked"}
  /\ c_saved \in BOOLEAN /\ saved \in {"none", "inner", "moved", "freed"}
  /\ handle \in [Handles -> {"none", "held", "last", "deleted", "no_inner", "gone"}]
  /\ call \in [Calls -> {"none", "failed", "created", "live", "closing", "closed"}]
  /\ pair \in [Calls -> Pairs]
  /\ c_sock = {s \in Calls : call[s] \in {"created", "live", "closing"}}
  /\ own_rings \subseteq Calls
  /\ queues \in [Calls -> SUBSET {"tx", "rx", "fq", "cq"}]

\* The region outlives the C umem and every socket, whatever the order of drops
\* and although the two Arcs of a Umem are released in separate steps: the
\* kernel never has a umem over unmapped memory ("`inner` must appear before
\* `mem` to ensure correct drop order").
RegionOutlivesUsers ==
  region = "unmapped" => c_umem \in {"none", "deleted"} /\ c_sock = {}

\* xsk_umem__delete never meets a socket that still uses the umem, so it never
\* fails with EBUSY and nothing is leaked ("`ptr` must appear before `umem`").
UmemNeverBusy == c_umem # "leaked"

\* A queue the client can still use keeps the umem and the region alive, and a
\* tx or rx queue its socket too.
QueuesKeepUmemAlive ==
  \A s \in Calls : queues[s] # {} =>
    /\ c_umem = "live" /\ region = "mapped"
    /\ queues[s] \cap {"tx", "rx"} # {} => s \in c_sock

\* While the C umem points to the rings of Umem::new their memory is there,
\* unless a call to Socket::new has failed.
SavedRingsSurviveSuccess ==
  (c_umem = "live" /\ c_saved /\ saved = "freed") => \E s \in Calls : call[s] = "failed"

\* "we store them here so we don't prematurely clear up the rings' memory
\* between creating the Umem and creating the socket".
SavedRingsSurvive ==
  (c_umem = "live" /\ c_saved) => saved # "freed"

\* "packaging the various queues with an `Arc`'d UMEM or socket where needed to
\* ensure they don't outlive what they depend on": the rings of a fill or
\* completion queue exist while some socket is bound to its pair.
QueuesDoNotOutliveSockets ==
  \A s \in Calls : queues[s] # {} => \E t \in c_sock : pair[t] = pair[s]

\* Once the client has dropped its handle and every queue, everything goes: no
\* order of drops leaves a cycle or a forgotten owner behind.
EverythingIsReclaimed ==
  (handle[<<"client">>] = "gone" /\ \A s \in Calls : queues[s] = {} /\ call[s] # "created")
    ~> (region = "unmapped" /\ c_umem = "deleted" /\ c_sock = {} /\ saved # "inner")

=============================================================================
