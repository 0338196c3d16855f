--------------------------- MODULE LifecycleProofs ---------------------------
(***************************************************************************)
(* Proofs about Lifecycle, for any number of calls to Socket::new and of   *)
(* (interface, queue id) pairs.                                            *)
(*                                                                         *)
(* The properties speak of the C umem, the sockets and the region; what    *)
(* keeps them in step is who holds which Arc.  CallInv ties each clone of  *)
(* the Umem to the Rust value that owns it, ArcInv ties the C umem and the *)
(* region to the clones.                                                   *)
(***************************************************************************)
EXTENDS Lifecycle, TLAPS

Client == <<"client">>
Clone(s, x) == <<s, x>>
Clones == {"socket", "fq", "cq"}

\* Clones and queues of a call exist as far as the call has come: a call that
\* has no queues yet has no clones, one that borrows the client's handle keeps
\* it alive, a socket and each fill or completion queue hold their clone.
CallOK(s) ==
  /\ call[s] \in {"none", "failed", "created"} =>
       queues[s] = {} /\ \A x \in Clones : handle[Clone(s, x)] = "none"
  /\ call[s] = "created" => handle[Client] = "held"
  /\ call[s] \in {"live", "closing"} => handle[Clone(s, "socket")] = "held"
  /\ "tx" \in queues[s] \/ "rx" \in queues[s] => call[s] = "live"
  /\ "fq" \in queues[s] => handle[Clone(s, "fq")] = "held"
  /\ "cq" \in queues[s] => handle[Clone(s, "cq")] = "held"

CallInv == \A s \in Calls : CallOK(s)

\* The Arc of inner: while somebody holds it the C umem is there and nobody is
\* dropping the UmemInner; whoever drops it is the only one to do so.  The Arc
\* of mem: while somebody has not let go of it the region is mapped.
ArcInv ==
  /\ \A h \in Handles : handle[h] \in {"held", "last"} => c_umem = "live"
  /\ \A h \in Handles : handle[h] = "deleted" => c_umem = "deleted"
  /\ \A h, g \in Handles :
       handle[h] \in {"last", "deleted"} /\ handle[g] \in {"held", "last", "deleted"} => g = h
  /\ \A h \in Handles : handle[h] \notin {"none", "gone"} => region = "mapped"
  /\ c_umem = "live" => \E h \in Handles : handle[h] \in {"held", "last"}
  /\ c_umem = "none" => \A h \in Handles : handle[h] = "none"
  /\ c_umem # "leaked"
  /\ region = "none" => c_umem = "none"

\* The C umem points to its own rings, or it does no more, or a call has failed.
SavedInv ==
  (c_umem = "live" /\ c_saved) => saved = "inner" \/ \E s \in Calls : call[s] = "failed"

IndInv == TypeOK /\ CallInv /\ ArcInv /\ SavedInv

-----------------------------------------------------------------------------
(* The holders of a clone *)

\* The client's handle is none of the clones of a call, and two clones are the
\* same only if they belong to the same value of the same call.
LEMMA HandleFacts ==
  /\ Client \in Handles
  /\ \A s \in Calls, x \in Clones : Clone(s, x) \in Handles /\ Clone(s, x) # Client
  /\ \A h \in Handles : h = Client \/ \E s \in Calls, x \in Clones : h = Clone(s, x)
  /\ \A s, t \in Calls, x, y \in Clones : Clone(s, x) = Clone(t, y) => s = t /\ x = y
<1>1. \A s \in Calls, x \in Clones : Clone(s, x) # Client
  BY DEF Client, Clone
<1> QED  BY <1>1 DEF Handles, Client, Clone, Clones

\* What MayDrop asks of the client and of each value a call creates.
LEMMA MayDropFacts ==
  /\ MayDrop(Client) <=> \A s \in Calls : call[s] # "created"
  /\ \A s \in Calls : MayDrop(Clone(s, "socket")) <=> call[s] = "closed"
  /\ \A s \in Calls, x \in {"fq", "cq"} : MayDrop(Clone(s, x)) <=> x \notin queues[s]
<1>1. \A s \in Calls, x \in Clones : <<s, x>> # <<"client">>
  BY HandleFacts DEF Client, Clone
<1> QED  BY <1>1 DEF MayDrop, Client, Clone, Clones

-----------------------------------------------------------------------------
(* The inductive invariant *)

\* Nothing exists before Umem::new.
LEMMA InitIndInv == Init => IndInv
<1> SUFFICES ASSUME Init PROVE IndInv
  OBVIOUS
<1>1. TypeOK
  BY DEF Init, TypeOK
<1>2. CallInv
  BY HandleFacts DEF Init, CallInv, CallOK, Clones
<1>3. ArcInv
  BY DEF Init, ArcInv
<1>4. SavedInv
  BY DEF Init, SavedInv
<1> QED  BY <1>1, <1>2, <1>3, <1>4 DEF IndInv

\* A socket that exists keeps some clone held: before Socket::new returns the
\* client's, whose reference the call borrows, and afterwards its own.
LEMMA SocketHoldsUmem ==
  ASSUME IndInv, NEW s \in c_sock
  PROVE  \E h \in Handles : handle[h] = "held"
<1>1. s \in Calls /\ call[s] \in {"created", "live", "closing"}
  BY DEF IndInv, TypeOK
<1>2. CASE call[s] = "created"
  BY <1>1, <1>2, HandleFacts DEF IndInv, CallInv, CallOK
<1>3. CASE call[s] \in {"live", "closing"}
  BY <1>1, <1>3, HandleFacts DEF IndInv, CallInv, CallOK, Clones
<1> QED  BY <1>1, <1>2, <1>3

\* Umem::new succeeds: nobody held a clone before, the client does now.
LEMMA NewUmemStep ==
  ASSUME IndInv, NewUmem
  PROVE  IndInv'
<1> USE DEF IndInv, NewUmem, Client
<1>1. TypeOK'
  BY HandleFacts DEF TypeOK
<1>2. ASSUME NEW t \in Calls
      PROVE  CallOK(t)'
  BY HandleFacts DEF TypeOK, CallInv, CallOK, Clones, ArcInv
<1>3. ArcInv'
  BY HandleFacts DEF TypeOK, ArcInv
<1>4. SavedInv'
  BY DEF TypeOK, ArcInv, SavedInv
<1> QED  BY <1>1, <1>2, <1>3, <1>4 DEF CallInv

\* Umem::new fails: there is no clone and there will be none.
LEMMA NewUmemFailsStep ==
  ASSUME IndInv, NewUmemFails
  PROVE  IndInv'
<1> USE DEF IndInv, NewUmemFails
<1>1. TypeOK'
  BY DEF TypeOK
<1>2. ASSUME NEW t \in Calls
      PROVE  CallOK(t)'
  BY HandleFacts DEF TypeOK, CallInv, CallOK, Clones, ArcInv
<1>3. ArcInv'
  BY DEF ArcInv
<1>4. SavedInv'
  BY DEF TypeOK, ArcInv, SavedInv
<1> QED  BY <1>1, <1>2, <1>3, <1>4 DEF CallInv

\* xsk_socket__create_shared fails: the rings may be freed, but a call has failed.
LEMMA CreateFailsStep ==
  ASSUME IndInv, NEW s \in Calls, CreateFails(s)
  PROVE  IndInv'
<1> USE DEF IndInv, CreateFails, Client
<1>1. TypeOK'
  BY DEF TypeOK
<1>2. ASSUME NEW t \in Calls
      PROVE  CallOK(t)'
  <2>1. CASE t = s
    BY <2>1, HandleFacts DEF TypeOK, CallInv, CallOK, Clones, ArcInv
  <2>2. CASE t # s
    BY <2>2, HandleFacts DEF TypeOK, CallInv, CallOK, Clones, ArcInv
  <2> QED  BY <2>1, <2>2
<1>3. ArcInv'
  BY DEF ArcInv
<1>4. SavedInv'
  BY DEF TypeOK, ArcInv, SavedInv
<1> QED  BY <1>1, <1>2, <1>3, <1>4 DEF CallInv

\* It returns no socket: the same, whatever the C umem still points to.
LEMMA CreateReturnsNullStep ==
  ASSUME IndInv, NEW s \in Calls, CreateReturnsNull(s)
  PROVE  IndInv'
<1> USE DEF IndInv, CreateReturnsNull, Client
<1>1. TypeOK'
  BY DEF TypeOK
<1>2. ASSUME NEW t \in Calls
      PROVE  CallOK(t)'
  <2>1. CASE t = s
    BY <2>1, HandleFacts DEF TypeOK, CallInv, CallOK, Clones, ArcInv
  <2>2. CASE t # s
    BY <2>2, HandleFacts DEF TypeOK, CallInv, CallOK, Clones, ArcInv
  <2> QED  BY <2>1, <2>2
<1>3. ArcInv'
  BY DEF ArcInv
<1>4. SavedInv'
  BY DEF TypeOK, ArcInv, SavedInv
<1> QED  BY <1>1, <1>2, <1>3, <1>4 DEF CallInv

\* xsk_socket__create_shared succeeds: the socket is there and the call still
\* borrows the client's handle.
LEMMA CreateSucceedsStep ==
  ASSUME IndInv, NEW s \in Calls, CreateSucceeds(s)
  PROVE  IndInv'
<1> USE DEF IndInv, CreateSucceeds, Client
<1>1. TypeOK'
  <2>1. c_sock' = {t \in Calls : call'[t] \in {"created", "live", "closing"}}
    BY DEF TypeOK
  <2>2. own_rings' \subseteq Calls
    BY DEF TypeOK
  <2>3. saved' \in {"none", "inner", "moved", "freed"}
    BY DEF TypeOK
  <2>4. call' \in [Calls -> {"none", "failed", "created", "live", "closing", "closed"}]
    BY DEF TypeOK
  <2> QED  BY <2>1, <2>2, <2>3, <2>4 DEF TypeOK
<1>2. ASSUME NEW t \in Calls
      PROVE  CallOK(t)'
  <2>1. CASE t = s
    BY <2>1, HandleFacts DEF TypeOK, CallInv, CallOK, Clones, ArcInv
  <2>2. CASE t # s
    BY <2>2, HandleFacts DEF TypeOK, CallInv, CallOK, Clones, ArcInv
  <2> QED  BY <2>1, <2>2
<1>3. ArcInv'
  BY DEF ArcInv
<1>4. SavedInv'
  BY DEF TypeOK, ArcInv, SavedInv
<1> QED  BY <1>1, <1>2, <1>3, <1>4 DEF CallInv

\* While the client's handle is held nobody is dropping the UmemInner.
LEMMA ClientHeldFacts ==
  ASSUME IndInv, handle[Client] = "held"
  PROVE  /\ c_umem = "live" /\ region = "mapped"
         /\ \A h \in Handles : handle[h] \notin {"last", "deleted"}
BY HandleFacts DEF IndInv, ArcInv

\* Socket::new returns queues: each gets its clone from the client's, which is held.
LEMMA FinishStep ==
  ASSUME IndInv, NEW s \in Calls, Finish(s)
  PROVE  IndInv'
<1> DEFINE own == IF s \in own_rings THEN {"fq", "cq"} ELSE {}
           New == {s} \X ({"socket"} \cup own)
<1>1. handle[Client] = "held" /\ \A x \in Clones : handle[Clone(s, x)] = "none"
  BY DEF IndInv, CallInv, CallOK, Finish
<1>2. /\ c_umem = "live" /\ region = "mapped"
      /\ \A h \in Handles : handle[h] \notin {"last", "deleted"}
  BY <1>1, ClientHeldFacts
<1>3. handle' = [h \in Handles |-> IF h \in New THEN "held" ELSE handle[h]]
  BY DEF Finish
<1>4. \A t \in Calls, x \in Clones : Clone(t, x) \in New <=> t = s /\ x \in {"socket"} \cup own
  BY DEF Clone, Clones
<1>5. Client \notin New
  <2>1. \A h \in New : \E x \in Clones : h = Clone(s, x)
    BY DEF Clone, Clones
  <2> QED  BY <2>1, HandleFacts
<1> HIDE DEF New
<1>6. TypeOK'
  BY <1>3 DEF IndInv, TypeOK, Finish
<1>7. ASSUME NEW t \in Calls
      PROVE  CallOK(t)'
  <2>1. \A x \in Clones : handle'[Clone(t, x)] =
        IF t = s /\ x \in {"socket"} \cup own THEN "held" ELSE handle[Clone(t, x)]
    BY <1>3, <1>4, HandleFacts
  <2>2. handle'[Client] = "held"
    BY <1>1, <1>3, HandleFacts
  <2>3. CASE t = s
    <3>1. call'[t] = "live" /\ queues'[t] = {"tx", "rx"} \cup own
      BY <2>3 DEF IndInv, TypeOK, Finish
    <3>2. handle'[Clone(t, "socket")] = "held"
      BY <2>1, <2>3 DEF Clones
    <3>3. \A x \in {"fq", "cq"} : x \in queues'[t] => handle'[Clone(t, x)] = "held"
      BY <2>1, <2>3, <3>1 DEF Clones
    <3> QED  BY <3>1, <3>2, <3>3, <2>2 DEF CallOK
  <2>4. CASE t # s
    <3>1. call'[t] = call[t] /\ queues'[t] = queues[t]
      BY <2>4 DEF IndInv, TypeOK, Finish
    <3>2. \A x \in Clones : handle'[Clone(t, x)] = handle[Clone(t, x)]
      BY <2>1, <2>4
    <3> QED  BY <3>1, <3>2, <2>2, <1>1 DEF IndInv, CallInv, CallOK, Clones
  <2> QED  BY <2>3, <2>4
<1>8. ArcInv'
  <2>1. c_umem' = "live" /\ region' = "mapped"
    BY <1>2 DEF Finish
  <2>2. \A h \in Handles : handle'[h] \notin {"last", "deleted"}
    BY <1>2, <1>3
  <2>3. \E h \in Handles : handle'[h] = "held"
    BY <1>1, <1>3, HandleFacts
  <2> QED  BY <2>1, <2>2, <2>3 DEF ArcInv
<1>9. SavedInv'
  BY DEF IndInv, TypeOK, SavedInv, Finish
<1> QED  BY <1>6, <1>7, <1>8, <1>9 DEF IndInv, CallInv

\* The socket has no file descriptor: it goes, and with it the call's borrow.
LEMMA FinishWithoutFdStep ==
  ASSUME IndInv, NEW s \in Calls, FinishWithoutFd(s)
  PROVE  IndInv'
<1> USE DEF IndInv, FinishWithoutFd
<1>1. TypeOK'
  BY DEF TypeOK
<1>2. ASSUME NEW t \in Calls
      PROVE  CallOK(t)'
  <2>1. CASE t = s
    BY <2>1, HandleFacts DEF TypeOK, CallInv, CallOK, Clones, ArcInv
  <2>2. CASE t # s
    BY <2>2, HandleFacts DEF TypeOK, CallInv, CallOK, Clones, ArcInv
  <2> QED  BY <2>1, <2>2
<1>3. ArcInv'
  BY DEF ArcInv
<1>4. SavedInv'
  BY DEF TypeOK, ArcInv, SavedInv
<1> QED  BY <1>1, <1>2, <1>3, <1>4 DEF CallInv

\* A ring is null: the SocketInner has its clone and is about to be dropped.
LEMMA FinishWithoutRingStep ==
  ASSUME IndInv, NEW s \in Calls, FinishWithoutRing(s)
  PROVE  IndInv'
<1>1. handle[Client] = "held" /\ queues[s] = {}
  BY DEF IndInv, CallInv, CallOK, FinishWithoutRing
<1>2. /\ c_umem = "live" /\ region = "mapped"
      /\ \A h \in Handles : handle[h] \notin {"last", "deleted"}
  BY <1>1, ClientHeldFacts
<1>3. Clone(s, "socket") \in Handles /\ Clone(s, "socket") # Client
  BY HandleFacts DEF Clones
<1>4. handle' = [handle EXCEPT ![Clone(s, "socket")] = "held"]
  BY DEF FinishWithoutRing, Clone
<1>5. TypeOK'
  BY <1>4 DEF IndInv, TypeOK, FinishWithoutRing
<1>6. handle'[Client] = "held" /\ handle'[Clone(s, "socket")] = "held"
  BY <1>1, <1>3, <1>4, HandleFacts DEF IndInv, TypeOK
<1>7. ASSUME NEW t \in Calls
      PROVE  CallOK(t)'
  <2>1. CASE t = s
    BY <1>1, <1>6, <2>1 DEF IndInv, TypeOK, FinishWithoutRing, CallOK
  <2>2. CASE t # s
    <3>1. \A x \in Clones : handle'[Clone(t, x)] = handle[Clone(t, x)]
      BY <1>4, <2>2, HandleFacts DEF IndInv, TypeOK, Clones
    <3> QED  BY <1>6, <2>2, <3>1 DEF IndInv, TypeOK, CallInv, CallOK, FinishWithoutRing, Clones
  <2> QED  BY <2>1, <2>2
<1>8. ArcInv'
  <2>1. c_umem' = "live" /\ region' = "mapped"
    BY <1>2 DEF FinishWithoutRing
  <2>2. \A h \in Handles : handle'[h] \notin {"last", "deleted"}
    BY <1>2, <1>4 DEF IndInv, TypeOK
  <2> QED  BY <1>6, <2>1, <2>2, HandleFacts DEF ArcInv
<1>9. SavedInv'
  BY DEF IndInv, TypeOK, SavedInv, FinishWithoutRing
<1> QED  BY <1>5, <1>7, <1>8, <1>9 DEF IndInv, CallInv

\* A queue goes: the socket stays while tx or rx does.
LEMMA DropQueueStep ==
  ASSUME IndInv, NEW s \in Calls, NEW q \in {"tx", "rx", "fq", "cq"}, DropQueue(s, q)
  PROVE  IndInv'
<1> USE DEF IndInv, DropQueue
<1>1. TypeOK'
  BY DEF TypeOK, CallInv
<1>2. ASSUME NEW t \in Calls
      PROVE  CallOK(t)'
  <2>1. CASE t = s
    BY <2>1, HandleFacts DEF TypeOK, CallInv, CallOK, Clones, ArcInv
  <2>2. CASE t # s
    BY <2>2, HandleFacts DEF TypeOK, CallInv, CallOK, Clones, ArcInv
  <2> QED  BY <2>1, <2>2
<1>3. ArcInv'
  BY DEF ArcInv
<1>4. SavedInv'
  BY DEF TypeOK, ArcInv, SavedInv
<1> QED  BY <1>1, <1>2, <1>3, <1>4 DEF CallInv

\* xsk_socket__delete: the socket is gone, its clone of the Umem still held.
LEMMA DeleteSocketStep ==
  ASSUME IndInv, NEW s \in Calls, DeleteSocket(s)
  PROVE  IndInv'
<1> USE DEF IndInv, DeleteSocket
<1>1. TypeOK'
  BY DEF TypeOK
<1>2. ASSUME NEW t \in Calls
      PROVE  CallOK(t)'
  <2>1. CASE t = s
    BY <2>1, HandleFacts DEF TypeOK, CallInv, CallOK, Clones, ArcInv
  <2>2. CASE t # s
    BY <2>2, HandleFacts DEF TypeOK, CallInv, CallOK, Clones, ArcInv
  <2> QED  BY <2>1, <2>2
<1>3. ArcInv'
  BY DEF ArcInv
<1>4. SavedInv'
  BY DEF TypeOK, ArcInv, SavedInv
<1> QED  BY <1>1, <1>2, <1>3, <1>4 DEF CallInv

\* One Arc of inner is released: by the client when no call borrows its handle,
\* by a socket after xsk_socket__delete, by a queue that no longer exists.
LEMMA DropInnerStep ==
  ASSUME IndInv, NEW h \in Handles, DropInner(h)
  PROVE  IndInv'
<1> USE DEF IndInv
<1>1. handle[h] = "held" /\ MayDrop(h)
  BY DEF DropInner
<1>2. /\ \A g \in Handles \ {h} : handle'[g] = handle[g]
      /\ handle'[h] \in {"last", "no_inner"}
      /\ handle'[h] = "last" <=> \A g \in Handles \ {h} : handle[g] # "held"
  BY <1>1 DEF TypeOK, DropInner, SetHandle, InnerOwners
<1>3. TypeOK'
  BY DEF TypeOK, DropInner, SetHandle
<1>4. ASSUME NEW t \in Calls
      PROVE  CallOK(t)'
  <2>1. CASE h = Client
    <3>1. call[t] # "created"
      BY <1>1, <2>1, MayDropFacts
    <3>2. \A x \in Clones : handle'[Clone(t, x)] = handle[Clone(t, x)]
      BY <1>2, <2>1, HandleFacts
    <3> QED  BY <3>1, <3>2 DEF CallInv, CallOK, Clones, DropInner
  <2>2. CASE h # Client
    <3>1. PICK s \in Calls, x \in Clones : h = Clone(s, x)
      BY <2>2, HandleFacts
    <3>2. handle'[Client] = handle[Client]
      BY <1>2, <2>2, HandleFacts
    <3>3. \A y \in Clones : Clone(t, y) # h => handle'[Clone(t, y)] = handle[Clone(t, y)]
      BY <1>2, HandleFacts
    <3>4. CASE t # s
      BY <3>1, <3>2, <3>3, <3>4, HandleFacts DEF CallInv, CallOK, Clones, DropInner
    <3>5. CASE t = s
      <4>1. call[s] \notin {"none", "failed", "created"}
        BY <1>1, <3>1 DEF CallInv, CallOK
      <4>2. CASE x = "socket"
        <5>1. call[s] = "closed"
          BY <1>1, <3>1, <4>2, MayDropFacts
        <5> QED  BY <3>1, <3>3, <3>5, <4>2, <5>1, HandleFacts DEF CallInv, CallOK, Clones, DropInner
      <4>3. CASE x \in {"fq", "cq"}
        <5>1. x \notin queues[s]
          BY <1>1, <3>1, <4>3, MayDropFacts
        <5> QED  BY <3>1, <3>3, <3>5, <4>1, <4>3, <5>1, HandleFacts DEF CallInv, CallOK, Clones, DropInner
      <4> QED  BY <4>2, <4>3 DEF Clones
    <3> QED  BY <3>4, <3>5
  <2> QED  BY <2>1, <2>2
<1>5. ArcInv'
  <2>1. c_umem = "live" /\ region = "mapped" /\ \A g \in Handles : handle[g] \notin {"last", "deleted"}
    BY <1>1 DEF ArcInv
  <2> QED  BY <1>2, <2>1 DEF ArcInv, DropInner
<1>6. SavedInv'
  BY DEF SavedInv, DropInner
<1> QED  BY <1>3, <1>4, <1>5, <1>6 DEF CallInv

\* A handle that no longer counts as held may change state without touching
\* any call.
LEMMA ReleaseKeepsCalls ==
  ASSUME IndInv, NEW h \in Handles, NEW st, SetHandle(h, st),
         handle[h] \in {"last", "deleted", "no_inner"},
         UNCHANGED <<call, queues>>
  PROVE  CallInv'
<1>1. \A g \in Handles \ {h} : handle'[g] = handle[g]
  BY DEF IndInv, TypeOK, SetHandle
<1> SUFFICES ASSUME NEW t \in Calls PROVE CallOK(t)'
  BY DEF CallInv
<1>2. handle[Client] \in {"held", "none"} => handle'[Client] = handle[Client]
  BY <1>1, HandleFacts
<1>3. \A x \in Clones : handle[Clone(t, x)] \in {"held", "none"} => handle'[Clone(t, x)] = handle[Clone(t, x)]
  BY <1>1, HandleFacts
<1> QED  BY <1>2, <1>3 DEF IndInv, CallInv, CallOK, Clones

\* xsk_umem__delete, by the last owner of inner: no socket is left to make it
\* fail, since a socket would hold the inner that this owner was the last to hold.
LEMMA DeleteUmemStep ==
  ASSUME IndInv, NEW h \in Handles, DeleteUmem(h)
  PROVE  IndInv'
<1>1. \A g \in Handles \ {h} : handle[g] \notin {"held", "last", "deleted"}
  BY DEF IndInv, ArcInv, DeleteUmem
<1>2. c_sock = {}
  BY <1>1, SocketHoldsUmem DEF DeleteUmem
<1>3. TypeOK'
  BY DEF IndInv, TypeOK, DeleteUmem, SetHandle
<1>4. CallInv'
  BY ReleaseKeepsCalls DEF DeleteUmem
<1>5. ArcInv'
  <2>1. region' = "mapped" /\ c_umem' = "deleted"
    BY <1>2 DEF IndInv, ArcInv, DeleteUmem
  <2>2. handle'[h] = "deleted" /\ \A g \in Handles \ {h} : handle'[g] = handle[g]
    BY DEF IndInv, TypeOK, DeleteUmem, SetHandle
  <2> QED  BY <1>1, <2>1, <2>2 DEF ArcInv
<1>6. SavedInv'
  BY <1>2 DEF SavedInv, DeleteUmem
<1> QED  BY <1>3, <1>4, <1>5, <1>6 DEF IndInv

\* The saved rings are freed after the C umem that may point to them.
LEMMA FreeSavedStep ==
  ASSUME IndInv, NEW h \in Handles, FreeSaved(h)
  PROVE  IndInv'
<1>1. TypeOK'
  BY DEF IndInv, TypeOK, FreeSaved, SetHandle
<1>2. CallInv'
  BY ReleaseKeepsCalls DEF FreeSaved
<1>3. ArcInv'
  BY DEF IndInv, TypeOK, ArcInv, FreeSaved, SetHandle
<1>4. SavedInv'
  BY DEF IndInv, ArcInv, SavedInv, FreeSaved
<1> QED  BY <1>1, <1>2, <1>3, <1>4 DEF IndInv

\* The Arc of mem: the region is unmapped only when no other handle has it.
LEMMA DropRegionStep ==
  ASSUME IndInv, NEW h \in Handles, DropRegion(h)
  PROVE  IndInv'
<1>1. TypeOK'
  BY DEF IndInv, TypeOK, DropRegion, SetHandle
<1>2. CallInv'
  BY ReleaseKeepsCalls DEF DropRegion
<1>3. ArcInv'
  BY DEF IndInv, TypeOK, ArcInv, DropRegion, SetHandle, RegionOwners
<1>4. SavedInv'
  BY DEF IndInv, SavedInv, DropRegion
<1> QED  BY <1>1, <1>2, <1>3, <1>4 DEF IndInv

\* Every step of the system preserves the invariant.
LEMMA NextIndInv == IndInv /\ [Next]_vars => IndInv'
<1> SUFFICES ASSUME IndInv, [Next]_vars
             PROVE  IndInv'
  OBVIOUS
<1>1. CASE NewUmem
  BY <1>1, NewUmemStep
<1>2. CASE NewUmemFails
  BY <1>2, NewUmemFailsStep
<1>3. ASSUME NEW s \in Calls, SocketNew(s) PROVE IndInv'
  BY <1>3, CreateFailsStep, CreateReturnsNullStep, CreateSucceedsStep, FinishStep,
     FinishWithoutFdStep, FinishWithoutRingStep DEF SocketNew
<1>4. ASSUME NEW s \in Calls, DeleteSocket(s) PROVE IndInv'
  BY <1>4, DeleteSocketStep
<1>5. ASSUME NEW s \in Calls, NEW q \in {"tx", "rx", "fq", "cq"}, DropQueue(s, q) PROVE IndInv'
  BY <1>5, DropQueueStep
<1>6. ASSUME NEW h \in Handles, DropInner(h) PROVE IndInv'
  BY <1>6, DropInnerStep
<1>7. ASSUME NEW h \in Handles, DropStep(h) PROVE IndInv'
  BY <1>7, DeleteUmemStep, FreeSavedStep, DropRegionStep DEF DropStep
<1>8. CASE UNCHANGED vars
  BY <1>8 DEF vars, IndInv, TypeOK, CallInv, CallOK, ArcInv, SavedInv
<1> QED  BY <1>1, <1>2, <1>3, <1>4, <1>5, <1>6, <1>7, <1>8 DEF Next

\* The invariant holds in every reachable state.
LEMMA IndInvHolds == Spec => []IndInv
BY InitIndInv, NextIndInv, PTL DEF Spec

-----------------------------------------------------------------------------
(* The properties, for any number of calls and pairs *)

\* Type correctness of the lifecycle, and with it: an xsk_socket exists exactly
\* while some Rust value owns it.
THEOREM TypeCorrect == Spec => []TypeOK
BY IndInvHolds, PTL DEF IndInv

\* Umem's field order and the Arcs keep the region mapped for as long as the C
\* umem or any socket exists, whatever the interleaving of drops.
THEOREM RegionOutlivesUsersHolds == Spec => []RegionOutlivesUsers
<1>1. IndInv => RegionOutlivesUsers
  <2> SUFFICES ASSUME IndInv, region = "unmapped"
               PROVE  c_umem \in {"none", "deleted"} /\ c_sock = {}
    BY DEF RegionOutlivesUsers
  <2>1. \A h \in Handles : handle[h] \in {"none", "gone"}
    BY DEF IndInv, ArcInv
  <2>2. c_umem \in {"none", "deleted"}
    BY <2>1 DEF IndInv, TypeOK, ArcInv
  <2>3. c_sock = {}
    BY <2>1, SocketHoldsUmem
  <2> QED  BY <2>2, <2>3
<1> QED  BY <1>1, IndInvHolds, PTL

\* SocketInner's field order and the Arcs let xsk_umem__delete run only after
\* the last xsk_socket__delete: it never fails with EBUSY.
THEOREM UmemNeverBusyHolds == Spec => []UmemNeverBusy
<1>1. IndInv => UmemNeverBusy
  BY DEF IndInv, ArcInv, UmemNeverBusy
<1> QED  BY <1>1, IndInvHolds, PTL

\* A queue in the client's hands keeps the C umem and the region alive, and a
\* tx or rx queue its socket.
THEOREM QueuesKeepUmemAliveHolds == Spec => []QueuesKeepUmemAlive
<1>1. IndInv => QueuesKeepUmemAlive
  <2> SUFFICES ASSUME IndInv, NEW s \in Calls, queues[s] # {}
               PROVE  /\ c_umem = "live" /\ region = "mapped"
                      /\ queues[s] \cap {"tx", "rx"} # {} => s \in c_sock
    BY DEF QueuesKeepUmemAlive
  <2>1. PICK q \in queues[s] : q \in {"tx", "rx", "fq", "cq"}
    BY DEF IndInv, TypeOK
  <2>2. queues[s] \cap {"tx", "rx"} # {} => call[s] = "live"
    BY DEF IndInv, CallInv, CallOK
  <2>3. \E x \in Clones : handle[Clone(s, x)] = "held"
    <3>1. CASE q \in {"tx", "rx"}
      BY <2>1, <3>1 DEF IndInv, CallInv, CallOK, Clones
    <3>2. CASE q \in {"fq", "cq"}
      BY <2>1, <3>2 DEF IndInv, CallInv, CallOK, Clones
    <3> QED  BY <2>1, <3>1, <3>2
  <2>4. c_umem = "live" /\ region = "mapped"
    BY <2>3, HandleFacts DEF IndInv, ArcInv
  <2> QED  BY <2>2, <2>4 DEF IndInv, TypeOK
<1> QED  BY <1>1, IndInvHolds, PTL

\* The rings Umem::new gave to the C umem are freed under it only after a call
\* to Socket::new has failed.
THEOREM SavedRingsSurviveSuccessHolds == Spec => []SavedRingsSurviveSuccess
<1>1. IndInv => SavedRingsSurviveSuccess
  BY DEF IndInv, SavedInv, SavedRingsSurviveSuccess
<1> QED  BY <1>1, IndInvHolds, PTL

=============================================================================
