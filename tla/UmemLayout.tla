----------------------------- MODULE UmemLayout ------------------------------
(***************************************************************************)
(* From a UmemConfig to bytes: how the builder validates the dimensions    *)
(* of a frame (src/config/umem.rs), how Umem::new lays frames out in one   *)
(* region (src/umem/mod.rs, src/umem/mem/mod.rs), and how the segment      *)
(* accessors and the Cursor write into that region through raw pointers    *)
(* while keeping the lengths in the frame descriptors                      *)
(* (src/umem/frame/mod.rs, src/umem/frame/cursor.rs).                      *)
(*                                                                         *)
(* The region is one flat array of bytes, as in the code.  `expected` says *)
(* what each segment would hold if it were a buffer of its own; that no    *)
(* access through one segment shows in another is then an invariant.       *)
(***************************************************************************)
EXTENDS Integers, Sequences, FiniteSetsExt

CONSTANTS
  Modulus,               \* 2^32: config arithmetic is done in u32
  XDP_PACKET_HEADROOM,   \* bytes XDP keeps for itself in front of each frame
  MIN_CHUNK_SIZE,        \* XDP_UMEM_MIN_CHUNK_SIZE
  MaxFrameSize,          \* bound: frame sizes the client asks for
  Headrooms,             \* frame headrooms the client asks for (u32s)
  FrameCount,            \* number of frames of the UMEM
  Bytes,                 \* byte values other than 0 that are written
  MaxWrite,              \* bound: length of a buffer passed to write
  OverflowChecks         \* TRUE in builds where u32 overflow panics

ASSUME LayoutAssumption ==
  /\ Modulus \in Nat \ {0}
  /\ XDP_PACKET_HEADROOM \in Nat /\ XDP_PACKET_HEADROOM < MIN_CHUNK_SIZE
  /\ MIN_CHUNK_SIZE \in Nat /\ MaxFrameSize \in 0 .. (Modulus - 1)
  /\ Headrooms \subseteq 0 .. (Modulus - 1)
  /\ FrameCount \in Nat \ {0}
  /\ Bytes \subseteq Nat \ {0} /\ MaxWrite \in Nat
  /\ OverflowChecks \in BOOLEAN

VARIABLES
  phase,      \* "config", "built", "rejected", "panicked" or "mapped"
  config,     \* the Config the builder returned
  memory,     \* the mmapped region
  lengths,    \* SegmentLengths of each frame's descriptor
  expected    \* reference: each segment as a separate buffer

vars == <<phase, config, memory, lengths, expected>>

Frames == 0 .. (FrameCount - 1)
Segments == {"headroom", "data"}

-----------------------------------------------------------------------------
(* Configuration *)

\* FrameSize::new.
ValidFrameSize(size) == size >= MIN_CHUNK_SIZE

NoConfig == [frame_size |-> 0, frame_headroom |-> 0]

Init ==
  /\ phase = "config" /\ config = NoConfig
  /\ memory = <<>> /\ lengths = <<>> /\ expected = <<>>

\* `XDP_PACKET_HEADROOM + self.config.frame_headroom`, a u32 addition.
TotalHeadroom(headroom) == (XDP_PACKET_HEADROOM + headroom) % Modulus

\* Mutant: the addition is a wrapping_add in every build.
HeadroomWrapsUnseen(headroom) == FALSE

HeadroomOverflows(headroom) == XDP_PACKET_HEADROOM + headroom >= Modulus

\* ConfigBuilder::build with the given frame size and headroom.
Build ==
  /\ phase = "config"
  /\ \E size \in 0 .. MaxFrameSize, headroom \in Headrooms :
       /\ ValidFrameSize(size)
       /\ config' = [frame_size |-> size, frame_headroom |-> headroom]
       /\ phase' = IF OverflowChecks /\ HeadroomOverflows(headroom) THEN "panicked"
                   ELSE IF TotalHeadroom(headroom) > size THEN "rejected"
                   ELSE "built"
  /\ UNCHANGED <<memory, lengths, expected>>

\* The client tries again with other values.
Reconfigure ==
  /\ phase = "rejected"
  /\ phase' = "config" /\ config' = NoConfig
  /\ UNCHANGED <<memory, lengths, expected>>

\* Config::mtu, again in u32.
Mtu(c) == (c.frame_size - TotalHeadroom(c.frame_headroom)) % Modulus

\* FrameLayout: the same dimensions as usizes.
LayoutFrameSize(c) == XDP_PACKET_HEADROOM + c.frame_headroom + Mtu(c)

\* UmemRegion::new: the length of the region.
RegionLen(c) == FrameCount * LayoutFrameSize(c)

-----------------------------------------------------------------------------
(* Frames and their segments *)

\* The address Umem::new puts into the descriptor of frame f: its data segment.
Addr(c, f) == f * LayoutFrameSize(c) + XDP_PACKET_HEADROOM + c.frame_headroom

\* Mutant: both segments start at the descriptor's address.
PtrIgnoresSegment(c, f, seg) == Addr(c, f)

\* headroom_ptr and data_ptr.
Ptr(c, f, seg) == IF seg = "headroom" THEN Addr(c, f) - c.frame_headroom ELSE Addr(c, f)

\* The length of the slice the mutable accessors create at that pointer.
Cap(c, seg) == IF seg = "headroom" THEN c.frame_headroom ELSE Mtu(c)

\* Umem::new: map the (zeroed) region and hand out one descriptor per frame.
NewUmem ==
  /\ phase = "built"
  /\ phase' = "mapped"
  /\ memory' = [a \in 0 .. (RegionLen(config) - 1) |-> 0]
  /\ lengths' = [f \in Frames |-> [headroom |-> 0, data |-> 0]]
  /\ expected' = [f \in Frames |->
                    [seg \in Segments |-> [k \in 0 .. (Cap(config, seg) - 1) |-> 0]]]
  /\ UNCHANGED config

-----------------------------------------------------------------------------
(* Access through segments *)

\* The bytes of buf laid over a segment from position pos on.
Overlay(old, pos, buf) ==
  [k \in DOMAIN old |-> IF k \in pos .. (pos + Len(buf) - 1) THEN buf[k - pos + 1] ELSE old[k]]

\* A store of buf at offset pos of segment seg of frame f: through the pointer
\* in memory, and in the reference.
Store(f, seg, pos, buf) ==
  /\ memory' = Overlay(memory, Ptr(config, f, seg) + pos, buf)
  /\ expected' = [expected EXCEPT ![f][seg] = Overlay(@, pos, buf)]

Buffers == UNION {[1 .. n -> Bytes] : n \in 0 .. MaxWrite}

\* Cursor::write: where it starts, and how much of a buffer of n bytes fits.
WritePos(f, seg) == Min({lengths[f][seg], Cap(config, seg)})
WriteAmount(f, seg, n) == Min({n, Cap(config, seg) - WritePos(f, seg)})

\* write: store what fits and advance the segment's length by that much.
Write(f, seg, buf) ==
  LET amt == WriteAmount(f, seg, Len(buf))
  IN /\ Store(f, seg, WritePos(f, seg), SubSeq(buf, 1, amt))
     /\ lengths' = [lengths EXCEPT ![f][seg] = @ + amt]

CursorWrite ==
  /\ phase = "mapped"
  /\ \E f \in Frames, seg \in Segments, buf \in Buffers : Write(f, seg, buf)
  /\ UNCHANGED <<phase, config>>

\* write_vectored: the buffers one after the other, up to the first that does
\* not fit entirely.
CursorWriteVectored ==
  /\ phase = "mapped"
  /\ \E f \in Frames, seg \in Segments, first \in Buffers, second \in Buffers :
       IF WriteAmount(f, seg, Len(first)) < Len(first)
         THEN Write(f, seg, first)
         ELSE Write(f, seg, first \o second)
  /\ UNCHANGED <<phase, config>>

\* Mutant: set_pos takes any position.
SetPosUnchecked ==
  /\ phase = "mapped"
  /\ \E f \in Frames, seg \in Segments, pos \in 0 .. (MaxFrameSize + 1) :
       lengths' = [lengths EXCEPT ![f][seg] = pos]
  /\ UNCHANGED <<phase, config, memory, expected>>

\* set_pos: the position, and with it the length, stays within the buffer.
CursorSetPos ==
  /\ phase = "mapped"
  /\ \E f \in Frames, seg \in Segments, pos \in 0 .. (MaxFrameSize + 1) :
       lengths' = [lengths EXCEPT ![f][seg] = Min({pos, Cap(config, seg)})]
  /\ UNCHANGED <<phase, config, memory, expected>>

\* zero_out: the whole buffer, whatever the current length.
CursorZeroOut ==
  /\ phase = "mapped"
  /\ \E f \in Frames, seg \in Segments :
       /\ Store(f, seg, 0, [k \in 1 .. Cap(config, seg) |-> 0])
       /\ lengths' = [lengths EXCEPT ![f][seg] = 0]
  /\ UNCHANGED <<phase, config>>

\* contents_mut: in-place changes up to the current length.
ContentsMut ==
  /\ phase = "mapped"
  /\ \E f \in Frames, seg \in Segments, b \in Bytes :
       \E pos \in 0 .. (lengths[f][seg] - 1) : Store(f, seg, pos, <<b>>)
  /\ UNCHANGED <<phase, config, lengths>>

\* A packet arrives in frame f: the kernel stores at most mtu bytes at the
\* frame's address, and RxQueue::consume sets both lengths.
Receive ==
  /\ phase = "mapped"
  /\ \E f \in Frames, b \in Bytes : \E n \in 0 .. Mtu(config) :
       /\ Store(f, "data", 0, [k \in 1 .. n |-> b])
       /\ lengths' = [lengths EXCEPT ![f] = [headroom |-> 0, data |-> n]]
  /\ UNCHANGED <<phase, config>>

\* Frame f has been sent: CompQueue::consume resets both lengths.
Complete ==
  /\ phase = "mapped"
  /\ \E f \in Frames : lengths' = [lengths EXCEPT ![f] = [headroom |-> 0, data |-> 0]]
  /\ UNCHANGED <<phase, config, memory, expected>>

Next ==
  \/ Build \/ Reconfigure \/ NewUmem
  \/ CursorWrite \/ CursorWriteVectored \/ CursorSetPos \/ CursorZeroOut
  \/ ContentsMut \/ Receive \/ Complete

Spec == Init /\ [][Next]_vars

-----------------------------------------------------------------------------
(* Properties *)

\* build refuses a configuration "if the requested frame headroom exceeds the
\* frame size": what it accepts leaves room for both headrooms in a frame.
BuildRejectsExcessHeadroom ==
  phase \in {"built", "mapped"} =>
    XDP_PACKET_HEADROOM + config.frame_headroom <= config.frame_size

\* The frames the library computes are the frames the kernel is told about:
\* FrameLayout's frame size, a sum in usize, is the configured one.
LayoutMatchesConfig ==
  phase \in {"built", "mapped"} => LayoutFrameSize(config) = config.frame_size

\* Whatever sequence of cursor operations, receptions and completions a frame
\* goes through, "`headroom` will always be less than or equal to
\* `frame_headroom`, and `data` less than or equal to `mtu`": the slicing
\* &buf[..len] in contents and contents_mut cannot panic.
LengthsFit ==
  phase = "mapped" =>
    \A f \in Frames, seg \in Segments : lengths[f][seg] \in 0 .. Cap(config, seg)

\* Frames and segments are isolated although they are raw pointers into one
\* region: each segment holds what was stored through it and nothing else, and
\* no access leaves the region.
SegmentsAreIsolated ==
  phase = "mapped" =>
    \A f \in Frames, seg \in Segments :
      \A k \in 0 .. (Cap(config, seg) - 1) :
        /\ Ptr(config, f, seg) + k \in DOMAIN memory
        /\ memory[Ptr(config, f, seg) + k] = expected[f][seg][k]

=============================================================================
