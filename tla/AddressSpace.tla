---------------------------- MODULE AddressSpace ----------------------------
(***************************************************************************)
(* What the kernel expects of memory/mapper.c: pages map to frames, and an *)
(* anonymous page gets a frame that nobody uses.                           *)
(***************************************************************************)
CONSTANTS Page, Frame, NoFrame

VARIABLES
    frameOf,   \* the frame a page maps to, or NoFrame
    free       \* the frames the allocator may hand out

\* The loader has mapped what it likes.
Init ==
    /\ frameOf \in [Page -> Frame \cup {NoFrame}]
    /\ free = {}

\* Only frames that no page maps to any more become free.
FreesUnused == \A f \in free' \ free, v \in Page : frameOf'[v] # f

AddMemory ==
    /\ free \subseteq free'
    /\ FreesUnused
    /\ UNCHANGED frameOf

\* The frame that v maps to so far may become free, if no other page maps to it.
MapFrame(v, f) ==
    /\ FreesUnused
    /\ f \notin free
    /\ frameOf' = [frameOf EXCEPT ![v] = f]
    /\ free' \in {free, free \cup ({frameOf[v]} \ {NoFrame, f})}

MapFresh(v) ==
    /\ frameOf[v] = NoFrame
    /\ \E f \in free : /\ frameOf' = [frameOf EXCEPT ![v] = f]
                       /\ free' = free \ {f}

Unmap(v) ==
    /\ frameOf' = [frameOf EXCEPT ![v] = NoFrame]
    /\ UNCHANGED free

Next ==
    \/ AddMemory
    \/ \E v \in Page : MapFresh(v) \/ Unmap(v) \/ \E f \in Frame : MapFrame(v, f)

Spec == Init /\ [][Next]_<<frameOf, free>>
=============================================================================
