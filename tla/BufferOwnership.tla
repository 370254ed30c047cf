---------------------------- MODULE BufferOwnership ----------------------------
(***************************************************************************)
(* What the zero-copy capture path promises, with no mechanism in it: at    *)
(* any time a camera buffer belongs to the driver or to the application;    *)
(* consumers read a buffer only while the application has it; and a buffer  *)
(* goes back to the driver only when its last reader has let go of it.      *)
(***************************************************************************)
CONSTANTS
    Buffers,    \* the memory-mapped V4L2 buffers
    Consumers   \* the parties a frame is shared with

VARIABLES
    owner,      \* owner[b]: who may touch the memory of b
    readers     \* readers[b]: the consumers that still read the frame in b

ownershipVars == <<owner, readers>>

Owners == {"idle", "driver", "application"}

OwnershipInit ==
    /\ owner = [b \in Buffers |-> "idle"]
    /\ readers = [b \in Buffers |-> {}]

\* Streaming starts, or fails half way: some idle buffers go to the driver.
HandOver(Given) ==
    /\ \A b \in Given : owner[b] = "idle"
    /\ owner' = [b \in Buffers |-> IF b \in Given THEN "driver" ELSE owner[b]]
    /\ UNCHANGED readers

Dequeue(b) ==
    /\ owner[b] = "driver"
    /\ owner' = [owner EXCEPT ![b] = "application"]
    /\ UNCHANGED readers

Share(b, C) ==
    /\ owner[b] = "application"
    /\ readers[b] = {}
    /\ readers' = [readers EXCEPT ![b] = C]
    /\ UNCHANGED owner

LetGo(b, c) ==
    /\ c \in readers[b]
    /\ readers' = [readers EXCEPT ![b] = @ \ {c}]
    /\ UNCHANGED owner

Return(b) ==
    /\ owner[b] = "application"
    /\ readers[b] = {}
    /\ owner' = [owner EXCEPT ![b] = "driver"]
    /\ UNCHANGED readers

\* The stream ends: nobody may still be reading.
Withdraw ==
    /\ \A b \in Buffers : readers[b] = {}
    /\ owner' = [b \in Buffers |-> "idle"]
    /\ UNCHANGED readers

OwnershipNext ==
    \/ \E Given \in SUBSET Buffers : HandOver(Given)
    \/ \E b \in Buffers : Dequeue(b) \/ Return(b)
    \/ \E b \in Buffers, C \in SUBSET Consumers : Share(b, C)
    \/ \E b \in Buffers, c \in Consumers : LetGo(b, c)
    \/ Withdraw

OwnershipSpec == OwnershipInit /\ [][OwnershipNext]_ownershipVars
================================================================================
