---------------------------- MODULE FileService -----------------------------
(***************************************************************************)
(* What the message-queue file server promises its clients, and nothing    *)
(* about how: a client asks for one file; it is told that the file cannot  *)
(* be opened, or it gets the bytes in order and is told that it has the    *)
(* whole file, or it is abandoned without an answer.                       *)
(***************************************************************************)
EXTENDS Integers

CONSTANTS Clients, Paths, Openable, Size

VARIABLES
    file,   \* the file each client wants
    phase,  \* what it knows
    got     \* the bytes it has
svars == <<file, phase, got>>

SInit ==
    /\ file \in [Clients -> Paths]
    /\ phase = [c \in Clients |-> "idle"]
    /\ got = [c \in Clients |-> 0]

Ask(c) ==
    /\ phase[c] = "idle"
    /\ phase' = [phase EXCEPT ![c] = "asked"]
    /\ UNCHANGED <<file, got>>

Deliver(c) ==
    /\ phase[c] = "asked" /\ file[c] \in Openable
    /\ \E n \in 1..(Size[file[c]] - got[c]) : got' = [got EXCEPT ![c] = @ + n]
    /\ UNCHANGED <<file, phase>>

\* The whole file is there.
Complete(c) ==
    /\ phase[c] = "asked" /\ file[c] \in Openable
    /\ got[c] = Size[file[c]]
    /\ phase' = [phase EXCEPT ![c] = "complete"]
    /\ UNCHANGED <<file, got>>

Refuse(c) ==
    /\ phase[c] = "asked" /\ file[c] \notin Openable
    /\ phase' = [phase EXCEPT ![c] = "refused"]
    /\ UNCHANGED <<file, got>>

\* The client dies before it has its answer.
Leave(c) ==
    /\ phase[c] \in {"idle", "asked"}
    /\ phase' = [phase EXCEPT ![c] = "left"]
    /\ UNCHANGED <<file, got>>

SNext ==
    \E c \in Clients : Ask(c) \/ Deliver(c) \/ Complete(c) \/ Refuse(c) \/ Leave(c)

SSpec == SInit /\ [][SNext]_svars

\* With no failure in the environment every client gets its answer.
Answer(c) == Deliver(c) \/ Complete(c) \/ Refuse(c)
SFairSpec == SSpec /\ \A c \in Clients : WF_svars(Answer(c))
=============================================================================
