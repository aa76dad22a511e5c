---- MODULE FrameSender ----
(***************************************************************************)
(* What ec_io promises its two clients (the HTTP client and the XMPP       *)
(* transport): a connection that carries frames one at a time.  A frame is *)
(* identified by the number of the ec_io_send call that offered it.  At    *)
(* most one frame is unacknowledged; the frames that wait are sent in the  *)
(* order they were offered; a frame is put on the wire at most once.  A    *)
(* frame may be refused, and a connection may be broken or replaced.       *)
(***************************************************************************)
EXTENDS Naturals, Sequences

CONSTANT Capacity           \* how many frames may wait, a positive number

VARIABLES
    offered,                \* number of frames offered so far
    pending,                \* the frames that wait, oldest first
    out,                    \* the unacknowledged frame: <<>> or <<f>>
    wire                    \* the frames sent on the current connection

chVars == <<offered, pending, out, wire>>

ChInit ==
    /\ offered = 0
    /\ pending = <<>>
    /\ out = <<>>
    /\ wire = <<>>

\* A new frame goes straight to the network: nothing waits, nothing is out.
SendNow ==
    /\ out = <<>> /\ pending = <<>>
    /\ offered' = offered + 1
    /\ out' = <<offered'>>
    /\ wire' = Append(wire, offered')
    /\ UNCHANGED pending

\* A new frame waits.
Wait ==
    /\ Len(pending) < Capacity
    /\ offered' = offered + 1
    /\ pending' = Append(pending, offered')
    /\ UNCHANGED <<out, wire>>

\* A new frame is refused.
Refuse ==
    /\ offered' = offered + 1
    /\ UNCHANGED <<pending, out, wire>>

\* The frame that is out is acknowledged, and the oldest frame that waits, if
\* the network takes it, becomes the one that is out.
Acknowledge ==
    /\ out # <<>>
    /\ \/ /\ out' = <<>>
          /\ UNCHANGED <<pending, wire>>
       \/ /\ pending # <<>>
          /\ out' = <<Head(pending)>>
          /\ wire' = Append(wire, Head(pending))
          /\ pending' = Tail(pending)
    /\ UNCHANGED offered

\* The connection breaks: the frame that is out is lost.
Break ==
    /\ out' = <<>>
    /\ UNCHANGED <<offered, pending, wire>>

\* The connection is given up, for a new one or for none.
Abandon ==
    /\ pending' = <<>>
    /\ out' = <<>>
    /\ wire' = <<>>
    /\ UNCHANGED offered

ChNext == SendNow \/ Wait \/ Refuse \/ Acknowledge \/ Break \/ Abandon

ChSpec == ChInit /\ [][ChNext]_chVars
====
