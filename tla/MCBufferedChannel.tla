-------------------------- MODULE MCBufferedChannel --------------------------
(***************************************************************************)
(* Small instances of BufferedChannel: a behaviour uses either a channel   *)
(* whose ring has a slot to spare, with two senders and two receivers, or  *)
(* one whose ring is exactly as long as its capacity, with one sender      *)
(* whose values go round it more than once and os threads that receive.    *)
(***************************************************************************)
EXTENDS Naturals

CONSTANTS
  Rings,                                        \* of {"spare", "exact"}
  Sender, Receiver, Green, Capacity, MaxSend,   \* the channel with a spare slot
  RingSender, RingCapacity, RingSends,          \* the exact one
  NoProc, NoValue

VARIABLES
  ring,        \* which channel
  enq, deq, seq, cell, closed, gate, lock, list, pc, pos, val, aim, hand, word,
  handoff, sends, got

bvars == <<enq, deq, seq, cell, closed, gate, lock, list, pc, pos, val, aim,
           hand, word, handoff, sends, got>>

S == INSTANCE BufferedChannel
E == INSTANCE BufferedChannel
       WITH Sender <- RingSender, Green <- Green \cap RingSender, Capacity <- RingCapacity,
            MaxSend <- RingSends

ASSUME ChannelAssumption ==
  /\ Rings \subseteq {"spare", "exact"}
  /\ S!BufferedAssumption /\ S!SlotsFit
  /\ E!BufferedAssumption /\ E!SlotsFit

ChannelInit == \/ ring \in Rings \cap {"spare"} /\ S!Init
               \/ ring \in Rings \cap {"exact"} /\ E!Init

ChannelNext == \/ ring = "spare" /\ S!Next /\ UNCHANGED ring
               \/ ring = "exact" /\ E!Next /\ UNCHANGED ring

ChannelSpec == ChannelInit /\ [][ChannelNext]_<<ring, bvars>>

\* The properties, of the channel in use.
TypeOK == IF ring = "spare" THEN S!TypeOK ELSE E!TypeOK
ParkedSound == IF ring = "spare" THEN S!HandoffHome /\ S!GateCounts
                                 ELSE E!HandoffHome /\ E!GateCounts
NoMissedWake == IF ring = "spare" THEN S!NoMissedWake ELSE E!NoMissedWake

\* The channel in use implements BoundedFifo: its first state and its steps.
FifoSpec ==
  /\ IF ring = "spare" THEN S!Fifo!Init ELSE E!Fifo!Init
  /\ [][IF ring = "spare" THEN [S!Fifo!Next]_(S!Fifo!vars)
                          ELSE [E!Fifo!Next]_(E!Fifo!vars)]_<<ring, bvars>>
=============================================================================
