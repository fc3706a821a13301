---------------------------- MODULE ChannelProofs ----------------------------
(***************************************************************************)
(* The theorems about buffered channels, of MCBufferedChannel: whichever   *)
(* of its two channels a behaviour uses, the one with a spare slot or the  *)
(* one with an exact ring, what BufferedChannelProofs shows for every      *)
(* channel holds of it.                                                    *)
(***************************************************************************)
EXTENDS MCBufferedChannel, TLAPS

SProofs == INSTANCE BufferedChannelProofs
EProofs == INSTANCE BufferedChannelProofs
             WITH Sender <- RingSender, Green <- Green \cap RingSender,
                  Capacity <- RingCapacity, MaxSend <- RingSends

\* The channel in use.
Spare == ring = "spare"
Exact == ring = "exact"

\* It is one of the two.
LEMMA OneOfTwo == ChannelInit => Spare \/ Exact
BY DEF ChannelInit, Spare, Exact

-----------------------------------------------------------------------------
\* The modules the theorems are about are those MCBufferedChannel instantiates.
\* Of the channel with a spare slot, the first state ...
LEMMA SpareInit == S!Init => SProofs!Init
BY DEF S!Init, S!SlotCount, S!Value, S!Proc, S!Role, S!Sched!RunningWord, S!Sched!FreshWord,
         S!Sched!Clear, SProofs!Init, SProofs!SlotCount, SProofs!Value, SProofs!Proc,
         SProofs!Role, SProofs!Sched!RunningWord, SProofs!Sched!FreshWord,
         SProofs!Sched!Clear

\* ... and the steps are the ones proved about ...
LEMMA SpareNext == [S!Next]_S!vars => [SProofs!Next]_SProofs!vars
BY DEF S!Next, S!Step, S!vars, S!ringVars, S!Send, S!Recv, S!Check, S!Try, S!Published, S!Slow,
         S!Retry, S!Republished, S!Recheck, S!Register, S!Park, S!Resume, S!Spurious,
         S!Relock, S!TakeHandoff, S!GateShut, S!GateOpen, S!WakeHandoff, S!Fetch,
         S!Deposit, S!HandoffEnqueue, S!WakeRole, S!Close, S!ParkElsewhere,
         S!ResumeElsewhere, S!StrayWake, S!Goto, S!Proc, S!Value, S!Role, S!RoleOf,
         S!Other, S!SlotCount, S!Exact, S!Slot, S!Room, S!HeadReady, S!ClaimEnq,
         S!ClaimDeq, S!PublishEnq, S!PublishDeq, S!Taken, S!CanClaim, S!Claim, S!Publish,
         S!Handed, S!Deliver, S!Leave, S!InHand, S!Woken, S!WakeAll, S!OsCounted,
         S!OsAsleep, S!Sched!Claimable, S!Sched!WokenWord, S!Sched!YieldedWord,
         S!Sched!RunningWord, S!Sched!ClaimedWord, S!Sched!Clear, S!Sched!Pendable,
         S!Sched!PendedWord, SProofs!Next, SProofs!Step, SProofs!vars, SProofs!ringVars,
         SProofs!Send, SProofs!Recv, SProofs!Check, SProofs!Try, SProofs!Published,
         SProofs!Slow, SProofs!Retry, SProofs!Republished, SProofs!Recheck,
         SProofs!Register, SProofs!Park, SProofs!Resume, SProofs!Spurious, SProofs!Relock,
         SProofs!TakeHandoff, SProofs!GateShut, SProofs!GateOpen, SProofs!WakeHandoff,
         SProofs!Fetch, SProofs!Deposit, SProofs!HandoffEnqueue, SProofs!WakeRole,
         SProofs!Close, SProofs!ParkElsewhere, SProofs!ResumeElsewhere, SProofs!StrayWake,
         SProofs!Goto, SProofs!Proc, SProofs!Value, SProofs!Role, SProofs!RoleOf,
         SProofs!Other, SProofs!SlotCount, SProofs!Exact, SProofs!Slot, SProofs!Room,
         SProofs!HeadReady, SProofs!ClaimEnq, SProofs!ClaimDeq, SProofs!PublishEnq,
         SProofs!PublishDeq, SProofs!Taken, SProofs!CanClaim, SProofs!Claim,
         SProofs!Publish, SProofs!Handed, SProofs!Deliver, SProofs!Leave, SProofs!InHand,
         SProofs!Woken, SProofs!WakeAll, SProofs!OsCounted, SProofs!OsAsleep,
         SProofs!Sched!Claimable, SProofs!Sched!WokenWord, SProofs!Sched!YieldedWord,
         SProofs!Sched!RunningWord, SProofs!Sched!ClaimedWord, SProofs!Sched!Clear,
         SProofs!Sched!Pendable, SProofs!Sched!PendedWord

\* ... so are its types, its waiter lists and its gates ...
LEMMA SpareStates ==
  /\ SProofs!TypeOK => S!TypeOK
  /\ SProofs!HandoffHome /\ SProofs!GateCounts => S!HandoffHome /\ S!GateCounts
<1>1. SProofs!TypeOK => S!TypeOK
  BY DEF S!TypeOK, S!Label, S!SlotCount, S!Value, S!Proc, S!Role, S!Sched!Word, S!Sched!RunState,
         SProofs!TypeOK, SProofs!Label, SProofs!SlotCount, SProofs!Value, SProofs!Proc,
         SProofs!Role, SProofs!Sched!Word, SProofs!Sched!RunState
<1>2. SProofs!HandoffHome /\ SProofs!GateCounts => S!HandoffHome /\ S!GateCounts
  BY DEF S!HandoffHome, S!GateCounts, S!Role, S!RoleOf, S!Proc, S!Value, S!InHand, S!Cardinality,
         SProofs!HandoffHome, SProofs!GateCounts, SProofs!Role, SProofs!RoleOf,
         SProofs!Proc, SProofs!Value, SProofs!InHand, SProofs!Cardinality
<1>. QED
  BY <1>1, <1>2

\* ... so is what a missed wake would be ...
LEMMA SpareWaits == SProofs!NoMissedWake => S!NoMissedWake
BY DEF S!NoMissedWake, S!Quiet, S!Parked, S!CanClaim, S!Room, S!HeadReady, S!Exact, S!Slot,
         S!SlotCount, S!Proc, SProofs!NoMissedWake, SProofs!Quiet, SProofs!Parked,
         SProofs!CanClaim, SProofs!Room, SProofs!HeadReady, SProofs!Exact, SProofs!Slot,
         SProofs!SlotCount, SProofs!Proc

\* ... the abstract queue is the same ...
LEMMA SpareFifo ==
  /\ SProofs!Fifo!Init => S!Fifo!Init
  /\ [SProofs!Fifo!Next]_(SProofs!Fifo!vars) => [S!Fifo!Next]_(S!Fifo!vars)
BY DEF S!Fifo!Init, S!Fifo!Next, S!Fifo!vars, S!Fifo!Put, S!Fifo!Take, S!Fifo!Deliver, S!fifoBar,
         S!heldBar, S!At, S!Taken, S!Slot, S!SlotCount, S!Proc, S!Value,
         SProofs!Fifo!Init, SProofs!Fifo!Next, SProofs!Fifo!vars, SProofs!Fifo!Put,
         SProofs!Fifo!Take, SProofs!Fifo!Deliver, SProofs!fifoBar, SProofs!heldBar,
         SProofs!At, SProofs!Taken, SProofs!Slot, SProofs!SlotCount, SProofs!Proc,
         SProofs!Value

\* ... and its constants are what the theorems assume.
LEMMA SpareBounds == SProofs!BufferedAssumption /\ SProofs!SlotsFit
BY ChannelAssumption DEF S!BufferedAssumption, S!SlotsFit, S!SlotCount, S!Value, S!Proc,
       S!IsFiniteSet,
       SProofs!BufferedAssumption, SProofs!SlotsFit, SProofs!SlotCount, SProofs!Value,
       SProofs!Proc, SProofs!IsFiniteSet

\* Which channel a behaviour uses does not change, so it is a behaviour of it.
LEMMA SparePart == ChannelSpec /\ Spare => SProofs!Spec /\ []Spare
<1>1. ChannelInit /\ Spare => SProofs!Init
  BY SpareInit DEF ChannelInit, Spare
<1>2. Spare /\ [ChannelNext]_<<ring, bvars>> => Spare' /\ [SProofs!Next]_SProofs!vars
  <2>1. Spare /\ [ChannelNext]_<<ring, bvars>> => Spare' /\ [S!Next]_S!vars
    BY DEF ChannelNext, Spare, bvars, S!vars, S!ringVars
  <2>. QED
    BY <2>1, SpareNext
<1>. QED
  BY <1>1, <1>2, PTL DEF ChannelSpec, SProofs!Spec

-----------------------------------------------------------------------------

\* Of the one with an exact ring, the first state ...
LEMMA ExactInit == E!Init => EProofs!Init
BY DEF E!Init, E!SlotCount, E!Value, E!Proc, E!Role, E!Sched!RunningWord, E!Sched!FreshWord,
         E!Sched!Clear, EProofs!Init, EProofs!SlotCount, EProofs!Value, EProofs!Proc,
         EProofs!Role, EProofs!Sched!RunningWord, EProofs!Sched!FreshWord,
         EProofs!Sched!Clear

\* ... and the steps are the ones proved about ...
LEMMA ExactNext == [E!Next]_E!vars => [EProofs!Next]_EProofs!vars
BY DEF E!Next, E!Step, E!vars, E!ringVars, E!Send, E!Recv, E!Check, E!Try, E!Published, E!Slow,
         E!Retry, E!Republished, E!Recheck, E!Register, E!Park, E!Resume, E!Spurious,
         E!Relock, E!TakeHandoff, E!GateShut, E!GateOpen, E!WakeHandoff, E!Fetch,
         E!Deposit, E!HandoffEnqueue, E!WakeRole, E!Close, E!ParkElsewhere,
         E!ResumeElsewhere, E!StrayWake, E!Goto, E!Proc, E!Value, E!Role, E!RoleOf,
         E!Other, E!SlotCount, E!Exact, E!Slot, E!Room, E!HeadReady, E!ClaimEnq,
         E!ClaimDeq, E!PublishEnq, E!PublishDeq, E!Taken, E!CanClaim, E!Claim, E!Publish,
         E!Handed, E!Deliver, E!Leave, E!InHand, E!Woken, E!WakeAll, E!OsCounted,
         E!OsAsleep, E!Sched!Claimable, E!Sched!WokenWord, E!Sched!YieldedWord,
         E!Sched!RunningWord, E!Sched!ClaimedWord, E!Sched!Clear, E!Sched!Pendable,
         E!Sched!PendedWord, EProofs!Next, EProofs!Step, EProofs!vars, EProofs!ringVars,
         EProofs!Send, EProofs!Recv, EProofs!Check, EProofs!Try, EProofs!Published,
         EProofs!Slow, EProofs!Retry, EProofs!Republished, EProofs!Recheck,
         EProofs!Register, EProofs!Park, EProofs!Resume, EProofs!Spurious, EProofs!Relock,
         EProofs!TakeHandoff, EProofs!GateShut, EProofs!GateOpen, EProofs!WakeHandoff,
         EProofs!Fetch, EProofs!Deposit, EProofs!HandoffEnqueue, EProofs!WakeRole,
         EProofs!Close, EProofs!ParkElsewhere, EProofs!ResumeElsewhere, EProofs!StrayWake,
         EProofs!Goto, EProofs!Proc, EProofs!Value, EProofs!Role, EProofs!RoleOf,
         EProofs!Other, EProofs!SlotCount, EProofs!Exact, EProofs!Slot, EProofs!Room,
         EProofs!HeadReady, EProofs!ClaimEnq, EProofs!ClaimDeq, EProofs!PublishEnq,
         EProofs!PublishDeq, EProofs!Taken, EProofs!CanClaim, EProofs!Claim,
         EProofs!Publish, EProofs!Handed, EProofs!Deliver, EProofs!Leave, EProofs!InHand,
         EProofs!Woken, EProofs!WakeAll, EProofs!OsCounted, EProofs!OsAsleep,
         EProofs!Sched!Claimable, EProofs!Sched!WokenWord, EProofs!Sched!YieldedWord,
         EProofs!Sched!RunningWord, EProofs!Sched!ClaimedWord, EProofs!Sched!Clear,
         EProofs!Sched!Pendable, EProofs!Sched!PendedWord

\* ... so are its types, its waiter lists and its gates ...
LEMMA ExactStates ==
  /\ EProofs!TypeOK => E!TypeOK
  /\ EProofs!HandoffHome /\ EProofs!GateCounts => E!HandoffHome /\ E!GateCounts
<1>1. EProofs!TypeOK => E!TypeOK
  BY DEF E!TypeOK, E!Label, E!SlotCount, E!Value, E!Proc, E!Role, E!Sched!Word, E!Sched!RunState,
         EProofs!TypeOK, EProofs!Label, EProofs!SlotCount, EProofs!Value, EProofs!Proc,
         EProofs!Role, EProofs!Sched!Word, EProofs!Sched!RunState
<1>2. EProofs!HandoffHome /\ EProofs!GateCounts => E!HandoffHome /\ E!GateCounts
  BY DEF E!HandoffHome, E!GateCounts, E!Role, E!RoleOf, E!Proc, E!Value, E!InHand, E!Cardinality,
         EProofs!HandoffHome, EProofs!GateCounts, EProofs!Role, EProofs!RoleOf,
         EProofs!Proc, EProofs!Value, EProofs!InHand, EProofs!Cardinality
<1>. QED
  BY <1>1, <1>2

\* ... so is what a missed wake would be ...
LEMMA ExactWaits == EProofs!NoMissedWake => E!NoMissedWake
BY DEF E!NoMissedWake, E!Quiet, E!Parked, E!CanClaim, E!Room, E!HeadReady, E!Exact, E!Slot,
         E!SlotCount, E!Proc, EProofs!NoMissedWake, EProofs!Quiet, EProofs!Parked,
         EProofs!CanClaim, EProofs!Room, EProofs!HeadReady, EProofs!Exact, EProofs!Slot,
         EProofs!SlotCount, EProofs!Proc

\* ... the abstract queue is the same ...
LEMMA ExactFifo ==
  /\ EProofs!Fifo!Init => E!Fifo!Init
  /\ [EProofs!Fifo!Next]_(EProofs!Fifo!vars) => [E!Fifo!Next]_(E!Fifo!vars)
BY DEF E!Fifo!Init, E!Fifo!Next, E!Fifo!vars, E!Fifo!Put, E!Fifo!Take, E!Fifo!Deliver, E!fifoBar,
         E!heldBar, E!At, E!Taken, E!Slot, E!SlotCount, E!Proc, E!Value,
         EProofs!Fifo!Init, EProofs!Fifo!Next, EProofs!Fifo!vars, EProofs!Fifo!Put,
         EProofs!Fifo!Take, EProofs!Fifo!Deliver, EProofs!fifoBar, EProofs!heldBar,
         EProofs!At, EProofs!Taken, EProofs!Slot, EProofs!SlotCount, EProofs!Proc,
         EProofs!Value

\* ... and its constants are what the theorems assume.
LEMMA ExactBounds == EProofs!BufferedAssumption /\ EProofs!SlotsFit
BY ChannelAssumption DEF E!BufferedAssumption, E!SlotsFit, E!SlotCount, E!Value, E!Proc,
       E!IsFiniteSet,
       EProofs!BufferedAssumption, EProofs!SlotsFit, EProofs!SlotCount, EProofs!Value,
       EProofs!Proc, EProofs!IsFiniteSet

\* Which channel a behaviour uses does not change, so it is a behaviour of it.
LEMMA ExactPart == ChannelSpec /\ Exact => EProofs!Spec /\ []Exact
<1>1. ChannelInit /\ Exact => EProofs!Init
  BY ExactInit DEF ChannelInit, Exact
<1>2. Exact /\ [ChannelNext]_<<ring, bvars>> => Exact' /\ [EProofs!Next]_EProofs!vars
  <2>1. Exact /\ [ChannelNext]_<<ring, bvars>> => Exact' /\ [E!Next]_E!vars
    BY DEF ChannelNext, Exact, bvars, E!vars, E!ringVars
  <2>. QED
    BY <2>1, ExactNext
<1>. QED
  BY <1>1, <1>2, PTL DEF ChannelSpec, EProofs!Spec

-----------------------------------------------------------------------------

\* Every variable of the channel keeps its type, and a gate is never negative
\* (concurrency/channel.rs).
THEOREM TypesCorrect == ChannelSpec => []TypeOK
<1>1. SProofs!Spec => []SProofs!TypeOK
  BY SpareBounds, SProofs!TypeCorrect
<1>2. EProofs!Spec => []EProofs!TypeOK
  BY ExactBounds, EProofs!TypeCorrect
<1>3. Spare /\ SProofs!TypeOK => TypeOK
  BY SpareStates DEF Spare, TypeOK
<1>4. Exact /\ EProofs!TypeOK => TypeOK
  BY ExactStates DEF Exact, TypeOK
<1>. QED
  BY <1>1, <1>2, <1>3, <1>4, OneOfTwo, SparePart, ExactPart, PTL DEF ChannelSpec

\* A waiter list names only tasks inside this channel's parking section, a
\* value is handed only to a receiver that will take it before it does anything
\* else, and a gate counts exactly the operations parked, or about to be
\* (buffered_send, buffered_recv, wake_parked, wake_with).
THEOREM ParkedSoundHere == ChannelSpec => []ParkedSound
<1>1. SProofs!Spec => [](SProofs!HandoffHome /\ SProofs!GateCounts)
  BY SpareBounds, SProofs!ParkedSoundAlways
<1>2. EProofs!Spec => [](EProofs!HandoffHome /\ EProofs!GateCounts)
  BY ExactBounds, EProofs!ParkedSoundAlways
<1>3. Spare /\ SProofs!HandoffHome /\ SProofs!GateCounts => ParkedSound
  BY SpareStates DEF Spare, ParkedSound
<1>4. Exact /\ EProofs!HandoffHome /\ EProofs!GateCounts => ParkedSound
  BY ExactStates DEF Exact, ParkedSound
<1>. QED
  BY <1>1, <1>2, <1>3, <1>4, OneOfTwo, SparePart, ExactPart, PTL DEF ChannelSpec

\* When nothing is under way nobody is parked in front of what it waits for, and
\* nobody in a closed channel, if slots are published in the order of their
\* claims: with one place for a value, or one sender (wake_parked,
\* block_on_channel, pith_channel_close).
THEOREM NoMissedWakeHere ==
  ASSUME SProofs!InOrder, EProofs!InOrder
  PROVE  ChannelSpec => []NoMissedWake
<1>1. SProofs!Spec => []SProofs!NoMissedWake
  BY SpareBounds, SProofs!NoMissedWakeInOrder
<1>2. EProofs!Spec => []EProofs!NoMissedWake
  BY ExactBounds, EProofs!NoMissedWakeInOrder
<1>3. Spare /\ SProofs!NoMissedWake => NoMissedWake
  BY SpareWaits DEF Spare, NoMissedWake
<1>4. Exact /\ EProofs!NoMissedWake => NoMissedWake
  BY ExactWaits DEF Exact, NoMissedWake
<1>. QED
  BY <1>1, <1>2, <1>3, <1>4, OneOfTwo, SparePart, ExactPart, PTL DEF ChannelSpec

\* Both channels are bounded fifos that deliver a value at most once and lose
\* none on the way, whoever dequeues it (Ring::try_enqueue, try_dequeue,
\* wake_with, take_handoff).
THEOREM Refines == ChannelSpec => FifoSpec
<1>. DEFINE Moved == IF ring = "spare" THEN [S!Fifo!Next]_(S!Fifo!vars)
                                       ELSE [E!Fifo!Next]_(E!Fifo!vars)
<1>1. SProofs!Spec => SProofs!Fifo!Init /\ [][SProofs!Fifo!Next]_(SProofs!Fifo!vars)
  BY SpareBounds, SProofs!FifoRefined DEF SProofs!FifoSpec, SProofs!Fifo!Spec
<1>2. EProofs!Spec => EProofs!Fifo!Init /\ [][EProofs!Fifo!Next]_(EProofs!Fifo!vars)
  BY ExactBounds, EProofs!FifoRefined DEF EProofs!FifoSpec, EProofs!Fifo!Spec
<1>3. /\ Spare /\ SProofs!Fifo!Init => IF ring = "spare" THEN S!Fifo!Init ELSE E!Fifo!Init
      /\ Exact /\ EProofs!Fifo!Init => IF ring = "spare" THEN S!Fifo!Init ELSE E!Fifo!Init
  BY SpareFifo, ExactFifo DEF Spare, Exact
<1>4. Spare /\ [SProofs!Fifo!Next]_(SProofs!Fifo!vars) => [Moved]_<<ring, bvars>>
  BY SpareFifo DEF Spare
<1>5. Exact /\ [EProofs!Fifo!Next]_(EProofs!Fifo!vars) => [Moved]_<<ring, bvars>>
  BY ExactFifo DEF Exact
<1>. QED
  BY <1>1, <1>2, <1>3, <1>4, <1>5, OneOfTwo, SparePart, ExactPart, PTL
  DEF ChannelSpec, FifoSpec
=============================================================================
