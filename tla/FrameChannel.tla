---------------------------- MODULE FrameChannel ----------------------------
(***************************************************************************)
(* What the dynamic link and unlink of the filter bin promises to the      *)
(* stream: between the detector and nvvidconv2 it is a channel that keeps  *)
(* the order of the items, repeats none, and loses an item only where the  *)
(* filter was asked for, one item for one request.                         *)
(*                                                                         *)
(* The specification knows nothing of probes, pads and bins.  That         *)
(* FpFilterControl implements it is its property IsFrameChannel.           *)
(***************************************************************************)
EXTENDS Naturals, Sequences, FiniteSets, Functions

CONSTANT Last    \* the number of the last item, the EOS of the stream

VARIABLES
  next,       \* the number of the item the sender sends next
  flight,     \* the items sent and not arrived, oldest first
  arrived,    \* history: the items that arrived, in the order they did
  owed,       \* items the channel may still lose, one for each request
  asked       \* history: how often the filter was asked for

channelVars == <<next, flight, arrived, owed, asked>>

ChannelTypeOK ==
  /\ next \in Nat
  /\ flight \in Seq(Nat)
  /\ arrived \in Seq(Nat)
  /\ owed \in Nat
  /\ asked \in Nat

ChannelInit ==
  /\ next = 1
  /\ flight = <<>>
  /\ arrived = <<>>
  /\ owed = 0
  /\ asked = 0

\* The filter is asked for.
Request ==
  /\ owed' = owed + 1
  /\ asked' = asked + 1
  /\ UNCHANGED <<next, flight, arrived>>

Send ==
  /\ next <= Last
  /\ next' = next + 1
  /\ flight' = Append(flight, next)
  /\ UNCHANGED <<arrived, owed, asked>>

\* With nothing in flight an item may arrive in the step that sends it.
SendThrough ==
  /\ next <= Last
  /\ flight = <<>>
  /\ next' = next + 1
  /\ arrived' = Append(arrived, next)
  /\ UNCHANGED <<flight, owed, asked>>

\* A request is served.  The item the sender is at may be lost.
Serve ==
  /\ next <= Last
  /\ owed > 0
  /\ owed' = owed - 1
  /\ next' \in {next, next + 1}
  /\ UNCHANGED <<flight, arrived, asked>>

Arrive ==
  /\ flight # <<>>
  /\ arrived' = Append(arrived, Head(flight))
  /\ flight' = Tail(flight)
  /\ UNCHANGED <<next, owed, asked>>

ChannelNext == Request \/ Send \/ SendThrough \/ Serve \/ Arrive

Channel == ChannelInit /\ [][ChannelNext]_channelVars

-----------------------------------------------------------------------------
\* Items arrive in the order they were sent and none arrives twice.
ArrivedInOrder ==
  \A i, j \in DOMAIN arrived : i < j => arrived[i] < arrived[j]

\* What was sent and will not arrive.
Lost == {i \in 1..(next - 1) : i \notin Range(arrived) \cup Range(flight)}

\* No more items are lost than the filter was asked for, and as long as a
\* request is not served its item is not lost.
FewLost == Cardinality(Lost) + owed <= asked
=============================================================================
