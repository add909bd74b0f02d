------------------------- MODULE FrameChannelProofs -------------------------
(***************************************************************************)
(* The abstract channel keeps the order of its items and loses few, for    *)
(* every length of the stream and every number of requests.                *)
(***************************************************************************)
EXTENDS FrameChannel, QueueLemmas, FiniteSetTheorems

\* What has arrived is behind nothing in flight, what is in flight behind
\* nothing that is still to be sent.
Increasing(s) == \A i, j \in DOMAIN s : i < j => s[i] < s[j]

ChannelInv ==
  /\ ChannelTypeOK
  /\ Increasing(arrived)
  /\ Increasing(flight)
  /\ \A i \in DOMAIN arrived, j \in DOMAIN flight : arrived[i] < flight[j]
  /\ \A i \in DOMAIN arrived : arrived[i] < next
  /\ \A i \in DOMAIN flight : flight[i] < next

LEMMA ChannelInitInv == ChannelInit => ChannelInv
BY DEF ChannelInit, ChannelInv, ChannelTypeOK, Increasing

LEMMA ChannelNextInv == ChannelInv /\ [ChannelNext]_channelVars => ChannelInv'
<1> SUFFICES ASSUME ChannelInv, [ChannelNext]_channelVars PROVE ChannelInv'
  OBVIOUS
<1> USE DEF ChannelInv, ChannelTypeOK, Increasing
<1>1. CASE Request
  BY <1>1 DEF Request
<1>2. CASE Send
  <2>1. /\ next' = next + 1 /\ arrived' = arrived /\ owed' = owed
        /\ asked' = asked /\ flight' \in Seq(Nat)
    BY <1>2 DEF Send
  <2>2. /\ DOMAIN flight' = DOMAIN flight \cup {Len(flight) + 1}
        /\ DOMAIN flight = 1..Len(flight) /\ Len(flight) \in Nat
        /\ flight'[Len(flight) + 1] = next
        /\ \A i \in DOMAIN flight : flight'[i] = flight[i]
    BY <1>2 DEF Send
  <2>3. Increasing(flight)'
    BY <2>2
  <2>4. \A i \in DOMAIN arrived', j \in DOMAIN flight' : arrived'[i] < flight'[j]
    BY <2>1, <2>2
  <2>5. /\ \A i \in DOMAIN flight' : flight'[i] < next'
        /\ \A i \in DOMAIN arrived' : arrived'[i] < next'
    <3>1. next \in Nat /\ next < next'
      BY <2>1
    <3>2. ASSUME NEW i \in DOMAIN flight' PROVE flight'[i] < next'
      <4>1. CASE i \in DOMAIN flight
        <5>1. /\ flight'[i] = flight[i] /\ flight[i] \in Nat
              /\ flight[i] < next
          BY <2>2, <4>1
        <5>2. QED
          BY <2>1, <5>1
      <4>2. CASE i = Len(flight) + 1
        BY <2>2, <3>1, <4>2
      <4>3. QED
        BY <2>2, <4>1, <4>2
    <3>3. ASSUME NEW i \in DOMAIN arrived' PROVE arrived'[i] < next'
      BY <2>1
    <3>4. QED
      BY <3>2, <3>3
  <2>6. QED
    BY <2>1, <2>3, <2>4, <2>5
<1>3. CASE SendThrough
  BY <1>3 DEF SendThrough
<1>4. CASE Serve
  BY <1>4 DEF Serve
<1>5. CASE Arrive
  <2>1. /\ Head(flight) \in Nat /\ flight[1] = Head(flight)
        /\ 1 \in DOMAIN flight
    BY <1>5 DEF Arrive
  <2>2. /\ flight' \in Seq(Nat)
        /\ \A i \in DOMAIN flight' : i + 1 \in DOMAIN flight
                                   /\ flight'[i] = flight[i + 1]
    BY <1>5 DEF Arrive
  <2>3. /\ arrived' \in Seq(Nat)
        /\ Len(arrived') = Len(arrived) + 1
        /\ arrived'[Len(arrived) + 1] = flight[1]
        /\ \A i \in DOMAIN arrived : arrived'[i] = arrived[i]
        /\ DOMAIN arrived' = DOMAIN arrived \cup {Len(arrived) + 1}
    BY <1>5, <2>1 DEF Arrive
  <2>4. next' = next /\ owed' = owed /\ asked' = asked
    BY <1>5 DEF Arrive
  <2>5. DOMAIN flight' \subseteq Nat \ {0} /\ DOMAIN arrived = 1..Len(arrived)
    BY <2>2
  <2>6. Increasing(arrived)'
    BY <2>1, <2>3, <2>5, SMTT(30)
  <2>7. Increasing(flight)'
    BY <2>2, <2>5
  <2>8. \A i \in DOMAIN arrived', j \in DOMAIN flight' : arrived'[i] < flight'[j]
    <3> SUFFICES ASSUME NEW i \in DOMAIN arrived', NEW j \in DOMAIN flight'
                 PROVE  arrived'[i] < flight'[j]
      OBVIOUS
    <3>1. j + 1 \in DOMAIN flight /\ flight'[j] = flight[j + 1] /\ 1 < j + 1
      BY <2>2, <2>5
    <3>2. CASE i \in DOMAIN arrived
      BY <3>1, <3>2, <2>3
    <3>3. CASE i = Len(arrived) + 1
      BY <3>1, <3>3, <2>1, <2>3
    <3>4. QED
      BY <3>2, <3>3, <2>3
  <2>9. /\ \A i \in DOMAIN arrived' : arrived'[i] < next'
        /\ \A i \in DOMAIN flight' : flight'[i] < next'
    BY <2>1, <2>2, <2>3, <2>4
  <2>10. QED
    BY <2>2, <2>3, <2>4, <2>6, <2>7, <2>8, <2>9
<1>6. CASE UNCHANGED channelVars
  BY <1>6 DEF channelVars
<1>7. QED
  BY <1>1, <1>2, <1>3, <1>4, <1>5, <1>6 DEF ChannelNext

\* Items arrive in the order they were sent, and none arrives twice.
THEOREM ChannelOrder == Channel => []ArrivedInOrder
<1>1. ChannelInv => ArrivedInOrder
  BY DEF ChannelInv, Increasing, ArrivedInOrder
<1>2. QED
  BY <1>1, ChannelInitInv, ChannelNextInv, PTL DEF Channel

-----------------------------------------------------------------------------
(* What is lost.                                                            *)

LEMMA LostFinite ==
  ASSUME next \in Nat
  PROVE  IsFiniteSet(Lost) /\ Cardinality(Lost) \in Nat
<1>1. next - 1 \in Int /\ 1 \in Int
  OBVIOUS
<1>2. IsFiniteSet(1..(next - 1))
  BY <1>1, FS_Interval
<1>3. IsFiniteSet(Lost)
  BY <1>2, FS_Subset DEF Lost
<1>4. QED
  BY <1>3, FS_CardinalityType

\* What a step does to the items lost.
LEMMA LostNext ==
  ASSUME ChannelInv, ChannelNext
  PROVE  Lost' = Lost \/ (Serve /\ Lost' \subseteq Lost \cup {next})
<1>1. next \in Nat /\ arrived \in Seq(Nat) /\ flight \in Seq(Nat)
  BY DEF ChannelInv, ChannelTypeOK
<1>2. next \notin Range(arrived) \cup Range(flight)
  BY <1>1 DEF ChannelInv, Range
<1>3. \A i : i \in 1..(next + 1 - 1) <=>
               i \in 1..(next - 1) \/ (i = next /\ next # 0)
  BY <1>1
<1>4. CASE Request
  BY <1>4 DEF Request, Lost
<1>5. CASE Send
  <2>1. /\ next' = next + 1 /\ arrived' = arrived
        /\ flight' = Append(flight, next)
    BY <1>5 DEF Send
  <2>2. Range(flight') = Range(flight) \cup {next}
    BY <1>1, <2>1, RangeAppend
  <2>3. ASSUME NEW i PROVE i \in Lost' <=> i \in Lost
    BY <1>2, <1>3, <2>1, <2>2 DEF Lost
  <2>4. QED
    BY <2>3
<1>6. CASE SendThrough
  <2>1. /\ next' = next + 1 /\ flight' = flight
        /\ arrived' = Append(arrived, next)
    BY <1>6 DEF SendThrough
  <2>2. Range(arrived') = Range(arrived) \cup {next}
    BY <1>1, <2>1, RangeAppend
  <2>3. ASSUME NEW i PROVE i \in Lost' <=> i \in Lost
    BY <1>2, <1>3, <2>1, <2>2 DEF Lost
  <2>4. QED
    BY <2>3
<1>7. CASE Serve
  <2>1. /\ next' = next \/ next' = next + 1
        /\ arrived' = arrived /\ flight' = flight
    BY <1>7 DEF Serve
  <2>2. ASSUME NEW i \in Lost' PROVE i \in Lost \/ i = next
    BY <1>3, <2>1, <2>2 DEF Lost
  <2>3. QED
    BY <1>7, <2>2
<1>8. CASE Arrive
  <2>1. /\ next' = next /\ flight # <<>> /\ flight' = Tail(flight)
        /\ arrived' = Append(arrived, Head(flight))
    BY <1>8 DEF Arrive
  <2>2. Range(arrived') = Range(arrived) \cup {Head(flight)}
    BY <1>1, <2>1, Queue, RangeAppend
  <2>3. Range(flight) = {Head(flight)} \cup Range(flight')
    BY <1>1, <2>1, RangeTail
  <2>4. QED
    BY <2>1, <2>2, <2>3 DEF Lost
<1>9. QED
  BY <1>4, <1>5, <1>6, <1>7, <1>8 DEF ChannelNext

LEMMA FewLostNext ==
  ASSUME ChannelInv, FewLost, [ChannelNext]_channelVars
  PROVE  FewLost'
<1>1. ChannelTypeOK /\ ChannelTypeOK'
  BY ChannelNextInv DEF ChannelInv
<1>2. next \in Nat /\ owed \in Nat /\ asked \in Nat
  BY <1>1 DEF ChannelTypeOK
<1>3. next' \in Nat /\ owed' \in Nat /\ asked' \in Nat
  BY <1>1 DEF ChannelTypeOK
<1>4. IsFiniteSet(Lost) /\ Cardinality(Lost) \in Nat
  BY <1>2, LostFinite
<1>5. CASE UNCHANGED channelVars
  BY <1>5 DEF channelVars, FewLost, Lost
<1>6. CASE ChannelNext /\ Lost' = Lost
  <2>1. CASE Request
    BY <1>2, <1>4, <1>6, <2>1 DEF Request, FewLost
  <2>2. CASE Serve
    BY <1>2, <1>4, <1>6, <2>2 DEF Serve, FewLost
  <2>3. CASE Send \/ SendThrough \/ Arrive
    BY <1>6, <2>3 DEF Send, SendThrough, Arrive, FewLost
  <2>4. QED
    BY <1>6, <2>1, <2>2, <2>3 DEF ChannelNext
<1>7. CASE Serve /\ Lost' \subseteq Lost \cup {next}
  <2>1. owed > 0 /\ owed' = owed - 1 /\ asked' = asked
    BY <1>7 DEF Serve
  <2>2. IsFiniteSet(Lost \cup {next})
    BY <1>4, FS_AddElement
  <2>3. \/ Cardinality(Lost \cup {next}) = Cardinality(Lost)
        \/ Cardinality(Lost \cup {next}) = Cardinality(Lost) + 1
    BY <1>4, FS_AddElement
  <2>4. /\ Cardinality(Lost') <= Cardinality(Lost \cup {next})
        /\ IsFiniteSet(Lost')
    BY <1>7, <2>2, FS_Subset
  <2>5. Cardinality(Lost') \in Nat
    BY <2>4, FS_CardinalityType
  <2>6. Cardinality(Lost') <= Cardinality(Lost) + 1
    BY <1>4, <2>3, <2>4, <2>5
  <2>7. QED
    BY <1>2, <1>4, <2>1, <2>5, <2>6 DEF FewLost
<1>8. QED
  BY <1>5, <1>6, <1>7, LostNext

\* No more items are lost than the filter was asked for.
THEOREM ChannelLosesFew == Channel => []FewLost
<1>1. ChannelInit => FewLost
  <2> SUFFICES ASSUME ChannelInit PROVE FewLost
    OBVIOUS
  <2>1. next - 1 = 0 /\ owed = 0 /\ asked = 0
    BY DEF ChannelInit
  <2>2. Lost = {}
    BY <2>1 DEF Lost
  <2>3. QED
    BY <2>1, <2>2, FS_EmptySet DEF FewLost
<1>2. ChannelInv /\ FewLost /\ [ChannelNext]_channelVars => FewLost'
  BY FewLostNext
<1>3. QED
  BY <1>1, <1>2, ChannelInitInv, ChannelNextInv, PTL DEF Channel
=============================================================================
