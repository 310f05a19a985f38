-------------------------- MODULE SendPacerProofs --------------------------
(***************************************************************************)
(* The outbound queue keeps its promises, for any lines, costs, budget and *)
(* sockets: what goes is in order, what is dropped is told once, a REKEY   *)
(* is never lost, a line that could go is not left waiting, and the server *)
(* reads us.                                                               *)
(***************************************************************************)
EXTENDS SendPacer, SequenceTheorems, FiniteSetTheorems, TLAPS

-----------------------------------------------------------------------------
(* The clocks: ours is not behind the server's.                            *)

\* The socket still takes lines, or will.
Taking == link \notin {"down", "gone"} /\ ~quitting

ClockTypes ==
    /\ ahead \in Nat /\ paced \in BOOLEAN
    /\ server \in [debt : Nat, pongs : Nat, asks : Nat, exempt : BOOLEAN]

\* Whatever the server was sent since the socket opened is on our clock, but for
\* the walk's lines; and pacing was on all the time.
Clocked ==
    ~server.exempt =>
        /\ paced
        /\ server.debt <= Budget + (UnitLines - 1) + server.pongs + server.asks
        /\ Taking => server.debt <= ahead + server.asks

LEMMA Costs ==
    /\ Budget \in Nat /\ LongCost \in Nat \ {0} /\ UnitLines \in Nat \ {0}
    /\ MaxKeyed \in Nat \ {0} /\ MaxItems \in Nat /\ LongCost <= Budget
    /\ \A e : /\ FirstCost(e) \in 1 .. LongCost /\ WholeCost(e) \in Nat \ {0}
              /\ WholeCost(e) <= FirstCost(e) + (UnitLines - 1)
              /\ KindOf(e) = "poll" => WholeCost(e) = 1 /\ FirstCost(e) = 1
<1>1. /\ Budget \in Nat /\ LongCost \in Nat \ {0} /\ UnitLines \in Nat \ {0}
      /\ MaxKeyed \in Nat \ {0} /\ MaxItems \in Nat /\ LongCost <= Budget
  BY PacerConstants
<1> QED BY <1>1 DEF FirstCost, WholeCost

LEMMA ServerIs ==
    ASSUME NEW s \in [debt : Nat, pongs : Nat, asks : Nat, exempt : BOOLEAN],
           NEW d \in Nat, NEW p \in Nat, NEW a \in Nat,
           NEW r, r = [s EXCEPT !.debt = d, !.pongs = p, !.asks = a]
    PROVE  /\ r \in [debt : Nat, pongs : Nat, asks : Nat, exempt : BOOLEAN]
           /\ r.debt = d /\ r.pongs = p /\ r.asks = a /\ r.exempt = s.exempt
OBVIOUS

\* charge: our clock advances by as much as the server's, or by less for a line
\* of the walk, which counts as asked.
LEMMA Charges ==
    ASSUME ClockTypes, paced, NEW kind, NEW cost \in Nat, kind = "poll" => cost = 1,
           Charge(kind, cost)
    PROVE  /\ ahead' \in Nat /\ ahead <= ahead'
           /\ server' \in [debt : Nat, pongs : Nat, asks : Nat, exempt : BOOLEAN]
           /\ server'.exempt = server.exempt
           /\ server'.debt = server.debt + cost
           /\ server'.pongs = server.pongs + (IF kind = "ping" THEN 1 ELSE 0)
           /\ server'.asks = server.asks + (IF kind = "poll" THEN 1 ELSE 0)
           /\ kind # "poll" => ahead' = ahead + cost
<1>1. /\ ahead \in Nat /\ Budget \in Nat
      /\ server \in [debt : Nat, pongs : Nat, asks : Nat, exempt : BOOLEAN]
  BY Costs DEF ClockTypes
<1>2. ahead' = Charged(kind, cost)
  BY DEF Charge
<1>3. ahead' \in Nat /\ ahead <= ahead' /\ (kind # "poll" => ahead' = ahead + cost)
  BY <1>1, <1>2 DEF Charged, Least, Most
<1> DEFINE p == IF kind = "ping" THEN server.pongs + 1 ELSE server.pongs
           a == IF kind = "poll" THEN server.asks + 1 ELSE server.asks
<1>4. server' = [server EXCEPT !.debt = @ + cost, !.pongs = p, !.asks = a]
  BY DEF Charge
<1>5. /\ p \in Nat /\ p = server.pongs + (IF kind = "ping" THEN 1 ELSE 0)
      /\ a \in Nat /\ a = server.asks + (IF kind = "poll" THEN 1 ELSE 0)
  <2>1. server.pongs \in Nat /\ server.asks \in Nat
    BY <1>1
  <2>2. p \in Nat /\ p = server.pongs + (IF kind = "ping" THEN 1 ELSE 0)
    BY <2>1
  <2>3. a \in Nat /\ a = server.asks + (IF kind = "poll" THEN 1 ELSE 0)
    BY <2>1
  <2> QED BY <2>2, <2>3
<1> HIDE DEF p, a
<1>6. /\ server' \in [debt : Nat, pongs : Nat, asks : Nat, exempt : BOOLEAN]
      /\ server'.exempt = server.exempt /\ server'.debt = server.debt + cost
      /\ server'.pongs = p /\ server'.asks = a
  <2>1. server.debt + cost \in Nat
    BY <1>1
  <2> QED BY <1>1, <1>4, <1>5, <2>1, ServerIs
<1> QED BY <1>3, <1>5, <1>6

\* A line that is let through, or that goes at once, keeps the clocks together.
LEMMA SentClocked ==
    ASSUME ClockTypes, Clocked, Taking, UNCHANGED <<paced, link, quitting>>,
           NEW kind, NEW cost \in Nat, Charge(kind, cost), kind = "poll" => cost = 1,
           \/ kind = "ping" /\ cost = 1
           \/ kind = "poll"
           \/ paced => ahead + cost <= Budget + (UnitLines - 1)
    PROVE  ClockTypes' /\ Clocked'
<1>1. /\ ahead \in Nat /\ Budget \in Nat /\ UnitLines \in Nat \ {0} /\ paced \in BOOLEAN
      /\ server \in [debt : Nat, pongs : Nat, asks : Nat, exempt : BOOLEAN]
  BY Costs DEF ClockTypes
<1>2. CASE paced
  <2>1. /\ ahead' \in Nat /\ ahead <= ahead'
        /\ server' \in [debt : Nat, pongs : Nat, asks : Nat, exempt : BOOLEAN]
        /\ server'.exempt = server.exempt
        /\ server'.debt = server.debt + cost
        /\ server'.pongs = server.pongs + (IF kind = "ping" THEN 1 ELSE 0)
        /\ server'.asks = server.asks + (IF kind = "poll" THEN 1 ELSE 0)
        /\ kind # "poll" => ahead' = ahead + cost
    BY <1>2, Charges
  <2>2. ClockTypes'
    BY <1>1, <2>1 DEF ClockTypes
  <2>3. ASSUME ~server.exempt
        PROVE  /\ server'.debt <= Budget + (UnitLines - 1) + server'.pongs + server'.asks
               /\ server'.debt <= ahead' + server'.asks
    <3>1. /\ server.debt <= Budget + (UnitLines - 1) + server.pongs + server.asks
          /\ server.debt <= ahead + server.asks
      BY <2>3 DEF Clocked
    <3>2. server.debt \in Nat /\ server.pongs \in Nat /\ server.asks \in Nat
      BY <1>1
    <3>3. CASE kind = "poll"
      BY <1>1, <2>1, <3>1, <3>2, <3>3
    <3>4. CASE kind = "ping" /\ cost = 1
      BY <1>1, <2>1, <3>1, <3>2, <3>4
    <3>5. CASE kind # "poll" /\ kind # "ping" /\ ahead + cost <= Budget + (UnitLines - 1)
      BY <1>1, <2>1, <3>1, <3>2, <3>5
    <3>6. CASE kind = "ping" /\ ahead + cost <= Budget + (UnitLines - 1)
      BY <1>1, <2>1, <3>1, <3>2, <3>6
    <3> QED BY <1>2, <3>3, <3>4, <3>5, <3>6
  <2>4. Clocked'
    BY <1>2, <2>1, <2>3 DEF Clocked
  <2> QED BY <2>2, <2>4
<1>3. CASE ~paced
  <2>1. server.exempt
    BY <1>3 DEF Clocked
  <2>2. /\ ahead' = ahead /\ server'.exempt = server.exempt
        /\ server' \in [debt : Nat, pongs : Nat, asks : Nat, exempt : BOOLEAN]
    <3> DEFINE p == IF kind = "ping" THEN server.pongs + 1 ELSE server.pongs
               a == IF kind = "poll" THEN server.asks + 1 ELSE server.asks
    <3>1. ahead' = ahead /\ server' = [server EXCEPT !.debt = @ + cost, !.pongs = p, !.asks = a]
      BY <1>3 DEF Charge
    <3>2. p \in Nat /\ a \in Nat
      <4>1. server.pongs \in Nat /\ server.asks \in Nat
        BY <1>1
      <4> QED BY <4>1
    <3> HIDE DEF p, a
    <3>3. server.debt + cost \in Nat
      BY <1>1
    <3> QED BY <1>1, <3>1, <3>2, <3>3, ServerIs
  <2>3. ClockTypes'
    BY <1>1, <2>2 DEF ClockTypes
  <2>4. Clocked'
    BY <2>1, <2>2 DEF Clocked
  <2> QED BY <2>3, <2>4
<1> QED BY <1>2, <1>3

\* What neither sends nor moves a clock.
LEMMA SameClocked ==
    ASSUME ClockTypes, Clocked, UNCHANGED <<ahead, server, paced>>, Taking' => Taking
    PROVE  ClockTypes' /\ Clocked'
BY DEF ClockTypes, Clocked

\* drop(): our clock starts again; nothing more is sent on that socket.
LEMMA DroppedClocked ==
    ASSUME ClockTypes, Clocked, ahead' = 0, UNCHANGED <<server, paced>>, ~Taking'
    PROVE  ClockTypes' /\ Clocked'
BY DEF ClockTypes, Clocked

LEMMA TickClocked == ASSUME ClockTypes, Clocked, Tick PROVE ClockTypes' /\ Clocked'
<1>1. /\ ahead \in Nat /\ Budget \in Nat /\ UnitLines \in Nat \ {0} /\ paced \in BOOLEAN
      /\ server \in [debt : Nat, pongs : Nat, asks : Nat, exempt : BOOLEAN]
  BY Costs DEF ClockTypes
<1>2. /\ ahead' = PassTime(ahead) /\ server' = [server EXCEPT !.debt = PassTime(@)]
      /\ UNCHANGED <<paced, link, quitting>>
  BY DEF Tick
<1>3. /\ ahead' = (IF ahead > 0 THEN ahead - 1 ELSE ahead)
      /\ server'.debt = (IF server.debt > 0 THEN server.debt - 1 ELSE server.debt)
      /\ server'.pongs = server.pongs /\ server'.asks = server.asks
      /\ server'.exempt = server.exempt
      /\ server' \in [debt : Nat, pongs : Nat, asks : Nat, exempt : BOOLEAN]
  BY <1>1, <1>2 DEF PassTime
<1>4. ClockTypes'
  BY <1>1, <1>2, <1>3 DEF ClockTypes
<1>5. Clocked'
  <2> SUFFICES ASSUME ~server.exempt
               PROVE  /\ paced
                      /\ server'.debt <= Budget + (UnitLines - 1) + server'.pongs + server'.asks
                      /\ Taking => server'.debt <= ahead' + server'.asks
    BY <1>2, <1>3 DEF Clocked, Taking
  <2>1. server.debt \in Nat /\ server.pongs \in Nat /\ server.asks \in Nat
    BY <1>1
  <2> QED BY <1>1, <1>3, <2>1 DEF Clocked
<1> QED BY <1>4, <1>5

\* A line the loop lets through.
LEMMA LineClocked == ASSUME ClockTypes, Clocked, LineGoes PROVE ClockTypes' /\ Clocked'
<1> DEFINE e == HeadEntry
<1>1. /\ Taking /\ UNCHANGED <<paced, link, quitting>> /\ Over(e) <= 0
      /\ Charge(KindOf(e), WholeCost(e))
  BY DEF LineGoes, Turn, HeadMayGo, Ready, Taking
<1>2. /\ WholeCost(e) \in Nat /\ FirstCost(e) \in Nat /\ Budget \in Nat /\ UnitLines \in Nat
      /\ ahead \in Nat /\ WholeCost(e) <= FirstCost(e) + (UnitLines - 1)
      /\ KindOf(e) = "poll" => WholeCost(e) = 1
  BY Costs DEF ClockTypes
<1>3. KindOf(e) # "poll" /\ paced => ahead + FirstCost(e) - Budget <= 0
  BY <1>1 DEF Over
<1> HIDE DEF e
<1>4. KindOf(e) = "poll" \/ (paced => ahead + WholeCost(e) <= Budget + (UnitLines - 1))
  BY <1>2, <1>3
<1> QED BY <1>1, <1>2, <1>4, SentClocked

LEMMA ImmediateClocked == ASSUME ClockTypes, Clocked, WriteImmediate PROVE ClockTypes' /\ Clocked'
<1>1. CASE quitting
  BY <1>1, SameClocked DEF WriteImmediate, Taking
<1>2. CASE ~quitting
  <2>1. Taking /\ UNCHANGED <<paced, link, quitting>> /\ Charge("ping", 1)
    BY <1>2 DEF WriteImmediate, Taking, Ready
  <2> QED BY <2>1, SentClocked
<1> QED BY <1>1, <1>2

LEMMA DialsClocked == ASSUME ClockTypes, DialsAgain PROVE ClockTypes' /\ Clocked'
<1>1. /\ ahead' = 0 /\ paced' = paced
      /\ server' = [debt |-> 0, pongs |-> 0, asks |-> 0, exempt |-> ~paced]
  BY DEF DialsAgain, Drop, NewSocket
<1>2. paced \in BOOLEAN /\ Budget \in Nat /\ UnitLines \in Nat \ {0}
  BY Costs DEF ClockTypes
<1>3. ClockTypes'
  BY <1>1, <1>2 DEF ClockTypes
<1>4. server'.debt = 0 /\ server'.pongs = 0 /\ server'.asks = 0 /\ (~server'.exempt => paced')
  BY <1>1, <1>2
<1>5. 0 <= Budget + (UnitLines - 1) + 0 + 0 /\ 0 <= 0 + 0
  BY <1>2
<1>6. Clocked'
  BY <1>1, <1>4, <1>5 DEF Clocked
<1> QED BY <1>3, <1>6

LEMMA FlipsClocked == ASSUME ClockTypes, Clocked, PacingFlips PROVE ClockTypes' /\ Clocked'
<1>1. /\ ahead' = ahead /\ paced' = ~paced
      /\ server' = [server EXCEPT !.exempt = @ \/ paced]
  BY DEF PacingFlips
<1>2. /\ paced \in BOOLEAN /\ ahead \in Nat
      /\ server \in [debt : Nat, pongs : Nat, asks : Nat, exempt : BOOLEAN]
  BY DEF ClockTypes
<1>3. server'.exempt = (server.exempt \/ paced)
  BY <1>1, <1>2
<1>4. server' \in [debt : Nat, pongs : Nat, asks : Nat, exempt : BOOLEAN]
  BY <1>1, <1>2
<1>5. ClockTypes'
  BY <1>1, <1>2, <1>4 DEF ClockTypes
<1>6. server'.exempt
  BY <1>3 DEF Clocked
<1>7. Clocked'
  BY <1>6 DEF Clocked
<1> QED BY <1>5, <1>7

LEMMA DrainClocked == ASSUME ClockTypes, Clocked, DrainStep PROVE ClockTypes' /\ Clocked'
<1>1. CASE LineGoes
  BY <1>1, LineClocked
<1>2. CASE ~LineGoes
  BY <1>2, SameClocked DEF DrainStep, DrainEnds, DrainWaits, Withdrawn, Build, LineRefused, Taking
<1> QED BY <1>1, <1>2

LEMMA WriteClocked ==
    ASSUME ClockTypes, Clocked, NEW kind, Write(kind)
    PROVE  ClockTypes' /\ Clocked'
BY SameClocked DEF Write, WriteGone, WriteAtOnce, WriteQueued, WriteReplacing, WriteKeyed, Taking

LEMMA ClockedStep ==
    ASSUME ClockTypes, Clocked, [PacerNext]_pacerVars
    PROVE  ClockTypes' /\ Clocked'
<1>1. CASE Tick
  BY <1>1, TickClocked
<1>2. CASE DrainStep
  BY <1>2, DrainClocked
<1>3. ASSUME NEW kind, Write(kind) PROVE ClockTypes' /\ Clocked'
  BY <1>3, WriteClocked
<1>4. CASE WriteImmediate
  BY <1>4, ImmediateClocked
<1>5. CASE DialsAgain
  BY <1>5, DialsClocked
<1>6. CASE PacingFlips
  BY <1>6, FlipsClocked
<1>7. CASE SocketCloses \/ Detached \/ Disposed
  BY <1>7, DroppedClocked DEF SocketCloses, Detached, Disposed, Drop, Taking
<1>8. ASSUME NEW i, Cancel(i) PROVE ClockTypes' /\ Clocked'
  BY <1>8, SameClocked DEF Cancel, Taking
<1>9. CASE \/ TimerFires \/ Registered001 \/ LinkCut \/ Reattached \/ RestoreIsOver
           \/ QuitAsked \/ UNCHANGED pacerVars
  BY <1>9, SameClocked
     DEF TimerFires, Registered001, LinkCut, Reattached, RestoreIsOver, QuitAsked, Ready,
         pacerVars, Taking
<1> QED BY <1>1, <1>2, <1>3, <1>4, <1>5, <1>6, <1>7, <1>8, <1>9 DEF PacerNext

\* The server reads us, for any budget and any costs: nothing that waits, is
\* dropped, held through a restore or sent before a reset of our clock makes the
\* server's run further ahead than the budget (charge, drop, sendNow, sendUnit).
THEOREM PacerKeepsPace == PacerSpec => []ServerReadsUs
<1>1. PacerInit => ClockTypes /\ Clocked
  BY Costs DEF PacerInit, ClockTypes, Clocked
<1>2. (ClockTypes /\ Clocked) /\ [PacerNext]_pacerVars => (ClockTypes /\ Clocked)'
  BY ClockedStep
<1>3. ClockTypes /\ Clocked => ServerReadsUs
  BY DEF Clocked, ServerReadsUs
<1> QED BY <1>1, <1>2, <1>3, PTL DEF PacerSpec

-----------------------------------------------------------------------------
(* Taking out of a lane.                                                   *)

\* What is left stands in the order it stood in: the n-th of it was the `at[n]'-th.
LEMMA WithoutKeeps ==
    ASSUME NEW S, NEW s \in Seq(S), NEW N
    PROVE  LET t == Without(s, N) IN
           /\ t \in Seq(S)
           /\ \E at \in [1 .. Len(t) -> (1 .. Len(s)) \ N] :
                 /\ \A n \in 1 .. Len(t) : t[n] = s[at[n]]
                 /\ \A m, n \in 1 .. Len(t) : m < n => at[m] < at[n]
                 /\ \A k \in (1 .. Len(s)) \ N : \E n \in 1 .. Len(t) : k = at[n]
<1> DEFINE left == DOMAIN s \ N
           Upto(k) == {j \in left : j <= k}
           c == Cardinality(left)
           rank == [k \in left |-> Cardinality(Upto(k))]
           at == [n \in 1 .. c |-> CHOOSE k \in left : Cardinality(Upto(k)) = n]
           t == Without(s, N)
<1>1. Len(s) \in Nat /\ DOMAIN s = 1 .. Len(s) /\ left \subseteq 1 .. Len(s)
  BY LenProperties
<1>a. \A k \in left : k \in Nat
  BY <1>1
<1>2. IsFiniteSet(left) /\ c \in Nat
  <2>1. IsFiniteSet(1 .. Len(s))
    BY <1>1, FS_Interval
  <2>2. IsFiniteSet(left)
    BY <1>1, <2>1, FS_Subset
  <2> QED BY <2>2, FS_CardinalityType
<1>3. \A k \in left : /\ IsFiniteSet(Upto(k))
                      /\ Cardinality(Upto(k)) \in 1 .. c
  <2> TAKE k \in left
  <2>1. Upto(k) \in SUBSET left /\ {k} \in SUBSET Upto(k)
    BY <1>1
  <2>2. IsFiniteSet(Upto(k)) /\ Cardinality(Upto(k)) <= c /\ Cardinality(Upto(k)) \in Nat
    BY <1>2, <2>1, FS_Subset, FS_CardinalityType
  <2>3. Cardinality({k}) = 1 /\ Cardinality({k}) <= Cardinality(Upto(k))
    BY <2>1, <2>2, FS_Subset, FS_Singleton
  <2> QED BY <1>2, <2>2, <2>3
<1>4. \A j, k \in left : j < k => Cardinality(Upto(j)) < Cardinality(Upto(k))
  <2> SUFFICES ASSUME NEW j \in left, NEW k \in left, j < k
               PROVE  Cardinality(Upto(j)) < Cardinality(Upto(k))
    OBVIOUS
  <2>1. Upto(j) \in SUBSET Upto(k) /\ k \in Upto(k) /\ k \notin Upto(j)
    BY <1>1
  <2>2. /\ Cardinality(Upto(j)) <= Cardinality(Upto(k))
        /\ Cardinality(Upto(j)) # Cardinality(Upto(k))
    BY <1>3, <2>1, FS_Subset
  <2>3. Cardinality(Upto(j)) \in 1 .. c /\ Cardinality(Upto(k)) \in 1 .. c
    BY <1>3
  <2> QED BY <1>2, <2>2, <2>3
<1> HIDE DEF Upto
<1>5. rank \in Injection(left, 1 .. c)
  <2>1. rank \in [left -> 1 .. c]
    BY <1>3
  <2>2. \A j, k \in left : rank[j] = rank[k] => j = k
    <3> SUFFICES ASSUME NEW j \in left, NEW k \in left, rank[j] = rank[k]
                 PROVE  j = k
      OBVIOUS
    <3>1. rank[j] \in 1 .. c /\ rank[j] = Cardinality(Upto(j)) /\ rank[k] = Cardinality(Upto(k))
      BY <2>1
    <3>2. j \in Nat /\ k \in Nat /\ ~(j < k) /\ ~(k < j)
      BY <1>1, <1>2, <1>4, <3>1
    <3> QED BY <3>2
  <2> QED BY <2>1, <2>2 DEF Injection, IsInjective
<1>6. rank \in Surjection(left, 1 .. c)
  <2>1. IsFiniteSet(1 .. c) /\ Cardinality(1 .. c) = c
    BY <1>2, FS_Interval
  <2> HIDE DEF left, c, rank
  <2>2. Cardinality(left) = Cardinality(1 .. c) <=> rank \in Surjection(left, 1 .. c)
    BY <1>5, <2>1, FS_Injection
  <2> QED BY <2>1, <2>2 DEF c
<1>7. \A n \in 1 .. c : at[n] \in left /\ Cardinality(Upto(at[n])) = n
  <2> TAKE n \in 1 .. c
  <2>1. \E k \in left : Cardinality(Upto(k)) = n
    BY <1>6 DEF Surjection
  <2> QED BY <2>1
<1>8. t = [n \in 1 .. c |-> s[at[n]]]
  BY DEF Without, Upto
<1> HIDE DEF at, c, t, left
<1>9. \A n \in 1 .. c : s[at[n]] \in S
  BY <1>1, <1>7, ElementOfSeq
<1>10. t \in Seq(S) /\ Len(t) = c /\ \A n \in 1 .. c : t[n] = s[at[n]]
  BY <1>2, <1>8, <1>9, SeqDef, LenProperties
<1>11. at \in [1 .. c -> (1 .. Len(s)) \ N]
  BY <1>1, <1>7 DEF at, left
<1>12. \A m, n \in 1 .. c : m < n => at[m] < at[n]
  <2> SUFFICES ASSUME NEW m \in 1 .. c, NEW n \in 1 .. c, m < n
               PROVE  at[m] < at[n]
    OBVIOUS
  <2>1. /\ at[m] \in left /\ at[n] \in left
        /\ Cardinality(Upto(at[m])) = m /\ Cardinality(Upto(at[n])) = n
    BY <1>7
  <2>2. at[m] \in Nat /\ at[n] \in Nat
    BY <1>a, <2>1
  <2>3. at[m] # at[n] /\ ~(at[n] < at[m])
    BY <1>2, <1>4, <2>1
  <2> QED BY <2>2, <2>3
<1>13. \A k \in (1 .. Len(s)) \ N : \E n \in 1 .. c : k = at[n]
  <2> TAKE k \in (1 .. Len(s)) \ N
  <2> DEFINE n == Cardinality(Upto(k))
  <2>1. k \in left /\ n \in 1 .. c
    BY <1>1, <1>3 DEF left
  <2>2. at[n] \in left /\ Cardinality(Upto(at[n])) = n
    BY <1>7, <2>1
  <2>3. at[n] \in Nat /\ k \in Nat
    BY <1>a, <2>1, <2>2
  <2>6. Cardinality(Upto(k)) = n
    OBVIOUS
  <2>5. ~(at[n] < k) /\ ~(k < at[n])
    <3> HIDE DEF n
    <3>1. ~(n < n)
      BY <1>2, <2>1
    <3> QED BY <1>4, <2>1, <2>2, <2>6, <3>1
  <2>4. k = at[n]
    BY <2>3, <2>5
  <2> QED BY <2>1, <2>4
<1> QED BY <1>10, <1>11, <1>12, <1>13 DEF t

-----------------------------------------------------------------------------
(* The lanes: what is in each, and in which order.                         *)

\* An entry belongs to lane l: its item is of the lane's kinds, and only what a
\* thunk made is not whole.
Fits(its, e, l) ==
    /\ e \in PacerEntry /\ e.item \in 1 .. Len(its)
    /\ LaneOf(its[e.item].kind) = l
    /\ e.stage = "whole" \/ its[e.item].kind \in {"secret", "keyA", "keyB"}

\* e goes before f: it is older, or an earlier part of the same item.
Follows(e, f) ==
    /\ e.item = f.item
    /\ \/ e.stage \in {"rekey", "notice"} /\ f.stage \in {"encrypt", "chunk", "last"}
       \/ e.stage = "chunk" /\ f.stage = "last"
Precedes(its, e, f) == its[e.item].order < its[f.item].order \/ Follows(e, f)

Lane(its, s, l) ==
    /\ s \in Seq(PacerEntry)
    /\ \A n \in 1 .. Len(s) : Fits(its, s[n], l)
    /\ \A m, n \in 1 .. Len(s) : m < n => Precedes(its, s[m], s[n])

\* What is gone went in order, and before what waits in its lane.
Went(its, g) ==
    /\ g \in Seq(PacerEntry)
    /\ \A n \in 1 .. Len(g) : g[n].item \in 1 .. Len(its)
    /\ \A m, n \in 1 .. Len(g) :
          m < n /\ LaneOf(its[g[m].item].kind) = LaneOf(its[g[n].item].kind)
              => Precedes(its, g[m], g[n])
Past(its, g, e, l) ==
    \A m \in 1 .. Len(g) : LaneOf(its[g[m].item].kind) = l => Precedes(its, g[m], e)

Item == [kind : AllKinds, order : 1 .. MaxItems]
Items(its) ==
    /\ its \in Seq(Item) /\ Len(its) <= MaxItems
    /\ \A i \in 1 .. Len(its) : its[i].order <= i

LEMMA LaneNamesAre == LaneNames = {"high", "normal", "low"}
BY DEF LaneNames, Lanes, ToSet

LEMMA StagesAre == ToSet(Stages) = {"whole", "rekey", "notice", "encrypt", "chunk", "last"}
<1>1. DOMAIN Stages = 1 .. 6
  BY DEF Stages
<1>2. /\ Stages[1] = "whole" /\ Stages[2] = "rekey" /\ Stages[3] = "notice"
      /\ Stages[4] = "encrypt" /\ Stages[5] = "chunk" /\ Stages[6] = "last"
  BY DEF Stages
<1>3. \A n \in 1 .. 6 : n \in {1, 2, 3, 4, 5, 6}
  OBVIOUS
<1> QED BY <1>1, <1>2, <1>3 DEF ToSet

\* Lanes are decided by items that do not change any more.
Grows(its, jts) ==
    /\ Len(its) \in Nat /\ Len(jts) \in Nat /\ Len(its) <= Len(jts)
    /\ \A i \in 1 .. Len(its) : jts[i] = its[i]

LEMMA LaneGrows ==
    ASSUME NEW its, NEW jts, Grows(its, jts), NEW s, NEW l, Lane(its, s, l)
    PROVE  Lane(jts, s, l)
<1>1. \A n \in 1 .. Len(s) : s[n].item \in 1 .. Len(its) /\ s[n].item \in 1 .. Len(jts)
  BY DEF Lane, Fits, Grows
<1>2. \A n \in 1 .. Len(s) : jts[s[n].item] = its[s[n].item]
  BY <1>1 DEF Grows
<1> QED BY <1>1, <1>2 DEF Lane, Fits, Precedes

LEMMA WentGrows ==
    ASSUME NEW its, NEW jts, Grows(its, jts), NEW g, Went(its, g)
    PROVE  /\ Went(jts, g)
           /\ \A e, l : e.item \in 1 .. Len(its) /\ Past(its, g, e, l) => Past(jts, g, e, l)
<1>1. \A n \in 1 .. Len(g) : g[n].item \in 1 .. Len(its) /\ g[n].item \in 1 .. Len(jts)
  BY DEF Went, Grows
<1>2. \A n \in 1 .. Len(g) : jts[g[n].item] = its[g[n].item]
  BY <1>1 DEF Grows
<1>3. Went(jts, g)
  BY <1>1, <1>2 DEF Went, Precedes
<1>4. ASSUME NEW e, NEW l, e.item \in 1 .. Len(its), Past(its, g, e, l)
      PROVE  Past(jts, g, e, l)
  <2>1. jts[e.item] = its[e.item]
    BY <1>4 DEF Grows
  <2> QED BY <1>2, <1>4, <2>1 DEF Past, Precedes
<1> QED BY <1>3, <1>4

\* t has what s has at other places than N.
Leaves(s, N, t) ==
    /\ \A n \in 1 .. Len(t) : \E k \in (1 .. Len(s)) \ N : t[n] = s[k]
    /\ \A k \in (1 .. Len(s)) \ N : \E n \in 1 .. Len(t) : t[n] = s[k]

LEMMA LaneWithout ==
    ASSUME NEW its, NEW s, NEW l, NEW N, Lane(its, s, l), NEW t, t = Without(s, N)
    PROVE  Lane(its, t, l) /\ Leaves(s, N, t)
<1>1. s \in Seq(PacerEntry)
  BY DEF Lane
<1>2. /\ t \in Seq(PacerEntry)
      /\ \E at \in [1 .. Len(t) -> (1 .. Len(s)) \ N] :
            /\ \A n \in 1 .. Len(t) : t[n] = s[at[n]]
            /\ \A m, n \in 1 .. Len(t) : m < n => at[m] < at[n]
            /\ \A k \in (1 .. Len(s)) \ N : \E n \in 1 .. Len(t) : k = at[n]
  BY <1>1, WithoutKeeps
<1>3. PICK at \in [1 .. Len(t) -> (1 .. Len(s)) \ N] :
            /\ \A n \in 1 .. Len(t) : t[n] = s[at[n]]
            /\ \A m, n \in 1 .. Len(t) : m < n => at[m] < at[n]
            /\ \A k \in (1 .. Len(s)) \ N : \E n \in 1 .. Len(t) : k = at[n]
  BY <1>2
<1>4. Lane(its, t, l)
  <2>1. \A n \in 1 .. Len(t) : at[n] \in 1 .. Len(s) /\ t[n] = s[at[n]]
    BY <1>3
  <2>2. \A n \in 1 .. Len(t) : Fits(its, t[n], l)
    BY <2>1 DEF Lane
  <2>3. \A m, n \in 1 .. Len(t) : m < n => Precedes(its, t[m], t[n])
    <3> SUFFICES ASSUME NEW m \in 1 .. Len(t), NEW n \in 1 .. Len(t), m < n
                 PROVE  Precedes(its, t[m], t[n])
      OBVIOUS
    <3>1. at[m] < at[n]
      BY <1>3
    <3> QED BY <2>1, <3>1 DEF Lane
  <2> QED BY <1>2, <2>2, <2>3 DEF Lane
<1>5. \A n \in 1 .. Len(t) : \E k \in (1 .. Len(s)) \ N : t[n] = s[k]
  BY <1>3
<1>6. \A k \in (1 .. Len(s)) \ N : \E n \in 1 .. Len(t) : t[n] = s[k]
  BY <1>3
<1> QED BY <1>4, <1>5, <1>6 DEF Leaves

LEMMA LaneAppend ==
    ASSUME NEW its, NEW s, NEW l, NEW e, Lane(its, s, l), Fits(its, e, l),
           \A n \in 1 .. Len(s) : Precedes(its, s[n], e)
    PROVE  /\ Lane(its, Append(s, e), l)
           /\ Len(Append(s, e)) = Len(s) + 1 /\ Len(s) \in Nat
           /\ \A n \in 1 .. Len(s) : Append(s, e)[n] = s[n]
           /\ Append(s, e)[Len(s) + 1] = e
<1> DEFINE t == Append(s, e)
<1>1. s \in Seq(PacerEntry) /\ e \in PacerEntry /\ Len(s) \in Nat
  BY LenProperties DEF Lane, Fits
<1>2. /\ t \in Seq(PacerEntry) /\ Len(t) = Len(s) + 1
      /\ \A n \in 1 .. Len(s) : t[n] = s[n]
      /\ t[Len(s) + 1] = e
  BY <1>1, AppendProperties
<1> HIDE DEF t
<1>3. \A n \in 1 .. Len(t) : n \in 1 .. Len(s) \/ n = Len(s) + 1
  BY <1>1, <1>2
<1>4. \A n \in 1 .. Len(t) : Fits(its, t[n], l)
  BY <1>2, <1>3 DEF Lane
<1>5. ASSUME NEW m \in 1 .. Len(t), NEW n \in 1 .. Len(t), m < n
      PROVE  Precedes(its, t[m], t[n])
  <2>1. m \in 1 .. Len(s)
    BY <1>1, <1>2, <1>5
  <2>2. CASE n \in 1 .. Len(s)
    BY <1>2, <1>5, <2>1, <2>2 DEF Lane
  <2>3. CASE n = Len(s) + 1
    BY <1>2, <2>1, <2>3
  <2> QED BY <1>3, <2>2, <2>3
<1>6. Lane(its, t, l)
  BY <1>2, <1>4, <1>5 DEF Lane
<1> QED BY <1>1, <1>2, <1>6 DEF t

\* x is made of h: what h went before, or came after, x does too.
MadeOf(h, x) ==
    /\ x \in PacerEntry /\ x.item = h.item /\ x.stage # "whole"
    /\ \/ h.stage = "whole"
       \/ h.stage = "rekey" /\ x.stage = "notice"
       \/ h.stage = "encrypt" /\ x.stage \in {"chunk", "last"}

LEMMA MadeStands ==
    ASSUME NEW its, NEW h, NEW x, MadeOf(h, x)
    PROVE  /\ \A f : Precedes(its, h, f) => Precedes(its, x, f)
           /\ \A e : Precedes(its, e, h) => Precedes(its, e, x)
<1>1. ASSUME NEW f, Precedes(its, h, f) PROVE Precedes(its, x, f)
  BY <1>1 DEF Precedes, MadeOf, Follows
<1>2. ASSUME NEW e, Precedes(its, e, h) PROVE Precedes(its, e, x)
  BY <1>2 DEF Precedes, MadeOf, Follows
<1> QED BY <1>1, <1>2

\* The head leaves, and what it made takes its place.
LEMMA LaneShifts ==
    ASSUME NEW its, NEW s, NEW l, Lane(its, s, l), s # <<>>,
           NEW made \in Seq(PacerEntry),
           \A n \in 1 .. Len(made) : MadeOf(s[1], made[n]),
           \A m, n \in 1 .. Len(made) : m < n => Follows(made[m], made[n]),
           made # <<>> => its[s[1].item].kind \in {"secret", "keyA", "keyB"}
    PROVE  LET t == made \o Tail(s) IN
           /\ Lane(its, t, l)
           /\ Len(made) \in Nat /\ Len(s) \in Nat \ {0}
           /\ Len(t) = Len(made) + Len(s) - 1
           /\ \A n \in 1 .. Len(made) : t[n] = made[n]
           /\ \A n \in 2 .. Len(s) : t[Len(made) + n - 1] = s[n]
           /\ \A n \in 1 .. Len(t) :
                 \/ n \in 1 .. Len(made)
                 \/ \E k \in 2 .. Len(s) : n = Len(made) + k - 1
           /\ \A g, n : n \in 1 .. Len(made) /\ Past(its, g, s[1], l)
                           => Past(its, g, made[n], l)
<1> DEFINE t == made \o Tail(s)
           c == Len(made)
<1>1. s \in Seq(PacerEntry) /\ Len(s) \in Nat \ {0} /\ c \in Nat
  BY EmptySeq, LenProperties DEF Lane
<1>2. /\ Tail(s) \in Seq(PacerEntry) /\ Len(Tail(s)) = Len(s) - 1
      /\ \A i \in 1 .. Len(Tail(s)) : Tail(s)[i] = s[i + 1]
  BY <1>1, HeadTailProperties
<1>3. /\ t \in Seq(PacerEntry) /\ Len(t) = c + Len(Tail(s))
      /\ \A i \in 1 .. c + Len(Tail(s)) :
            t[i] = IF i <= c THEN made[i] ELSE Tail(s)[i - c]
  BY <1>2, ConcatProperties
<1>4. /\ t \in Seq(PacerEntry) /\ Len(t) = c + Len(s) - 1
      /\ \A i \in 1 .. Len(t) : t[i] = IF i <= c THEN made[i] ELSE s[i - c + 1]
  <2>1. Len(t) = c + Len(s) - 1
    BY <1>1, <1>2, <1>3
  <2> SUFFICES ASSUME NEW i \in 1 .. Len(t)
               PROVE  t[i] = IF i <= c THEN made[i] ELSE s[i - c + 1]
    BY <1>3, <2>1
  <2>2. i \in Nat /\ i \in 1 .. c + Len(Tail(s))
    BY <1>1, <1>2, <2>1
  <2>3. CASE i <= c
    BY <1>3, <2>2, <2>3
  <2>4. CASE ~(i <= c)
    <3>1. i - c \in 1 .. Len(Tail(s)) /\ t[i] = Tail(s)[i - c]
      BY <1>1, <1>2, <1>3, <2>1, <2>2, <2>4
    <3> QED BY <1>2, <2>4, <3>1
  <2> QED BY <2>3, <2>4
<1> HIDE DEF t, c
<1>5. \A n \in 1 .. c : t[n] = made[n] /\ n \in 1 .. Len(t)
  BY <1>1, <1>4
<1>6. \A n \in 2 .. Len(s) : t[c + n - 1] = s[n]
  <2> TAKE n \in 2 .. Len(s)
  <2>1. c + n - 1 \in 1 .. Len(t) /\ ~(c + n - 1 <= c) /\ (c + n - 1) - c + 1 = n
    BY <1>1, <1>4
  <2> QED BY <1>4, <2>1
<1>7. \A n \in 1 .. Len(t) : n \in 1 .. c \/ \E k \in 2 .. Len(s) : n = c + k - 1
  <2> TAKE n \in 1 .. Len(t)
  <2>1. CASE n <= c
    BY <1>1, <2>1
  <2>2. CASE ~(n <= c)
    <3>1. n - c + 1 \in 2 .. Len(s) /\ n = c + (n - c + 1) - 1
      BY <1>1, <1>4, <2>2
    <3> QED BY <3>1
  <2> QED BY <2>1, <2>2
<1>8. \A n \in 1 .. c : MadeOf(s[1], made[n])
  BY DEF c
<1>9. 1 \in 1 .. Len(s) /\ Fits(its, s[1], l)
  BY <1>1 DEF Lane
<1>10. \A n \in 1 .. c : Fits(its, made[n], l)
  <2> TAKE n \in 1 .. c
  <2>1. its[s[1].item].kind \in {"secret", "keyA", "keyB"}
    BY <1>1, EmptySeq DEF c
  <2> QED BY <1>8, <1>9, <2>1 DEF Fits, MadeOf
<1>11. \A n \in 1 .. Len(t) : Fits(its, t[n], l)
  <2> TAKE n \in 1 .. Len(t)
  <2>1. CASE n \in 1 .. c
    BY <1>5, <1>10, <2>1
  <2>2. ASSUME NEW k \in 2 .. Len(s), n = c + k - 1 PROVE Fits(its, t[n], l)
    <3>1. t[n] = s[k] /\ k \in 1 .. Len(s)
      BY <1>1, <1>6, <2>2
    <3> QED BY <3>1 DEF Lane
  <2> QED BY <1>7, <2>1, <2>2
<1>12. \A m, n \in 1 .. Len(t) : m < n => Precedes(its, t[m], t[n])
  <2> SUFFICES ASSUME NEW m \in 1 .. Len(t), NEW n \in 1 .. Len(t), m < n
               PROVE  Precedes(its, t[m], t[n])
    OBVIOUS
  <2>1. CASE m \in 1 .. c /\ n \in 1 .. c
    BY <1>5, <2>1 DEF c, Precedes
  <2>2. ASSUME NEW k \in 2 .. Len(s), n = c + k - 1, m \in 1 .. c
        PROVE  Precedes(its, t[m], t[n])
    <3>1. t[n] = s[k] /\ k \in 1 .. Len(s) /\ 1 < k /\ t[m] = made[m]
      BY <1>1, <1>5, <1>6, <2>2
    <3>2. Precedes(its, s[1], s[k])
      BY <1>9, <3>1 DEF Lane
    <3> QED BY <1>8, <2>2, <3>1, <3>2, MadeStands
  <2>3. ASSUME NEW j \in 2 .. Len(s), m = c + j - 1, NEW k \in 2 .. Len(s), n = c + k - 1
        PROVE  Precedes(its, t[m], t[n])
    <3>1. t[m] = s[j] /\ t[n] = s[k] /\ j \in 1 .. Len(s) /\ k \in 1 .. Len(s) /\ j < k
      BY <1>1, <1>6, <2>3
    <3> QED BY <3>1 DEF Lane
  <2>4. m \in 1 .. c \/ n \notin 1 .. c
    BY <1>1
  <2> QED BY <1>7, <2>1, <2>2, <2>3, <2>4
<1>13. Lane(its, t, l)
  BY <1>4, <1>11, <1>12 DEF Lane
<1>14. \A g, n : n \in 1 .. c /\ Past(its, g, s[1], l) => Past(its, g, made[n], l)
  <2> SUFFICES ASSUME NEW g, NEW n, n \in 1 .. c, Past(its, g, s[1], l)
               PROVE  Past(its, g, made[n], l)
    OBVIOUS
  <2> QED BY <1>8, MadeStands DEF Past
<1> QED BY <1>1, <1>4, <1>5, <1>6, <1>7, <1>13, <1>14 DEF t, c

\* A keyed item takes the place and the age of the one before it.
LEMMA LaneReplaces ==
    ASSUME NEW its, NEW s, NEW l, Lane(its, s, l), NEW at \in 1 .. Len(s),
           s[at].stage = "whole",
           NEW e, Fits(its, e, l), e.stage = "whole",
           its[e.item].order = its[s[at].item].order
    PROVE  LET t == [s EXCEPT ![at] = e] IN
           /\ Lane(its, t, l) /\ Len(t) = Len(s)
           /\ \A n \in 1 .. Len(s) : t[n] = IF n = at THEN e ELSE s[n]
           /\ \A g : Past(its, g, s[at], l) => Past(its, g, e, l)
<1> DEFINE t == [s EXCEPT ![at] = e]
<1>1. s \in Seq(PacerEntry) /\ e \in PacerEntry
  BY DEF Lane, Fits
<1>2. /\ t \in Seq(PacerEntry) /\ Len(t) = Len(s)
      /\ \A n \in 1 .. Len(s) : t[n] = IF n = at THEN e ELSE s[n]
  BY <1>1, ExceptSeq
<1> HIDE DEF t
<1>3. \A n \in 1 .. Len(t) : Fits(its, t[n], l)
  BY <1>2 DEF Lane
<1>4. /\ \A f : Precedes(its, s[at], f) => Precedes(its, e, f)
      /\ \A f : Precedes(its, f, s[at]) => Precedes(its, f, e)
  BY DEF Precedes, Follows
<1>5. \A m, n \in 1 .. Len(t) : m < n => Precedes(its, t[m], t[n])
  <2> SUFFICES ASSUME NEW m \in 1 .. Len(t), NEW n \in 1 .. Len(t), m < n
               PROVE  Precedes(its, t[m], t[n])
    OBVIOUS
  <2>1. m \in 1 .. Len(s) /\ n \in 1 .. Len(s) /\ Precedes(its, s[m], s[n])
    BY <1>2 DEF Lane
  <2>2. CASE m = at
    BY <1>1, <1>2, <1>4, <2>1, <2>2, LenProperties
  <2>3. CASE m # at
    BY <1>2, <1>4, <2>1, <2>3
  <2> QED BY <2>2, <2>3
<1>6. Lane(its, t, l)
  BY <1>2, <1>3, <1>5 DEF Lane
<1>7. \A g : Past(its, g, s[at], l) => Past(its, g, e, l)
  BY <1>4 DEF Past
<1> QED BY <1>2, <1>6, <1>7 DEF t

-----------------------------------------------------------------------------
(* All lanes together, and the set of entries in them.                     *)

Fill(its, g, ls) ==
    /\ ls \in [LaneNames -> Seq(PacerEntry)]
    /\ \A l \in LaneNames :
          /\ Lane(its, ls[l], l)
          /\ \A n \in 1 .. Len(ls[l]) : Past(its, g, ls[l][n], l)
Entries(ls) == UNION {ToSet(ls[l]) : l \in LaneNames}

Queue == Items(items) /\ mix \in Mixes /\ Went(items, gone) /\ Fill(items, gone, lanes)

LEMMA EntriesAre ==
    ASSUME NEW ls, \A l \in LaneNames : ls[l] \in Seq(PacerEntry)
    PROVE  \A e : e \in Entries(ls) <=>
                     \E l \in LaneNames : \E n \in 1 .. Len(ls[l]) : e = ls[l][n]
<1>1. \A l \in LaneNames : DOMAIN ls[l] = 1 .. Len(ls[l])
  BY LenProperties
<1>2. \A l \in LaneNames : \A e : e \in ToSet(ls[l]) <=> \E n \in 1 .. Len(ls[l]) : e = ls[l][n]
  <2> TAKE l \in LaneNames
  <2>1. ToSet(ls[l]) = {ls[l][n] : n \in 1 .. Len(ls[l])}
    BY <1>1 DEF ToSet
  <2> QED BY <2>1
<1>3. \A e : e \in Entries(ls) <=> \E l \in LaneNames : e \in ToSet(ls[l])
  BY DEF Entries
<1> SUFFICES ASSUME NEW e
             PROVE  e \in Entries(ls) <=> \E l \in LaneNames : \E n \in 1 .. Len(ls[l]) : e = ls[l][n]
  OBVIOUS
<1>4. ASSUME e \in Entries(ls)
      PROVE  \E l \in LaneNames : \E n \in 1 .. Len(ls[l]) : e = ls[l][n]
  <2>1. PICK l \in LaneNames : e \in ToSet(ls[l])
    BY <1>3, <1>4
  <2>2. \E n \in 1 .. Len(ls[l]) : e = ls[l][n]
    BY <1>2, <2>1
  <2> QED BY <2>2
<1>5. ASSUME NEW l \in LaneNames, NEW n \in 1 .. Len(ls[l]), e = ls[l][n]
      PROVE  e \in Entries(ls)
  <2>1. e \in ToSet(ls[l])
    BY <1>2, <1>5
  <2> QED BY <1>3, <2>1
<1> QED BY <1>4, <1>5

LEMMA FilledEntries ==
    ASSUME NEW its, NEW g, NEW ls, Fill(its, g, ls)
    PROVE  /\ \A e : e \in Entries(ls) <=>
                        \E l \in LaneNames : \E n \in 1 .. Len(ls[l]) : e = ls[l][n]
           /\ \A e \in Entries(ls) : Fits(its, e, LaneOf(its[e.item].kind))
<1>1. \A l \in LaneNames : ls[l] \in Seq(PacerEntry)
  BY DEF Fill
<1>2. \A e : e \in Entries(ls) <=>
                \E l \in LaneNames : \E n \in 1 .. Len(ls[l]) : e = ls[l][n]
  BY <1>1, EntriesAre
<1>3. \A l \in LaneNames : \A n \in 1 .. Len(ls[l]) : Fits(its, ls[l][n], l)
  BY DEF Fill, Lane
<1>4. ASSUME NEW e, NEW l, Fits(its, e, l) PROVE l = LaneOf(its[e.item].kind)
  BY <1>4 DEF Fits
<1> QED BY <1>2, <1>3, <1>4

LEMMA OrdersAre ==
    ASSUME NEW its, Items(its)
    PROVE  /\ Len(its) \in 0 .. MaxItems
           /\ \A i \in 1 .. Len(its) :
                 /\ its[i].kind \in AllKinds
                 /\ its[i].order \in 1 .. MaxItems /\ its[i].order <= i
<1>1. its \in Seq(Item) /\ Len(its) \in Nat /\ MaxItems \in Nat
  BY LenProperties, Costs DEF Items
<1>2. \A i \in 1 .. Len(its) : its[i] \in Item
  BY <1>1, ElementOfSeq
<1> QED BY <1>1, <1>2 DEF Items, Item

\* No entry stands in two places.
LEMMA OnePlace ==
    ASSUME NEW its, NEW g, NEW ls, Items(its), Fill(its, g, ls),
           NEW k \in LaneNames, NEW l \in LaneNames,
           NEW m \in 1 .. Len(ls[k]), NEW n \in 1 .. Len(ls[l]), ls[k][m] = ls[l][n]
    PROVE  k = l /\ m = n
<1> DEFINE e == ls[k][m]
<1>1. Fits(its, e, k) /\ Fits(its, ls[l][n], l)
  BY DEF Fill, Lane
<1>2. k = l
  BY <1>1 DEF Fits
<1>3. ~Precedes(its, e, e)
  BY <1>1, OrdersAre DEF Fits, Precedes, Follows
<1>4. m \in Nat /\ n \in Nat
  BY LenProperties DEF Fill
<1>5. ~(m < n) /\ ~(n < m)
  BY <1>2, <1>3 DEF Fill, Lane
<1> QED BY <1>2, <1>4, <1>5

\* Entries of one item are parts of it, one before the other.
LEMMA PartsOfOne ==
    ASSUME NEW its, NEW g, NEW ls, Items(its), Fill(its, g, ls),
           NEW e \in Entries(ls), NEW f \in Entries(ls), e.item = f.item
    PROVE  e = f \/ Follows(e, f) \/ Follows(f, e)
<1>a. PICK k \in LaneNames : \E m \in 1 .. Len(ls[k]) : e = ls[k][m]
  BY FilledEntries
<1>b. PICK l \in LaneNames : \E n \in 1 .. Len(ls[l]) : f = ls[l][n]
  BY FilledEntries
<1>1. PICK m \in 1 .. Len(ls[k]) : e = ls[k][m]
  BY <1>a
<1>2. PICK n \in 1 .. Len(ls[l]) : f = ls[l][n]
  BY <1>b
<1>3. Fits(its, e, k) /\ Fits(its, f, l)
  BY <1>1, <1>2 DEF Fill, Lane
<1>4. k = l
  BY <1>3 DEF Fits
<1>5. m \in Nat /\ n \in Nat
  BY LenProperties DEF Fill
<1>6. m = n \/ Precedes(its, e, f) \/ Precedes(its, f, e)
  BY <1>1, <1>2, <1>4, <1>5 DEF Fill, Lane
<1>7. ~(its[e.item].order < its[e.item].order)
  BY <1>3, OrdersAre DEF Fits
<1> QED BY <1>1, <1>2, <1>4, <1>6, <1>7 DEF Precedes

\* js has in lane l what t has, and elsewhere what ls has.
Holds(js, ls, l, t) ==
    \A e : e \in Entries(js) <=>
       \/ \E n \in 1 .. Len(t) : e = t[n]
       \/ \E k \in LaneNames \ {l} : \E n \in 1 .. Len(ls[k]) : e = ls[k][n]

\* js is ls, with t for lane l, with e at one place of it; without what is of item i.
Put(js, ls, l, t) == js = [ls EXCEPT ![l] = t]
PutAt(js, ls, l, at, e) == js = [ls EXCEPT ![l][at] = e]
PutWithout(js, ls, i) ==
    js = [l \in LaneNames |-> Without(ls[l], {n \in DOMAIN ls[l] : ls[l][n].item = i})]

Parts(made) == {made[n] : n \in 1 .. Len(made)}
PartsAt(s, N) == {s[n] : n \in (1 .. Len(s)) \cap N}

\* One lane is replaced.
LEMMA LanePut ==
    ASSUME NEW its, NEW g, NEW ls, Fill(its, g, ls), NEW l \in LaneNames,
           NEW t, Lane(its, t, l), \A n \in 1 .. Len(t) : Past(its, g, t[n], l),
           NEW js, Put(js, ls, l, t)
    PROVE  Fill(its, g, js) /\ Holds(js, ls, l, t)
<1>1. /\ js \in [LaneNames -> Seq(PacerEntry)] /\ js[l] = t
      /\ \A k \in LaneNames \ {l} : js[k] = ls[k]
  BY DEF Fill, Lane, Put
<1>2. Fill(its, g, js)
  BY <1>1 DEF Fill
<1>3. \A e : e \in Entries(js) <=>
                \E k \in LaneNames : \E n \in 1 .. Len(js[k]) : e = js[k][n]
  BY ONLY <1>2, FilledEntries
<1>4. \A e : (\E k \in LaneNames : \E n \in 1 .. Len(js[k]) : e = js[k][n]) <=>
                 \/ \E n \in 1 .. Len(t) : e = t[n]
                 \/ \E k \in LaneNames \ {l} : \E n \in 1 .. Len(ls[k]) : e = ls[k][n]
  <2>1. \A e : (\E k \in LaneNames : \E n \in 1 .. Len(js[k]) : e = js[k][n]) <=>
                 \/ \E n \in 1 .. Len(js[l]) : e = js[l][n]
                 \/ \E k \in LaneNames \ {l} : \E n \in 1 .. Len(js[k]) : e = js[k][n]
    OBVIOUS
  <2> QED BY <1>1, <2>1
<1>5. \A e : e \in Entries(js) <=>
                 \/ \E n \in 1 .. Len(t) : e = t[n]
                 \/ \E k \in LaneNames \ {l} : \E n \in 1 .. Len(ls[k]) : e = ls[k][n]
  <2> TAKE e
  <2>1. e \in Entries(js) <=> \E k \in LaneNames : \E n \in 1 .. Len(js[k]) : e = js[k][n]
    BY ONLY <1>3
  <2>2. (\E k \in LaneNames : \E n \in 1 .. Len(js[k]) : e = js[k][n]) <=>
           \/ \E n \in 1 .. Len(t) : e = t[n]
           \/ \E k \in LaneNames \ {l} : \E n \in 1 .. Len(ls[k]) : e = ls[k][n]
    BY ONLY <1>4
  <2> QED BY ONLY <2>1, <2>2
<1> QED BY <1>2, <1>5 DEF Holds

LEMMA HeadIs ==
    ASSUME Queue, Pending > 0
    PROVE  /\ HeadLane \in LaneNames /\ lanes[HeadLane] \in Seq(PacerEntry)
           /\ lanes[HeadLane] # <<>>
           /\ 1 \in 1 .. Len(lanes[HeadLane]) /\ HeadEntry = lanes[HeadLane][1]
           /\ HeadEntry \in Waiting /\ Fits(items, HeadEntry, HeadLane)
<1>1. \A l \in LaneNames : /\ lanes[l] \in Seq(PacerEntry) /\ Len(lanes[l]) \in Nat
                           /\ lanes[l] = <<>> => Len(lanes[l]) = 0
  BY EmptySeq, LenProperties DEF Queue, Fill
<1>2. \E l \in LaneNames : /\ lanes[l] # <<>>
                           /\ l = "high" \/ lanes["high"] = <<>>
                           /\ l # "low" \/ lanes["normal"] = <<>>
  <2>1. lanes["high"] # <<>> \/ lanes["normal"] # <<>> \/ lanes["low"] # <<>>
    <3> SUFFICES ASSUME lanes["high"] = <<>>, lanes["normal"] = <<>>, lanes["low"] = <<>>
                 PROVE  FALSE
      OBVIOUS
    <3>1. Len(lanes["high"]) = 0 /\ Len(lanes["normal"]) = 0 /\ Len(lanes["low"]) = 0
      BY <1>1, LaneNamesAre
    <3> QED BY <3>1 DEF Pending
  <2>2. "high" \in LaneNames /\ "normal" \in LaneNames /\ "low" \in LaneNames
    BY LaneNamesAre
  <2>3. CASE lanes["high"] # <<>>
    BY <2>2, <2>3
  <2>4. CASE lanes["high"] = <<>> /\ lanes["normal"] # <<>>
    BY <2>2, <2>4
  <2>5. CASE lanes["high"] = <<>> /\ lanes["normal"] = <<>> /\ lanes["low"] # <<>>
    BY <2>2, <2>5
  <2> QED BY <2>1, <2>3, <2>4, <2>5
<1>3. HeadLane \in LaneNames /\ lanes[HeadLane] # <<>>
  BY <1>2 DEF HeadLane
<1>4. /\ lanes[HeadLane] \in Seq(PacerEntry) /\ 1 \in 1 .. Len(lanes[HeadLane])
      /\ HeadEntry = lanes[HeadLane][1]
  <2> DEFINE s == lanes[HeadLane]
  <2>1. s \in Seq(PacerEntry) /\ Len(s) \in Nat \ {0}
    BY <1>1, <1>3, EmptySeq
  <2>2. HeadEntry = s[1]
    BY DEF HeadEntry
  <2> QED BY <2>1, <2>2
<1>5. Waiting = Entries(lanes)
  BY DEF Waiting, Entries
<1>6. HeadEntry \in Waiting
  BY <1>3, <1>4, <1>5, FilledEntries DEF Queue
<1>7. Fits(items, HeadEntry, HeadLane)
  BY <1>3, <1>4 DEF Queue, Fill, Lane
<1> QED BY <1>3, <1>4, <1>6, <1>7

\* made is what h's thunk makes.
Makes(its, h, made) ==
    /\ made \in Seq(PacerEntry)
    /\ \A n \in 1 .. Len(made) : MadeOf(h, made[n])
    /\ \A m, n \in 1 .. Len(made) : m < n => Follows(made[m], made[n])
    /\ made # <<>> => its[h.item].kind \in {"secret", "keyA", "keyB"}

\* h goes before all that waits in its lane.
First(its, h, ls, l) ==
    \A e \in Entries(ls) : LaneOf(its[e.item].kind) = l => Precedes(its, h, e)

LEMMA FillShifts ==
    ASSUME NEW its, NEW g, NEW ls, Items(its), Fill(its, g, ls),
           NEW l \in LaneNames, ls[l] # <<>>, NEW made, Makes(its, ls[l][1], made),
           NEW js, Put(js, ls, l, made \o Tail(ls[l]))
    PROVE  /\ Fill(its, g, js)
           /\ Entries(js) = (Entries(ls) \ {ls[l][1]}) \union Parts(made)
           /\ made = <<>> => First(its, ls[l][1], js, l)
<1> DEFINE s == ls[l]
           t == made \o Tail(s)
<1>a. js = [ls EXCEPT ![l] = t]
  BY DEF Put
<1>1. Lane(its, s, l) /\ \A n \in 1 .. Len(s) : Past(its, g, s[n], l)
  BY DEF Fill
<1>2. /\ Lane(its, t, l)
      /\ Len(made) \in Nat /\ Len(s) \in Nat \ {0}
      /\ Len(t) = Len(made) + Len(s) - 1
      /\ \A n \in 1 .. Len(made) : t[n] = made[n]
      /\ \A n \in 2 .. Len(s) : t[Len(made) + n - 1] = s[n]
      /\ \A n \in 1 .. Len(t) :
            \/ n \in 1 .. Len(made)
            \/ \E k \in 2 .. Len(s) : n = Len(made) + k - 1
      /\ \A h, n : n \in 1 .. Len(made) /\ Past(its, h, s[1], l)
                      => Past(its, h, made[n], l)
  <2>1. /\ made \in Seq(PacerEntry)
        /\ \A n \in 1 .. Len(made) : MadeOf(s[1], made[n])
        /\ \A m, n \in 1 .. Len(made) : m < n => Follows(made[m], made[n])
        /\ made # <<>> => its[s[1].item].kind \in {"secret", "keyA", "keyB"}
    BY DEF Makes
  <2> QED BY <1>1, <2>1, LaneShifts
<1> HIDE DEF t, s
<1>3. \A n \in 1 .. Len(t) : Past(its, g, t[n], l)
  <2> TAKE n \in 1 .. Len(t)
  <2>1. CASE n \in 1 .. Len(made)
    <3>1. 1 \in 1 .. Len(s)
      BY <1>2
    <3>2. Past(its, g, s[1], l)
      BY <1>1, <3>1
    <3> QED BY <1>2, <2>1, <3>2
  <2>2. ASSUME NEW k \in 2 .. Len(s), n = Len(made) + k - 1 PROVE Past(its, g, t[n], l)
    <3>1. t[n] = s[k] /\ k \in 1 .. Len(s)
      BY <1>2, <2>2
    <3> QED BY <1>1, <3>1
  <2> QED BY <1>2, <2>1, <2>2
<1>4. \A e : (\E n \in 1 .. Len(t) : e = t[n]) <=>
                \/ \E n \in 1 .. Len(made) : e = made[n]
                \/ \E n \in 2 .. Len(s) : e = s[n]
  <2> TAKE e
  <2>1. ASSUME NEW n \in 1 .. Len(t), e = t[n]
        PROVE  \/ \E k \in 1 .. Len(made) : e = made[k]
               \/ \E k \in 2 .. Len(s) : e = s[k]
    BY <1>2, <2>1
  <2>2. ASSUME NEW n \in 1 .. Len(made), e = made[n] PROVE \E k \in 1 .. Len(t) : e = t[k]
    <3>1. n \in 1 .. Len(t) /\ e = t[n]
      BY <1>2, <2>2
    <3> QED BY <3>1
  <2>3. ASSUME NEW n \in 2 .. Len(s), e = s[n] PROVE \E k \in 1 .. Len(t) : e = t[k]
    <3>1. Len(made) + n - 1 \in 1 .. Len(t) /\ e = t[Len(made) + n - 1]
      BY <1>2, <2>3
    <3> QED BY <3>1
  <2> QED BY <2>1, <2>2, <2>3
<1>b. Fill(its, g, js) /\ Holds(js, ls, l, t)
  BY <1>a, <1>2, <1>3, LanePut DEF Put
<1>5. /\ Fill(its, g, js)
      /\ \A e : e \in Entries(js) <=>
            \/ \E n \in 1 .. Len(t) : e = t[n]
            \/ \E k \in LaneNames \ {l} : \E n \in 1 .. Len(ls[k]) : e = ls[k][n]
  BY <1>b DEF Holds
<1>6. \A e : e \in Entries(ls) <=>
                \E k \in LaneNames : \E n \in 1 .. Len(ls[k]) : e = ls[k][n]
  BY FilledEntries
<1>7. 1 \in 1 .. Len(ls[l]) /\ s[1] = ls[l][1]
  BY <1>2 DEF s
<1>8. ASSUME NEW k \in LaneNames, NEW n \in 1 .. Len(ls[k]), ls[k][n] = s[1]
      PROVE  k = l /\ n = 1
  BY <1>7, <1>8, OnePlace
<1>9. \A e : e \in Entries(js) <=>
                \/ e \in Entries(ls) /\ e # s[1]
                \/ \E n \in 1 .. Len(made) : e = made[n]
  <2> TAKE e
  <2>1. ASSUME e \in Entries(js)
        PROVE  \/ e \in Entries(ls) /\ e # s[1]
               \/ \E n \in 1 .. Len(made) : e = made[n]
    <3>1. CASE \E n \in 1 .. Len(made) : e = made[n]
      BY <3>1
    <3>2. ASSUME NEW n \in 2 .. Len(s), e = s[n] PROVE e \in Entries(ls) /\ e # s[1]
      <4>1. n \in 1 .. Len(ls[l]) /\ n # 1 /\ e = ls[l][n]
        BY <1>2, <3>2 DEF s
      <4> QED BY <1>6, <1>8, <4>1
    <3>3. ASSUME NEW k \in LaneNames \ {l}, NEW n \in 1 .. Len(ls[k]), e = ls[k][n]
          PROVE  e \in Entries(ls) /\ e # s[1]
      BY <1>6, <1>8, <3>3
    <3>4. \/ \E n \in 1 .. Len(made) : e = made[n]
          \/ \E n \in 2 .. Len(s) : e = s[n]
          \/ \E k \in LaneNames \ {l} : \E n \in 1 .. Len(ls[k]) : e = ls[k][n]
      BY <1>4, <1>5, <2>1
    <3> QED BY <3>1, <3>2, <3>3, <3>4
  <2>2. ASSUME e \in Entries(ls), e # s[1] PROVE e \in Entries(js)
    <3>1. PICK k \in LaneNames : \E n \in 1 .. Len(ls[k]) : e = ls[k][n]
      BY <1>6, <2>2
    <3>2. PICK n \in 1 .. Len(ls[k]) : e = ls[k][n]
      BY <3>1
    <3>3. CASE k = l
      <4>1. n \in 2 .. Len(s) /\ e = s[n]
        BY <1>2, <2>2, <3>2, <3>3 DEF s
      <4> QED BY <1>4, <1>5, <4>1
    <3>4. CASE k # l
      BY <1>5, <3>2, <3>4
    <3> QED BY <3>3, <3>4
  <2>3. ASSUME NEW n \in 1 .. Len(made), e = made[n] PROVE e \in Entries(js)
    BY <1>4, <1>5, <2>3
  <2> QED BY <2>1, <2>2, <2>3
<1>10. ASSUME made = <<>>, NEW e \in Entries(js), LaneOf(its[e.item].kind) = l
       PROVE  Precedes(its, s[1], e)
  <2>1. Len(made) = 0
    BY <1>10
  <2>a. ~\E n \in 1 .. Len(made) : e = made[n]
    BY <2>1
  <2>2. e \in Entries(ls) /\ e # s[1]
    BY ONLY e \in Entries(js), <1>9, <2>a
  <2>3. PICK k \in LaneNames : \E n \in 1 .. Len(ls[k]) : e = ls[k][n]
    BY <1>6, <2>2
  <2>4. PICK n \in 1 .. Len(ls[k]) : e = ls[k][n]
    BY <2>3
  <2>5. k = l
    BY <1>10, <2>4 DEF Fill, Lane, Fits
  <2>6. 1 < n
    BY <1>2, <2>2, <2>4, <2>5 DEF s
  <2> QED BY <1>1, <1>7, <2>4, <2>5, <2>6 DEF Lane, s
<1>11. Entries(js) = (Entries(ls) \ {s[1]}) \union Parts(made)
  BY ONLY <1>9 DEF Parts
<1> QED BY <1>5, <1>10, <1>11 DEF s, First

\* Younger than all there is.
Youngest(its, g, ls, e) ==
    /\ \A f \in Entries(ls) : Precedes(its, f, e)
    /\ \A l : Past(its, g, e, l)

LEMMA FillAppends ==
    ASSUME NEW its, NEW g, NEW ls, Items(its), Fill(its, g, ls),
           NEW l \in LaneNames, NEW N, NEW r, Lane(its, r, l), Leaves(ls[l], N, r),
           NEW e, Fits(its, e, l), Youngest(its, g, ls, e),
           NEW js, Put(js, ls, l, Append(r, e))
    PROVE  /\ Fill(its, g, js)
           /\ Entries(js) = (Entries(ls) \ PartsAt(ls[l], N)) \union {e}
<1> DEFINE s == ls[l]
           t == Append(r, e)
<1>a. js = [ls EXCEPT ![l] = t]
  BY DEF Put
<1>1. Lane(its, s, l) /\ \A n \in 1 .. Len(s) : Past(its, g, s[n], l)
  BY DEF Fill
<1>2. /\ Lane(its, r, l)
      /\ \A n \in 1 .. Len(r) : \E k \in (1 .. Len(s)) \ N : r[n] = s[k]
      /\ \A k \in (1 .. Len(s)) \ N : \E n \in 1 .. Len(r) : r[n] = s[k]
  BY DEF Leaves
<1> HIDE DEF s
<1>3. \A f : f \in Entries(ls) <=>
                \E k \in LaneNames : \E n \in 1 .. Len(ls[k]) : f = ls[k][n]
  BY FilledEntries
<1>4. \A n \in 1 .. Len(r) : r[n] \in Entries(ls) /\ Past(its, g, r[n], l)
  BY <1>1, <1>2, <1>3 DEF s
<1>5. /\ Lane(its, t, l)
      /\ Len(t) = Len(r) + 1 /\ Len(r) \in Nat
      /\ \A n \in 1 .. Len(r) : t[n] = r[n]
      /\ t[Len(r) + 1] = e
  BY <1>2, <1>4, LaneAppend DEF Youngest
<1> HIDE DEF t
<1>6. \A n \in 1 .. Len(t) : n \in 1 .. Len(r) \/ n = Len(r) + 1
  BY <1>5
<1>7. \A n \in 1 .. Len(t) : Past(its, g, t[n], l)
  BY <1>4, <1>5, <1>6 DEF Youngest
<1>c. Fill(its, g, js) /\ Holds(js, ls, l, t)
  BY <1>a, <1>5, <1>7, LanePut DEF Put
<1>8. /\ Fill(its, g, js)
      /\ \A f : f \in Entries(js) <=>
            \/ \E n \in 1 .. Len(t) : f = t[n]
            \/ \E k \in LaneNames \ {l} : \E n \in 1 .. Len(ls[k]) : f = ls[k][n]
  BY <1>c DEF Holds
<1>9. \A f : f \in Entries(js) <=>
                \/ f \in Entries(ls) /\ ~\E n \in (1 .. Len(s)) \cap N : f = s[n]
                \/ f = e
  <2> TAKE f
  <2>1. ASSUME f \in Entries(js), f # e
        PROVE  f \in Entries(ls) /\ ~\E n \in (1 .. Len(s)) \cap N : f = s[n]
    <3>1. ASSUME NEW n \in 1 .. Len(r), f = r[n]
          PROVE  f \in Entries(ls) /\ ~\E m \in (1 .. Len(s)) \cap N : f = s[m]
      <4>1. PICK k \in (1 .. Len(s)) \ N : r[n] = s[k]
        BY <1>2
      <4>2. \A m \in 1 .. Len(s) : s[m] = s[k] => m = k
        BY OnePlace DEF s
      <4> QED BY <1>4, <3>1, <4>1, <4>2
    <3>2. ASSUME NEW k \in LaneNames \ {l}, NEW n \in 1 .. Len(ls[k]), f = ls[k][n]
          PROVE  f \in Entries(ls) /\ ~\E m \in (1 .. Len(s)) \cap N : f = s[m]
      <4>1. \A m \in 1 .. Len(s) : s[m] # ls[k][n]
        BY OnePlace DEF s
      <4> QED BY <1>3, <3>2, <4>1
    <3>a. \/ \E n \in 1 .. Len(t) : f = t[n]
          \/ \E k \in LaneNames \ {l} : \E n \in 1 .. Len(ls[k]) : f = ls[k][n]
      BY ONLY <1>8, <2>1
    <3>3. \/ \E n \in 1 .. Len(r) : f = r[n]
          \/ \E k \in LaneNames \ {l} : \E n \in 1 .. Len(ls[k]) : f = ls[k][n]
      BY <1>5, <1>6, <2>1, <3>a
    <3> QED BY <3>1, <3>2, <3>3
  <2>2. ASSUME f \in Entries(ls), ~\E n \in (1 .. Len(s)) \cap N : f = s[n]
        PROVE  f \in Entries(js)
    <3>1. PICK k \in LaneNames : \E n \in 1 .. Len(ls[k]) : f = ls[k][n]
      BY <1>3, <2>2
    <3>2. PICK n \in 1 .. Len(ls[k]) : f = ls[k][n]
      BY <3>1
    <3>3. CASE k = l
      <4>1. n \in (1 .. Len(s)) \ N /\ f = s[n]
        BY <2>2, <3>2, <3>3 DEF s
      <4>2. PICK m \in 1 .. Len(r) : r[m] = s[n]
        BY <1>2, <4>1
      <4>3. m \in 1 .. Len(t) /\ t[m] = f
        BY <1>5, <4>1, <4>2
      <4> QED BY <1>8, <4>3
    <3>4. CASE k # l
      BY <1>8, <3>2, <3>4
    <3> QED BY <3>3, <3>4
  <2>3. e \in Entries(js)
    <3>1. Len(r) + 1 \in 1 .. Len(t) /\ t[Len(r) + 1] = e
      BY <1>5
    <3> QED BY <1>8, <3>1
  <2> QED BY <2>1, <2>2, <2>3
<1>10. Entries(js) = (Entries(ls) \ PartsAt(s, N)) \union {e}
  BY ONLY <1>9 DEF PartsAt
<1> QED BY <1>8, <1>10 DEF s

LEMMA FillReplaces ==
    ASSUME NEW its, NEW g, NEW ls, Items(its), Fill(its, g, ls),
           NEW l \in LaneNames, NEW at \in 1 .. Len(ls[l]), ls[l][at].stage = "whole",
           NEW e, Fits(its, e, l), e.stage = "whole",
           its[e.item].order = its[ls[l][at].item].order, e \notin Entries(ls),
           NEW js, PutAt(js, ls, l, at, e)
    PROVE  Fill(its, g, js) /\ Entries(js) = (Entries(ls) \ {ls[l][at]}) \union {e}
<1> DEFINE s == ls[l]
           t == [s EXCEPT ![at] = e]
<1>1. Lane(its, s, l) /\ \A n \in 1 .. Len(s) : Past(its, g, s[n], l)
  BY DEF Fill
<1>2. /\ Lane(its, t, l) /\ Len(t) = Len(s)
      /\ \A n \in 1 .. Len(s) : t[n] = IF n = at THEN e ELSE s[n]
      /\ \A h : Past(its, h, s[at], l) => Past(its, h, e, l)
  BY <1>1, LaneReplaces
<1>3. js = [ls EXCEPT ![l] = t]
  BY DEF Fill, PutAt
<1>4. \A f : f \in Entries(ls) <=>
                \E k \in LaneNames : \E n \in 1 .. Len(ls[k]) : f = ls[k][n]
  BY FilledEntries
<1> HIDE DEF t, s
<1>5. \A n \in 1 .. Len(t) : Past(its, g, t[n], l)
  <2> TAKE n \in 1 .. Len(t)
  <2>1. at \in 1 .. Len(s) /\ n \in 1 .. Len(s)
    BY <1>2 DEF s
  <2> QED BY <1>1, <1>2, <2>1
<1>6. Fill(its, g, js) /\ Holds(js, ls, l, t)
  BY <1>2, <1>3, <1>5, LanePut DEF Put
<1>7. ASSUME NEW f, f \in Entries(js), f # e PROVE f \in Entries(ls) /\ f # ls[l][at]
  <2>1. \/ \E n \in 1 .. Len(t) : f = t[n]
        \/ \E k \in LaneNames \ {l} : \E n \in 1 .. Len(ls[k]) : f = ls[k][n]
    BY <1>6, <1>7 DEF Holds
  <2>2. ASSUME NEW n \in 1 .. Len(t), f = t[n] PROVE f \in Entries(ls) /\ f # ls[l][at]
    <3>1. n # at /\ f = ls[l][n] /\ n \in 1 .. Len(ls[l])
      BY <1>2, <1>7, <2>2 DEF s
    <3> QED BY <1>4, <3>1, OnePlace
  <2>3. ASSUME NEW k \in LaneNames \ {l}, NEW n \in 1 .. Len(ls[k]), f = ls[k][n]
        PROVE  f \in Entries(ls) /\ f # ls[l][at]
    BY <1>4, <2>3, OnePlace
  <2> QED BY <2>1, <2>2, <2>3
<1>8. ASSUME NEW f, f \in Entries(ls), f # ls[l][at] PROVE f \in Entries(js)
  <2>1. PICK k \in LaneNames : \E n \in 1 .. Len(ls[k]) : f = ls[k][n]
    BY <1>4, <1>8
  <2>2. PICK n \in 1 .. Len(ls[k]) : f = ls[k][n]
    BY <2>1
  <2>3. CASE k = l
    <3>1. n \in 1 .. Len(t) /\ f = t[n]
      BY <1>2, <1>8, <2>2, <2>3 DEF s
    <3> QED BY <1>6, <3>1 DEF Holds
  <2>4. CASE k # l
    BY <1>6, <2>2, <2>4 DEF Holds
  <2> QED BY <2>3, <2>4
<1>9. e \in Entries(js) /\ ls[l][at] # e
  <2>1. at \in 1 .. Len(t) /\ t[at] = e
    BY <1>2 DEF s
  <2>2. ls[l][at] \in Entries(ls)
    BY <1>4
  <2> QED BY <1>6, <2>1, <2>2 DEF Holds
<1> QED BY <1>6, <1>7, <1>8, <1>9

\* What is cancelled leaves every lane.
LEMMA FillCancels ==
    ASSUME NEW its, NEW g, NEW ls, Items(its), Fill(its, g, ls), NEW i,
           NEW js, PutWithout(js, ls, i)
    PROVE  Fill(its, g, js) /\ Entries(js) = {e \in Entries(ls) : e.item # i}
<1> DEFINE N(l) == {n \in DOMAIN ls[l] : ls[l][n].item = i}
<1>1. \A l \in LaneNames : /\ Lane(its, ls[l], l) /\ ls[l] \in Seq(PacerEntry)
                           /\ \A n \in 1 .. Len(ls[l]) : Past(its, g, ls[l][n], l)
  BY DEF Fill
<1>2. \A l \in LaneNames : DOMAIN ls[l] = 1 .. Len(ls[l])
  BY <1>1, LenProperties
<1>3. \A l \in LaneNames : Lane(its, js[l], l) /\ Leaves(ls[l], N(l), js[l])
  <2> TAKE l \in LaneNames
  <2>1. js[l] = Without(ls[l], N(l))
    BY DEF PutWithout
  <2> HIDE DEF N
  <2> QED BY <1>1, <2>1, LaneWithout
<1>4. \A l \in LaneNames : \A n \in 1 .. Len(js[l]) :
         \E k \in 1 .. Len(ls[l]) : js[l][n] = ls[l][k] /\ ls[l][k].item # i
  <2> TAKE l \in LaneNames
  <2> TAKE n \in 1 .. Len(js[l])
  <2>1. PICK k \in (1 .. Len(ls[l])) \ N(l) : js[l][n] = ls[l][k]
    BY <1>3 DEF Leaves
  <2> QED BY <1>2, <2>1
<1>5. \A l \in LaneNames : \A k \in 1 .. Len(ls[l]) :
         ls[l][k].item # i => \E n \in 1 .. Len(js[l]) : js[l][n] = ls[l][k]
  BY <1>3 DEF Leaves
<1>6. Fill(its, g, js)
  <2>1. ASSUME NEW l \in LaneNames, NEW n \in 1 .. Len(js[l]) PROVE Past(its, g, js[l][n], l)
    <3>1. PICK k \in 1 .. Len(ls[l]) : js[l][n] = ls[l][k]
      BY <1>4
    <3>2. Past(its, g, ls[l][k], l)
      BY <1>1
    <3> QED BY ONLY <3>1, <3>2
  <2>2. js \in [LaneNames -> Seq(PacerEntry)]
    <3>1. \A l \in LaneNames : js[l] \in Seq(PacerEntry)
      BY <1>3 DEF Lane
    <3> QED BY <3>1 DEF PutWithout
  <2> QED BY <1>3, <2>1, <2>2 DEF Fill
<1>7. /\ \A f : f \in Entries(ls) <=>
                   \E k \in LaneNames : \E n \in 1 .. Len(ls[k]) : f = ls[k][n]
      /\ \A f : f \in Entries(js) <=>
                   \E k \in LaneNames : \E n \in 1 .. Len(js[k]) : f = js[k][n]
  <2>1. \A f : f \in Entries(ls) <=>
                  \E k \in LaneNames : \E n \in 1 .. Len(ls[k]) : f = ls[k][n]
    BY FilledEntries
  <2>2. \A f : f \in Entries(js) <=>
                  \E k \in LaneNames : \E n \in 1 .. Len(js[k]) : f = js[k][n]
    BY ONLY <1>6, FilledEntries
  <2> QED BY <2>1, <2>2
<1>8. ASSUME NEW e, e \in Entries(js) PROVE e \in Entries(ls) /\ e.item # i
  <2>1. PICK l \in LaneNames : \E n \in 1 .. Len(js[l]) : e = js[l][n]
    BY ONLY <1>7, <1>8
  <2>2. PICK n \in 1 .. Len(js[l]) : e = js[l][n]
    BY <2>1
  <2>3. PICK k \in 1 .. Len(ls[l]) : js[l][n] = ls[l][k] /\ ls[l][k].item # i
    BY <1>4
  <2> QED BY <1>7, <2>2, <2>3
<1>9. ASSUME NEW e, e \in Entries(ls), e.item # i PROVE e \in Entries(js)
  <2>1. PICK l \in LaneNames : \E n \in 1 .. Len(ls[l]) : e = ls[l][n]
    BY <1>7, <1>9
  <2>2. PICK k \in 1 .. Len(ls[l]) : e = ls[l][k]
    BY <2>1
  <2>3. PICK n \in 1 .. Len(js[l]) : js[l][n] = ls[l][k]
    BY <1>5, <1>9, <2>2
  <2> QED BY <1>7, <2>2, <2>3
<1> QED BY <1>6, <1>8, <1>9

LEMMA FillEmpty ==
    ASSUME NEW its, NEW g, NEW ls, ls = NoLines
    PROVE  Fill(its, g, ls) /\ Entries(ls) = {}
<1>1. <<>> \in Seq(PacerEntry) /\ Len(<<>>) = 0
  BY EmptySeq
<1>2. \A n \in 1 .. 0 : FALSE
  OBVIOUS
<1>3. \A l \in LaneNames : ls[l] = <<>>
  BY DEF NoLines
<1>4. ls \in [LaneNames -> Seq(PacerEntry)]
  BY <1>1 DEF NoLines
<1>5. Fill(its, g, ls)
  BY <1>1, <1>2, <1>3, <1>4 DEF Fill, Lane
<1>6. \A l \in LaneNames : ToSet(ls[l]) = {}
  BY <1>1, <1>2, <1>3 DEF ToSet
<1> QED BY <1>5, <1>6 DEF Entries

LEMMA FillGrows ==
    ASSUME NEW its, NEW jts, Grows(its, jts), NEW g, NEW ls, Went(its, g), Fill(its, g, ls)
    PROVE  Fill(jts, g, ls)
<1> SUFFICES ASSUME NEW l \in LaneNames
             PROVE  /\ Lane(jts, ls[l], l)
                    /\ \A n \in 1 .. Len(ls[l]) : Past(jts, g, ls[l][n], l)
  BY DEF Fill
<1>1. Lane(its, ls[l], l) /\ \A n \in 1 .. Len(ls[l]) : Past(its, g, ls[l][n], l)
  BY DEF Fill
<1>2. Lane(jts, ls[l], l)
  BY <1>1, LaneGrows
<1>3. \A n \in 1 .. Len(ls[l]) : ls[l][n].item \in 1 .. Len(its)
  BY <1>1 DEF Lane, Fits
<1> QED BY <1>1, <1>2, <1>3, WentGrows

-----------------------------------------------------------------------------
(* What each kind of step does to the lanes.                               *)

LEMMA WaitingIs == Waiting = Entries(lanes) /\ Waiting' = Entries(lanes')
BY DEF Waiting, Entries

LEMMA QueueKept ==
    ASSUME Queue, UNCHANGED <<items, mix, gone, lanes>>
    PROVE  Queue' /\ Waiting' = Waiting
BY DEF Queue, Waiting

LEMMA QueueEmptied ==
    ASSUME Queue, UNCHANGED <<items, mix, gone>>, lanes' = NoLines
    PROVE  Queue' /\ Waiting' = {}
<1>1. Fill(items, gone, lanes') /\ Entries(lanes') = {}
  BY FillEmpty
<1> QED BY <1>1, WaitingIs DEF Queue

\* The head leaves for what it made.
LEMMA QueueShifted ==
    ASSUME Queue, Pending > 0, NEW made, Shift(made), UNCHANGED <<items, mix, gone>>,
           Makes(items, HeadEntry, made)
    PROVE  Queue' /\ Waiting' = (Waiting \ {HeadEntry}) \union Parts(made)
<1> DEFINE l == HeadLane
           h == HeadEntry
<1>1. l \in LaneNames /\ lanes[l] # <<>> /\ h = lanes[l][1]
  BY HeadIs
<1>2. Items(items) /\ Fill(items, gone, lanes)
  BY DEF Queue
<1>3. Put(lanes', lanes, l, made \o Tail(lanes[l]))
  BY DEF Shift, Put
<1> HIDE DEF l, h
<1>4. Makes(items, lanes[l][1], made)
  BY <1>1 DEF h
<1>5. /\ Fill(items, gone, lanes')
      /\ Entries(lanes') = (Entries(lanes) \ {lanes[l][1]}) \union Parts(made)
  BY ONLY <1>1, <1>2, <1>3, <1>4, FillShifts
<1>6. Waiting' = (Waiting \ {h}) \union Parts(made)
  BY <1>1, <1>5, WaitingIs
<1> QED BY <1>5, <1>6 DEF Queue, h

LEMMA MakesNothing == ASSUME NEW its, NEW h PROVE Makes(its, h, <<>>) /\ Parts(<<>>) = {}
<1>1. <<>> \in Seq(PacerEntry) /\ Len(<<>>) = 0
  BY EmptySeq
<1>2. \A n \in 1 .. 0 : FALSE
  OBVIOUS
<1> QED BY <1>1, <1>2 DEF Makes, Parts

\* The head leaves, and nothing in its place.
LEMMA QueueLeft ==
    ASSUME Queue, Pending > 0, Shift(<<>>), UNCHANGED <<items, mix, gone>>
    PROVE  Queue' /\ Waiting' = Waiting \ {HeadEntry}
BY QueueShifted, MakesNothing

LEMMA WentAppends ==
    ASSUME NEW its, NEW g, Went(its, g), NEW l, NEW e, Fits(its, e, l), Past(its, g, e, l)
    PROVE  /\ Went(its, Append(g, e))
           /\ \A f : Past(its, g, f, l) /\ Precedes(its, e, f)
                        => Past(its, Append(g, e), f, l)
           /\ \A f, k : k # l /\ Past(its, g, f, k) => Past(its, Append(g, e), f, k)
<1> DEFINE h == Append(g, e)
<1>1. g \in Seq(PacerEntry) /\ e \in PacerEntry /\ Len(g) \in Nat
  BY LenProperties DEF Went, Fits
<1>2. /\ h \in Seq(PacerEntry) /\ Len(h) = Len(g) + 1
      /\ \A n \in 1 .. Len(g) : h[n] = g[n]
      /\ h[Len(g) + 1] = e
  BY <1>1, AppendProperties
<1> HIDE DEF h
<1>3. \A n \in 1 .. Len(h) : n \in 1 .. Len(g) \/ n = Len(g) + 1
  BY <1>1, <1>2
<1>4. \A n \in 1 .. Len(h) : h[n].item \in 1 .. Len(its)
  BY <1>2, <1>3 DEF Went, Fits
<1>5. ASSUME NEW m \in 1 .. Len(h), NEW n \in 1 .. Len(h), m < n,
             LaneOf(its[h[m].item].kind) = LaneOf(its[h[n].item].kind)
      PROVE  Precedes(its, h[m], h[n])
  <2>1. m \in 1 .. Len(g)
    BY <1>1, <1>2, <1>5
  <2>2. CASE n \in 1 .. Len(g)
    BY <1>2, <1>5, <2>1, <2>2 DEF Went
  <2>3. CASE n = Len(g) + 1
    <3>1. h[n] = e /\ h[m] = g[m] /\ LaneOf(its[e.item].kind) = l
      BY <1>2, <2>1, <2>3 DEF Fits
    <3> QED BY <1>5, <2>1, <3>1 DEF Past
  <2> QED BY <1>3, <2>2, <2>3
<1>6. Went(its, h)
  BY <1>2, <1>4, <1>5 DEF Went
<1>7. ASSUME NEW f, Past(its, g, f, l), Precedes(its, e, f) PROVE Past(its, h, f, l)
  BY <1>2, <1>3, <1>7 DEF Past
<1>8. ASSUME NEW f, NEW k, k # l, Past(its, g, f, k) PROVE Past(its, h, f, k)
  BY <1>2, <1>3, <1>8 DEF Past, Fits
<1> QED BY <1>6, <1>7, <1>8 DEF h

\* The head goes to the socket.
LEMMA QueueSent ==
    ASSUME Queue, Pending > 0, Shift(<<>>), UNCHANGED <<items, mix>>,
           gone' = Append(gone, HeadEntry)
    PROVE  Queue' /\ Waiting' = Waiting \ {HeadEntry}
<1> DEFINE l == HeadLane
           h == HeadEntry
<1>1. /\ l \in LaneNames /\ lanes[l] # <<>> /\ h = lanes[l][1] /\ 1 \in 1 .. Len(lanes[l])
      /\ Fits(items, h, l)
  BY HeadIs
<1>2. Items(items) /\ Fill(items, gone, lanes) /\ Went(items, gone) /\ mix \in Mixes
  BY DEF Queue
<1>3. Put(lanes', lanes, l, <<>> \o Tail(lanes[l]))
  BY DEF Shift, Put
<1> HIDE DEF l, h
<1>4. /\ Fill(items, gone, lanes')
      /\ Entries(lanes') = Entries(lanes) \ {h}
      /\ First(items, h, lanes', l)
  <2>1. PICK made : made = <<>>
    OBVIOUS
  <2>2. Makes(items, lanes[l][1], made) /\ Parts(made) = {}
    BY <2>1, MakesNothing
  <2>3. Put(lanes', lanes, l, made \o Tail(lanes[l]))
    BY <1>3, <2>1
  <2>4. /\ Fill(items, gone, lanes')
        /\ Entries(lanes') = (Entries(lanes) \ {lanes[l][1]}) \union Parts(made)
        /\ made = <<>> => First(items, lanes[l][1], lanes', l)
    BY ONLY <1>1, <1>2, <2>2, <2>3, FillShifts
  <2> QED BY <1>1, <2>1, <2>2, <2>4
<1>5. Past(items, gone, h, l)
  BY <1>1, <1>2 DEF Fill
<1>6. /\ Went(items, gone')
      /\ \A f : Past(items, gone, f, l) /\ Precedes(items, h, f) => Past(items, gone', f, l)
      /\ \A f, k : k # l /\ Past(items, gone, f, k) => Past(items, gone', f, k)
  BY <1>1, <1>2, <1>5, WentAppends DEF h
<1>7. Fill(items, gone', lanes')
  <2> SUFFICES ASSUME NEW k \in LaneNames, NEW n \in 1 .. Len(lanes'[k])
               PROVE  Past(items, gone', lanes'[k][n], k)
    BY <1>4 DEF Fill
  <2>1. Past(items, gone, lanes'[k][n], k) /\ Fits(items, lanes'[k][n], k)
    BY <1>4 DEF Fill, Lane
  <2>2. lanes'[k][n] \in Entries(lanes')
    BY <1>4, FilledEntries
  <2>3. CASE k = l
    <3>1. Precedes(items, h, lanes'[k][n])
      BY <1>4, <2>1, <2>2, <2>3 DEF Fits, First
    <3> QED BY <1>6, <2>1, <2>3, <3>1
  <2>4. CASE k # l
    BY <1>6, <2>1, <2>4
  <2> QED BY <2>3, <2>4
<1>8. Waiting' = Waiting \ {h}
  BY <1>4, WaitingIs
<1> QED BY <1>2, <1>6, <1>7, <1>8 DEF Queue, h

LEMMA QueueCancelled ==
    ASSUME Queue, UNCHANGED <<items, mix, gone>>, NEW i, PutWithout(lanes', lanes, i)
    PROVE  Queue' /\ Waiting' = {e \in Waiting : e.item # i}
<1>1. Items(items) /\ Fill(items, gone, lanes)
  BY DEF Queue
<1>2. Fill(items, gone, lanes') /\ Entries(lanes') = {e \in Entries(lanes) : e.item # i}
  BY ONLY <1>1, FillCancels, PutWithout(lanes', lanes, i)
<1> QED BY <1>2, WaitingIs DEF Queue

\* A new item is younger than all there is.
LEMMA ItemArrives ==
    ASSUME Queue, NEW kind \in mix.kinds, Len(items) < mix.most, NEW o \in 1 .. New,
           items' = Append(items, [kind |-> kind, order |-> o])
    PROVE  /\ Items(items') /\ Grows(items, items')
           /\ New \in 1 .. MaxItems /\ Len(items') = New
           /\ items'[New] = [kind |-> kind, order |-> o]
           /\ kind \in AllKinds
<1>1. /\ mix.kinds \subseteq AllKinds /\ mix.most \in 0 .. MaxItems /\ MaxItems \in Nat
      /\ Items(items)
  BY PacerConstants, Costs DEF Queue
<1>2. Len(items) \in Nat /\ items \in Seq(Item)
  BY <1>1, LenProperties DEF Items
<1>3. New \in 1 .. MaxItems /\ New = Len(items) + 1
  BY <1>1, <1>2 DEF New
<1>4. [kind |-> kind, order |-> o] \in Item
  BY <1>1, <1>3 DEF Item
<1>5. /\ items' \in Seq(Item) /\ Len(items') = Len(items) + 1
      /\ \A i \in 1 .. Len(items) : items'[i] = items[i]
      /\ items'[Len(items) + 1] = [kind |-> kind, order |-> o]
  BY <1>2, <1>4, AppendProperties
<1>6. Grows(items, items')
  BY <1>2, <1>5 DEF Grows
<1>7. \A i \in 1 .. Len(items') : items'[i].order <= i
  <2> TAKE i \in 1 .. Len(items')
  <2>1. CASE i \in 1 .. Len(items)
    BY <1>1, <1>5, <2>1 DEF Items
  <2>2. CASE i = New
    BY <1>3, <1>5, <2>2
  <2> QED BY <1>2, <1>3, <1>5, <2>1, <2>2
<1> QED BY <1>1, <1>3, <1>5, <1>6, <1>7 DEF Items

\* What is written past the lanes.
LEMMA QueuePassed ==
    ASSUME Queue, NEW kind \in mix.kinds, Len(items) < mix.most, Arrives(kind),
           UNCHANGED <<lanes, gone, mix>>
    PROVE  /\ Queue' /\ Waiting' = Waiting /\ Grows(items, items')
           /\ New \in 1 .. MaxItems /\ Len(items') = New
           /\ items'[New] = [kind |-> kind, order |-> New]
<1>1. Len(items) \in Nat /\ Items(items) /\ Went(items, gone) /\ Fill(items, gone, lanes)
  BY LenProperties DEF Queue, Items
<1>2. New \in 1 .. New
  BY <1>1 DEF New
<1>3. /\ Items(items') /\ Grows(items, items')
      /\ New \in 1 .. MaxItems /\ Len(items') = New
      /\ items'[New] = [kind |-> kind, order |-> New]
  BY <1>2, ItemArrives DEF Arrives
<1>4. Went(items', gone)
  BY <1>1, <1>3, WentGrows
<1>5. Fill(items', gone, lanes)
  BY <1>1, <1>3, FillGrows
<1> QED BY <1>3, <1>4, <1>5 DEF Queue, Waiting

LEMMA NewIsYoungest ==
    ASSUME Queue, NEW kind \in mix.kinds, Len(items) < mix.most, Arrives(kind)
    PROVE  /\ Fits(items', Part(New, "whole"), LaneOf(kind))
           /\ LaneOf(kind) \in LaneNames
           /\ Youngest(items', gone, lanes, Part(New, "whole"))
           /\ Items(items') /\ Fill(items', gone, lanes) /\ Went(items', gone)
           /\ Grows(items, items') /\ New \in 1 .. MaxItems /\ Len(items') = New
           /\ items'[New] = [kind |-> kind, order |-> New]
<1> DEFINE e == Part(New, "whole")
<1>1. Len(items) \in Nat /\ Items(items) /\ Went(items, gone) /\ Fill(items, gone, lanes)
  BY LenProperties DEF Queue, Items
<1>2. New \in 1 .. New /\ New = Len(items) + 1
  BY <1>1 DEF New
<1>3. /\ Items(items') /\ Grows(items, items')
      /\ New \in 1 .. MaxItems /\ Len(items') = New
      /\ items'[New] = [kind |-> kind, order |-> New] /\ kind \in AllKinds
  BY <1>2, ItemArrives DEF Arrives
<1>4. Went(items', gone) /\ Fill(items', gone, lanes)
  BY <1>1, <1>3, WentGrows, FillGrows
<1>5. e.item = New /\ e.stage = "whole" /\ e \in PacerEntry
  BY <1>3, StagesAre DEF Part, PacerEntry
<1> HIDE DEF e
<1>6. LaneOf(kind) \in LaneNames
  BY LaneNamesAre DEF LaneOf
<1>7. Fits(items', e, LaneOf(kind))
  BY <1>3, <1>5 DEF Fits
<1>8. ASSUME NEW f, f.item \in 1 .. Len(items) PROVE Precedes(items', f, e)
  <2>1. items'[f.item] = items[f.item] /\ items[f.item].order \in Nat
    BY <1>1, <1>3, <1>8, OrdersAre DEF Grows
  <2>2. items[f.item].order <= f.item
    BY <1>1, <1>8 DEF Items
  <2>3. items'[e.item].order = New
    BY <1>3, <1>5
  <2> QED BY <1>1, <1>2, <1>8, <2>1, <2>2, <2>3 DEF Precedes
<1>9. \A f \in Entries(lanes) : Precedes(items', f, e)
  <2> TAKE f \in Entries(lanes)
  <2>1. f.item \in 1 .. Len(items)
    BY <1>1, FilledEntries DEF Fits
  <2> QED BY <1>8, <2>1
<1>10. \A l : Past(items', gone, e, l)
  BY <1>1, <1>8 DEF Past, Went
<1> QED BY <1>3, <1>4, <1>6, <1>7, <1>9, <1>10 DEF Youngest, e

LEMMA QueueJoined ==
    ASSUME Queue, NEW kind \in mix.kinds, Len(items) < mix.most, Arrives(kind),
           UNCHANGED <<gone, mix>>, NEW N, NEW r,
           Lane(items, r, LaneOf(kind)), Leaves(lanes[LaneOf(kind)], N, r),
           Put(lanes', lanes, LaneOf(kind), Append(r, Part(New, "whole")))
    PROVE  /\ Queue' /\ Grows(items, items')
           /\ Waiting' = (Waiting \ PartsAt(lanes[LaneOf(kind)], N)) \union {Part(New, "whole")}
           /\ New \in 1 .. MaxItems /\ Len(items') = New
           /\ items'[New] = [kind |-> kind, order |-> New]
<1> DEFINE e == Part(New, "whole")
           l == LaneOf(kind)
<1>1. /\ Fits(items', e, l) /\ l \in LaneNames /\ Youngest(items', gone, lanes, e)
      /\ Items(items') /\ Fill(items', gone, lanes) /\ Went(items', gone)
      /\ Grows(items, items') /\ New \in 1 .. MaxItems /\ Len(items') = New
      /\ items'[New] = [kind |-> kind, order |-> New]
  BY NewIsYoungest
<1>2. Lane(items, r, l) /\ Leaves(lanes[l], N, r) /\ Put(lanes', lanes, l, Append(r, e))
  OBVIOUS
<1> HIDE DEF e, l
<1>3. Lane(items', r, l)
  BY <1>1, <1>2, LaneGrows
<1>4. /\ Fill(items', gone, lanes')
      /\ Entries(lanes') = (Entries(lanes) \ PartsAt(lanes[l], N)) \union {e}
  <2>1. Items(items') /\ Fill(items', gone, lanes)
    BY <1>1
  <2>2. Lane(items', r, l) /\ Leaves(lanes[l], N, r) /\ l \in LaneNames
    BY <1>1, <1>2, <1>3
  <2>3. Fits(items', e, l) /\ Youngest(items', gone, lanes, e)
    BY <1>1
  <2>4. Put(lanes', lanes, l, Append(r, e))
    BY <1>2
  <2> QED BY ONLY <2>1, <2>2, <2>3, <2>4, FillAppends
<1>5. Waiting' = (Waiting \ PartsAt(lanes[l], N)) \union {e}
  BY <1>4, WaitingIs
<1> QED BY <1>1, <1>4, <1>5 DEF Queue, e, l

\* A new entry at the end of its lane.
LEMMA QueueWritten ==
    ASSUME Queue, NEW kind \in mix.kinds, WriteQueued(kind), mix' = mix
    PROVE  /\ Queue' /\ Grows(items, items')
           /\ Waiting' = Waiting \union {Part(New, "whole")}
           /\ New \in 1 .. MaxItems /\ Len(items') = New
           /\ items'[New] = [kind |-> kind, order |-> New]
<1> DEFINE l == LaneOf(kind)
<1>1. l \in LaneNames
  BY LaneNamesAre DEF LaneOf
<1>2. Lane(items, lanes[l], l) /\ Leaves(lanes[l], {}, lanes[l])
  BY <1>1 DEF Queue, Fill, Leaves
<1>3. Put(lanes', lanes, l, Append(lanes[l], Part(New, "whole"))) /\ Arrives(kind)
      /\ Len(items) < mix.most /\ gone' = gone
  BY DEF WriteQueued, Put, MayWrite
<1>4. PartsAt(lanes[l], {}) = {}
  BY DEF PartsAt
<1> HIDE DEF l
<1>5. /\ Queue' /\ Grows(items, items')
      /\ Waiting' = (Waiting \ PartsAt(lanes[l], {})) \union {Part(New, "whole")}
      /\ New \in 1 .. MaxItems /\ Len(items') = New
      /\ items'[New] = [kind |-> kind, order |-> New]
  BY <1>2, <1>3, QueueJoined DEF l
<1> QED BY <1>4, <1>5

\* Where keyed items wait.
LEMMA KeyedAre ==
    ASSUME Queue, NEW n \in KeyedWaiting
    PROVE  /\ n \in 1 .. Len(lanes["normal"])
           /\ lanes["normal"][n].stage = "whole" /\ Keyed(KindOf(lanes["normal"][n]))
           /\ lanes["normal"][n] \in Waiting
           /\ Fits(items, lanes["normal"][n], "normal")
<1>1. Fill(items, gone, lanes) /\ "normal" \in LaneNames
  BY LaneNamesAre DEF Queue
<1>2. DOMAIN lanes["normal"] = 1 .. Len(lanes["normal"])
  BY <1>1, LenProperties DEF Fill
<1>3. n \in 1 .. Len(lanes["normal"])
  BY <1>2 DEF KeyedWaiting
<1>4. lanes["normal"][n] \in Waiting
  BY <1>1, <1>3, FilledEntries, WaitingIs
<1>5. Fits(items, lanes["normal"][n], "normal")
  BY <1>1, <1>3 DEF Fill, Lane
<1> QED BY <1>3, <1>4, <1>5 DEF KeyedWaiting

LEMMA QueueReplaced ==
    ASSUME Queue, NEW kind \in mix.kinds, WriteReplacing(kind), mix' = mix
    PROVE  /\ Queue' /\ Grows(items, items')
           /\ \E old \in Waiting :
                 /\ old.stage = "whole" /\ Keyed(KindOf(old))
                 /\ Waiting' = (Waiting \ {old}) \union {Part(New, "whole")}
           /\ New \in 1 .. MaxItems /\ Len(items') = New /\ items'[New].kind = kind
<1>1. PICK at \in Predecessors(kind) :
         /\ items' = Append(items, [kind |-> kind,
                                    order |-> items[lanes["normal"][at].item].order])
         /\ lanes' = [lanes EXCEPT !["normal"][at] = Part(New, "whole")]
  BY DEF WriteReplacing
<1> DEFINE e == Part(New, "whole")
           old == lanes["normal"][at]
           o == items[old.item].order
<1>2. at \in KeyedWaiting /\ KindOf(old) = kind
  BY DEF Predecessors
<1>3. /\ at \in 1 .. Len(lanes["normal"]) /\ old.stage = "whole" /\ Keyed(KindOf(old))
      /\ old \in Waiting /\ Fits(items, old, "normal")
  BY <1>2, KeyedAre
<1>4. /\ Items(items) /\ Fill(items, gone, lanes) /\ Went(items, gone)
      /\ Len(items) \in Nat /\ Len(items) < mix.most /\ New = Len(items) + 1
      /\ gone' = gone
  BY LenProperties DEF Queue, Items, WriteReplacing, MayWrite, New
<1>5. old.item \in 1 .. Len(items) /\ o \in 1 .. New
  <2>1. old.item \in 1 .. Len(items)
    BY <1>3 DEF Fits
  <2>2. o \in 1 .. MaxItems /\ o <= old.item
    BY <1>4, <2>1, OrdersAre
  <2>3. MaxItems \in Nat
    BY Costs
  <2> QED BY <1>4, <2>1, <2>2, <2>3
<1> HIDE DEF o
<1>6. /\ Items(items') /\ Grows(items, items')
      /\ New \in 1 .. MaxItems /\ Len(items') = New
      /\ items'[New] = [kind |-> kind, order |-> o] /\ kind \in AllKinds
  BY <1>1, <1>4, <1>5, ItemArrives DEF o
<1>7. Went(items', gone) /\ Fill(items', gone, lanes)
  BY <1>4, <1>6, WentGrows, FillGrows
<1>8. e.item = New /\ e.stage = "whole" /\ e \in PacerEntry
  BY <1>6, StagesAre DEF Part, PacerEntry
<1>9. PutAt(lanes', lanes, "normal", at, e) /\ "normal" \in LaneNames
  BY <1>1, LaneNamesAre DEF PutAt
<1> HIDE DEF e, old
<1>10. LaneOf(kind) = "normal"
  BY <1>2, <1>3 DEF Keyed, LaneOf
<1>11. Fits(items', e, "normal")
  BY <1>6, <1>8, <1>10 DEF Fits
<1>12. items'[e.item].order = items'[old.item].order
  BY <1>5, <1>6, <1>8 DEF Grows, o
<1>13. e \notin Entries(lanes)
  <2>1. \A f \in Entries(lanes) : f.item \in 1 .. Len(items)
    BY <1>4, FilledEntries DEF Fits
  <2>2. New \notin 1 .. Len(items)
    BY <1>4
  <2> QED BY <1>8, <2>1, <2>2
<1>14. Fill(items', gone, lanes') /\ Entries(lanes') = (Entries(lanes) \ {old}) \union {e}
  <2>1. lanes["normal"][at] = old
    BY DEF old
  <2> QED BY ONLY <1>3, <1>6, <1>7, <1>8, <1>9, <1>11, <1>12, <1>13, <2>1, FillReplaces
<1>15. Queue'
  BY <1>4, <1>6, <1>7, <1>14 DEF Queue
<1>16. Waiting' = (Waiting \ {old}) \union {e}
  BY <1>14, WaitingIs
<1> QED BY <1>3, <1>6, <1>15, <1>16 DEF e

\* The oldest make room.
LEMMA QueueKeyed ==
    ASSUME Queue, NEW kind \in mix.kinds, WriteKeyed(kind), mix' = mix
    PROVE  /\ Queue' /\ Grows(items, items')
           /\ \E out \in SUBSET Waiting :
                 /\ \A e \in out : e.stage = "whole" /\ Keyed(KindOf(e))
                 /\ TellDropped(UNION {HooksOf(e) : e \in out})
                 /\ Waiting' = (Waiting \ out) \union {Part(New, "whole")}
           /\ New \in 1 .. MaxItems /\ Len(items') = New /\ items'[New].kind = kind
<1> DEFINE N == {n \in KeyedWaiting : Cardinality({m \in KeyedWaiting : m >= n}) >= MaxKeyed}
           s == lanes["normal"]
           r == Without(s, N)
           out == PartsAt(s, N)
<1>1. /\ Arrives(kind) /\ Len(items) < mix.most /\ Keyed(kind) /\ gone' = gone
      /\ lanes' = [lanes EXCEPT !["normal"] = Append(r, Part(New, "whole"))]
      /\ TellDropped(UNION {HooksOf(s[n]) : n \in N})
  BY DEF WriteKeyed, MayWrite
<1>2. N \subseteq KeyedWaiting
  OBVIOUS
<1> HIDE DEF N
<1>3. LaneOf(kind) = "normal" /\ "normal" \in LaneNames
  BY <1>1, LaneNamesAre DEF Keyed, LaneOf
<1>4. Lane(items, s, "normal")
  BY <1>3 DEF Queue, Fill
<1> HIDE DEF s
<1>5. Lane(items, r, "normal") /\ Leaves(s, N, r)
  BY <1>4, LaneWithout
<1> HIDE DEF r
<1>6. Put(lanes', lanes, "normal", Append(r, Part(New, "whole")))
  BY <1>1 DEF Put
<1>7. /\ Queue' /\ Grows(items, items')
      /\ Waiting' = (Waiting \ out) \union {Part(New, "whole")}
      /\ New \in 1 .. MaxItems /\ Len(items') = New
      /\ items'[New] = [kind |-> kind, order |-> New]
  BY <1>1, <1>3, <1>5, <1>6, QueueJoined DEF s
<1>8. \A n \in N : n \in 1 .. Len(s) /\ s[n].stage = "whole" /\ Keyed(KindOf(s[n])) /\ s[n] \in Waiting
  BY <1>2, KeyedAre DEF s
<1>9. out = {s[n] : n \in N}
  BY <1>8 DEF PartsAt
<1>10. UNION {HooksOf(e) : e \in out} = UNION {HooksOf(s[n]) : n \in N}
  <2>1. {HooksOf(e) : e \in out} = {HooksOf(s[n]) : n \in N}
    BY <1>9
  <2> QED BY <2>1
<1>11. out \in SUBSET Waiting /\ \A e \in out : e.stage = "whole" /\ Keyed(KindOf(e))
  BY <1>8, <1>9
<1> HIDE DEF out
<1>12. TellDropped(UNION {HooksOf(e) : e \in out})
  <2>1. PICK h : h = UNION {HooksOf(s[n]) : n \in N}
    OBVIOUS
  <2>2. TellDropped(h)
    BY <1>1, <2>1
  <2>3. h = UNION {HooksOf(e) : e \in out}
    BY <1>10, <2>1
  <2> QED BY ONLY <2>2, <2>3
<1>13. \E away \in SUBSET Waiting :
           /\ \A e \in away : e.stage = "whole" /\ Keyed(KindOf(e))
           /\ TellDropped(UNION {HooksOf(e) : e \in away})
           /\ Waiting' = (Waiting \ away) \union {Part(New, "whole")}
  <2>1. out \in SUBSET Waiting
    BY <1>11
  <2> WITNESS out \in SUBSET Waiting
  <2> QED BY <1>7, <1>11, <1>12
<1>14. /\ Queue' /\ Grows(items, items')
       /\ New \in 1 .. MaxItems /\ Len(items') = New /\ items'[New].kind = kind
  BY <1>7
<1> QED BY ONLY <1>13, <1>14

-----------------------------------------------------------------------------
(* What a thunk makes.                                                     *)

LEMMA MakesOne ==
    ASSUME NEW its, NEW h, NEW x, MadeOf(h, x), its[h.item].kind \in {"secret", "keyA", "keyB"}
    PROVE  Makes(its, h, <<x>>) /\ Parts(<<x>>) = {x}
<1>1. <<x>> \in Seq(PacerEntry) /\ Len(<<x>>) = 1 /\ <<x>>[1] = x
  BY DEF MadeOf
<1>2. \A n \in 1 .. Len(<<x>>) : n = 1
  BY <1>1
<1>3. Makes(its, h, <<x>>)
  <2>1. \A m, n \in 1 .. Len(<<x>>) : ~(m < n)
    BY <1>1
  <2> QED BY <1>1, <1>2, <2>1 DEF Makes
<1>4. Parts(<<x>>) = {x}
  <2>1. 1 \in 1 .. Len(<<x>>)
    BY <1>1
  <2> QED BY <1>1, <1>2, <2>1 DEF Parts
<1> QED BY <1>3, <1>4

LEMMA MakesTwo ==
    ASSUME NEW its, NEW h, NEW x, MadeOf(h, x), NEW y, MadeOf(h, y), Follows(x, y),
           its[h.item].kind \in {"secret", "keyA", "keyB"}
    PROVE  Makes(its, h, <<x, y>>) /\ Parts(<<x, y>>) = {x, y}
<1> DEFINE q == <<x, y>>
<1>1. q \in Seq(PacerEntry) /\ Len(q) = 2 /\ q[1] = x /\ q[2] = y /\ q # <<>>
  BY DEF MadeOf
<1> HIDE DEF q
<1>2. \A n \in 1 .. Len(q) : n = 1 \/ n = 2
  BY <1>1
<1>3. Makes(its, h, q)
  <2>1. \A m, n \in 1 .. Len(q) : m < n => m = 1 /\ n = 2
    BY <1>1
  <2>2. \A n \in 1 .. Len(q) : MadeOf(h, q[n])
    BY <1>1, <1>2
  <2>3. \A m, n \in 1 .. Len(q) : m < n => Follows(q[m], q[n])
    BY <1>1, <2>1
  <2> QED BY <1>1, <2>2, <2>3 DEF Makes
<1>4. Parts(q) = {x, y}
  <2>1. 1 \in 1 .. Len(q) /\ 2 \in 1 .. Len(q)
    BY <1>1
  <2> QED BY <1>1, <1>2, <2>1 DEF Parts
<1> QED BY <1>3, <1>4 DEF q

\* The REKEYs that are due, then the message.
LEMMA DueAre ==
    ASSUME NEW x, NEW y, NEW due \in {0, 1}
    PROVE  /\ due = 0 => [n \in 1 .. due |-> x] \o <<y>> = <<y>>
           /\ due = 1 => [n \in 1 .. due |-> x] \o <<y>> = <<x, y>>
<1> DEFINE p == [n \in 1 .. due |-> x]
           q == p \o <<y>>
<1>1. /\ p \in Seq({x}) /\ Len(p) = due /\ \A n \in 1 .. due : p[n] = x
      /\ due \in Nat
  BY SeqDef, LenProperties
<1>2. <<y>> \in Seq({y}) /\ Len(<<y>>) = 1 /\ <<y>>[1] = y
  OBVIOUS
<1> HIDE DEF p
<1>3. /\ p \in Seq({x, y}) /\ <<y>> \in Seq({x, y})
  BY <1>1, <1>2
<1>4. /\ q \in Seq({x, y}) /\ Len(q) = due + 1
      /\ \A n \in 1 .. due + 1 : q[n] = IF n <= due THEN p[n] ELSE <<y>>[n - due]
  BY <1>1, <1>2, <1>3, ConcatProperties
<1> HIDE DEF q
<1>5. CASE due = 0
  <2>1. Len(q) = 1 /\ q[1] = y
    BY <1>1, <1>2, <1>4, <1>5
  <2>2. <<y>> \in Seq({x, y})
    BY <1>3
  <2>3. \A n \in 1 .. Len(q) : q[n] = <<y>>[n]
    BY <1>2, <2>1
  <2>4. q = <<y>>
    BY <1>2, <1>4, <2>1, <2>2, <2>3, SeqEqual
  <2> QED BY <1>5, <2>4 DEF q, p
<1>6. CASE due = 1
  <2>1. Len(q) = 2 /\ q[1] = x /\ q[2] = y
    BY <1>1, <1>2, <1>4, <1>6
  <2>2. <<x, y>> \in Seq({x, y}) /\ Len(<<x, y>>) = 2 /\ <<x, y>>[1] = x /\ <<x, y>>[2] = y
    OBVIOUS
  <2>3. \A n \in 1 .. Len(q) : q[n] = <<x, y>>[n]
    BY <2>1, <2>2
  <2>4. q = <<x, y>>
    BY <1>4, <2>1, <2>2, <2>3, SeqEqual
  <2> QED BY <1>6, <2>4 DEF q, p
<1> QED BY <1>5, <1>6

-----------------------------------------------------------------------------
(* What is told: whatever waits may still be told, and was told at most of *)
(* a refusal, which is remembered.                                         *)

Record == [sent : Nat, dropped : Nat, threw : BOOLEAN]
Unheard(h) == h.sent = 0 /\ h.dropped = 0 /\ ~h.threw
Open(h) == h.sent = 0 /\ ~h.threw /\ h.dropped <= 1
Once(h) ==
    /\ h.sent + h.dropped <= IF h.threw THEN 2 ELSE 1
    /\ h.threw => h.sent = 0

ToldOf(e) ==
    /\ Open(heard[e.item])
    /\ Hook("item", e.item) \notin refused => heard[e.item].dropped = 0
    /\ e.stage = "whole" => Hook("item", e.item) \notin refused

Told ==
    /\ heard \in [1 .. MaxItems -> Record]
    /\ refused \subseteq [of : {"item", "rekey"}, item : 1 .. Len(items)]
    /\ refused # {} => quitting
    /\ quitting \in BOOLEAN
    /\ \A i \in 1 .. MaxItems : /\ Once(heard[i])
                                /\ i > Len(items) => Unheard(heard[i])
    /\ \A e \in Waiting : ToldOf(e)

-----------------------------------------------------------------------------
(* Where the one REKEY that may be due is.                                 *)

Bears(e) == e.stage \in {"rekey", "notice"}
Bearers == {e \in Waiting : Bears(e)}
OnWire == {n \in 1 .. Len(gone) : gone[n].stage = "notice"}

Rekeyed ==
    /\ rekeys \in [made : Nat, queued : Nat, void : Nat]
    /\ rekeys.made <= 1
    /\ \A e, f \in Bearers : e = f
    /\ \A m, n \in OnWire : m = n
    /\ Bearers = {} \/ OnWire = {}
    /\ IF Bearers = {} /\ OnWire = {} THEN rekeys.queued + rekeys.void = rekeys.made
       ELSE rekeys.made = 1 /\ rekeys.queued = 0 /\ rekeys.void = 0
    /\ \A e \in Waiting : e.stage = "whole" \/ Bears(e) => Hook("rekey", e.item) \notin refused

-----------------------------------------------------------------------------
(* The timer: none without a socket, one for what waits on a live one.     *)

Bounded ==
    /\ timer <= Most(ahead + LongCost - Budget, 0)
    /\ timer <= Most(Over(HeadEntry), 0) \/ \E i \in DOMAIN items : Taken(i)

Timed ==
    /\ timer \in Nat \union {NoTimer}
    /\ draining \in BOOLEAN
    /\ draining => timer = NoTimer
    /\ link \in {"dialing", "up", "cut", "restoring", "down", "gone"}
    /\ link \in {"dialing", "down", "gone"} => Waiting = {} /\ timer = NoTimer
    /\ ~draining /\ ~quitting /\ Waiting # {} =>
          /\ timer # NoTimer => Bounded
          /\ link = "up" => timer # NoTimer

-----------------------------------------------------------------------------
(* The lanes of a step that expands the head.                              *)

LEMMA PartsMade ==
    ASSUME Queue, Pending > 0, NEW stage \in ToSet(Stages) \ {"whole"},
           \/ HeadEntry.stage = "whole"
           \/ HeadEntry.stage = "rekey" /\ stage = "notice"
           \/ HeadEntry.stage = "encrypt" /\ stage \in {"chunk", "last"}
    PROVE  MadeOf(HeadEntry, Part(HeadEntry.item, stage))
<1>1. HeadEntry \in PacerEntry
  BY HeadIs DEF Fits
<1> QED BY <1>1 DEF MadeOf, Part, PacerEntry

\* The kinds of those that expand.
LEMMA ThunksAre ==
    ASSUME Queue, Pending > 0, IsThunk(HeadEntry)
    PROVE  /\ items[HeadEntry.item].kind \in {"secret", "keyA", "keyB"}
           /\ HeadEntry.stage \in {"whole", "rekey", "encrypt"}
<1>1. Fits(items, HeadEntry, HeadLane)
  BY HeadIs
<1> QED BY <1>1 DEF Fits, IsThunk, Keyed, KindOf

\* What the head's thunk puts in its place, and whom it tells.
Built(e, made) ==
    /\ Queue'
    /\ Waiting' = (Waiting \ {e}) \union made

ComesToNothing(e) ==
    Built(e, {}) /\ e.stage \in {"whole", "encrypt"} /\ (TellNobody \/ TellThrown(e))
Replies(e) == Built(e, {Part(e.item, "last")}) /\ e.stage = "whole" /\ TellNobody
Encrypts(e) ==
    /\ Built(e, {Part(e.item, "encrypt")}) /\ e.stage = "whole" /\ heard' = heard
    /\ rekeys.queued = 0 /\ rekeys' = [rekeys EXCEPT !.made = @ + 0, !.queued = 0]
RekeysFirst(e) ==
    /\ Built(e, {Part(e.item, "rekey"), Part(e.item, "encrypt")})
    /\ e.stage = "whole" /\ heard' = heard
    /\ \E rotates \in {0, 1} :
          /\ rekeys.queued + rotates = 1 /\ rekeys.made + rotates <= 1
          /\ rekeys' = [rekeys EXCEPT !.made = @ + rotates, !.queued = 0]
Notices(e) == Built(e, {Part(e.item, "notice")}) /\ e.stage = "rekey" /\ TellNobody
Voids(e) ==
    /\ Built(e, {}) /\ e.stage = "rekey" /\ heard' = heard
    /\ rekeys' = [rekeys EXCEPT !.void = @ + 1]
Chunks(e) ==
    /\ Built(e, {Part(e.item, "chunk"), Part(e.item, "last")})
    /\ e.stage = "encrypt" /\ TellNobody

Expanded(e) ==
    \/ ComesToNothing(e) \/ Replies(e) \/ Encrypts(e) \/ RekeysFirst(e)
    \/ Notices(e) \/ Voids(e) \/ Chunks(e)

\* What is due never exceeds the one REKEY there is.
LEMMA DueOnce ==
    ASSUME Rekeyed, NEW rotates \in {0, 1}, rekeys.made + rotates <= 1
    PROVE  /\ rekeys.queued + rotates \in {0, 1}
           /\ rekeys.queued \in Nat /\ rekeys.made \in Nat /\ rekeys.void \in Nat
BY DEF Rekeyed

LEMMA Builds ==
    ASSUME Queue, Rekeyed, Build, mix' = mix
    PROVE  Expanded(HeadEntry)
<1> DEFINE e == HeadEntry
<1> SUFFICES Expanded(e)
  OBVIOUS
<1>1. /\ Pending > 0 /\ IsThunk(e) /\ UNCHANGED <<items, mix, gone>>
      /\ BuildWhole(e) \/ BuildRekey(e) \/ BuildChunks(e)
  BY DEF Build, Turn, HeadMayGo
<1>2. e.stage \in {"whole", "rekey", "encrypt"} /\ items[e.item].kind \in {"secret", "keyA", "keyB"}
  BY <1>1, ThunksAre
<1>3. Shift(<<>>) => Built(e, {})
  BY <1>1, QueueLeft DEF Built
<1>4. ASSUME NEW made, Makes(items, e, made), Shift(made) PROVE Built(e, Parts(made))
  BY <1>1, <1>4, QueueShifted DEF Built
<1>5. \A stage \in ToSet(Stages) \ {"whole"} :
         (\/ e.stage = "whole"
          \/ e.stage = "rekey" /\ stage = "notice"
          \/ e.stage = "encrypt" /\ stage \in {"chunk", "last"})
            => MadeOf(e, Part(e.item, stage))
  BY <1>1, PartsMade
<1>6. {"rekey", "notice", "encrypt", "chunk", "last"} \subseteq ToSet(Stages) \ {"whole"}
  BY StagesAre
<1>a. \A stage \in ToSet(Stages) : Part(e.item, stage).item = e.item /\ Part(e.item, stage).stage = stage
  BY DEF Part
<1> HIDE DEF e
<1>7. CASE BuildWhole(e)
  <2>1. e.stage = "whole"
    BY <1>7 DEF BuildWhole
  <2>2. \A stage \in {"rekey", "encrypt", "last"} : MadeOf(e, Part(e.item, stage))
    BY <1>5, <1>6, <2>1
  <2>3. CASE Shift(<<>>) /\ (TellNobody \/ TellThrown(e))
    BY <1>3, <2>1, <2>3 DEF Expanded, ComesToNothing
  <2>4. CASE Shift(<<Part(e.item, "last")>>) /\ TellNobody
    <3>1. Makes(items, e, <<Part(e.item, "last")>>)
          /\ Parts(<<Part(e.item, "last")>>) = {Part(e.item, "last")}
      BY <1>2, <2>2, MakesOne
    <3>2. Built(e, {Part(e.item, "last")})
      BY <1>4, <2>4, <3>1
    <3> QED BY <2>1, <2>4, <3>2 DEF Expanded, Replies
  <2>5. ASSUME NEW rotates \in {0, 1}, rekeys.made + rotates <= 1, heard' = heard,
               Shift([n \in 1 .. rekeys.queued + rotates |-> Part(e.item, "rekey")]
                        \o <<Part(e.item, "encrypt")>>),
               rekeys' = [rekeys EXCEPT !.made = @ + rotates, !.queued = 0]
        PROVE  Expanded(e)
    <3> DEFINE due == rekeys.queued + rotates
               x == Part(e.item, "rekey")
               y == Part(e.item, "encrypt")
    <3>1. due \in {0, 1} /\ rekeys.queued \in Nat
      BY <2>5, DueOnce
    <3>2. MadeOf(e, x) /\ MadeOf(e, y) /\ Follows(x, y)
      BY <2>2 DEF Follows, Part
    <3>3. Shift([n \in 1 .. due |-> x] \o <<y>>)
      BY <2>5
    <3> HIDE DEF x, y
    <3>4. CASE due = 0
      <4>1. [n \in 1 .. due |-> x] \o <<y>> = <<y>>
        BY <3>1, <3>4, DueAre
      <4>2. Shift(<<y>>)
        <5>1. PICK q : q = [n \in 1 .. due |-> x] \o <<y>>
          OBVIOUS
        <5>2. Shift(q) /\ q = <<y>>
          BY <3>3, <4>1, <5>1
        <5> QED BY ONLY <5>2
      <4>3. Makes(items, e, <<y>>) /\ Parts(<<y>>) = {y}
        BY <1>2, <3>2, MakesOne
      <4>4. Built(e, {y})
        BY <1>4, <4>2, <4>3
      <4>5. rekeys.queued = 0 /\ rotates = 0
        BY <3>1, <3>4
      <4> QED BY <2>1, <2>5, <4>4, <4>5 DEF Expanded, Encrypts, y
    <3>5. CASE due = 1
      <4>1. [n \in 1 .. due |-> x] \o <<y>> = <<x, y>>
        BY <3>1, <3>5, DueAre
      <4>2. Shift(<<x, y>>)
        <5>1. PICK q : q = [n \in 1 .. due |-> x] \o <<y>>
          OBVIOUS
        <5>2. Shift(q) /\ q = <<x, y>>
          BY <3>3, <4>1, <5>1
        <5> QED BY ONLY <5>2
      <4>3. Makes(items, e, <<x, y>>) /\ Parts(<<x, y>>) = {x, y}
        BY <1>2, <3>2, MakesTwo
      <4>4. Built(e, {x, y})
        BY <1>4, <4>2, <4>3
      <4> QED BY <2>1, <2>5, <3>5, <4>4 DEF Expanded, RekeysFirst, x, y, due
    <3> QED BY <3>1, <3>4, <3>5
  <2> QED BY <1>7, <2>3, <2>4, <2>5 DEF BuildWhole, Expands
<1>8. CASE BuildRekey(e)
  <2>1. e.stage = "rekey"
    BY <1>8 DEF BuildRekey
  <2>2. CASE Shift(<<Part(e.item, "notice")>>) /\ TellNobody
    <3>1. MadeOf(e, Part(e.item, "notice"))
      BY <1>5, <1>6, <2>1
    <3>2. Makes(items, e, <<Part(e.item, "notice")>>)
          /\ Parts(<<Part(e.item, "notice")>>) = {Part(e.item, "notice")}
      BY <1>2, <3>1, MakesOne
    <3>3. Built(e, {Part(e.item, "notice")})
      BY <1>4, <2>2, <3>2
    <3> QED BY <2>1, <2>2, <3>3 DEF Expanded, Notices
  <2>3. CASE Shift(<<>>) /\ rekeys' = [rekeys EXCEPT !.void = @ + 1] /\ heard' = heard
    BY <1>3, <2>1, <2>3 DEF Expanded, Voids
  <2> QED BY <1>8, <2>2, <2>3 DEF BuildRekey, Expands
<1>9. CASE BuildChunks(e)
  <2>1. e.stage = "encrypt"
    BY <1>9 DEF BuildChunks
  <2>2. CASE Shift(<<Part(e.item, "chunk"), Part(e.item, "last")>>) /\ TellNobody
    <3>1. MadeOf(e, Part(e.item, "chunk")) /\ MadeOf(e, Part(e.item, "last"))
      BY <1>5, <1>6, <2>1
    <3>2. Follows(Part(e.item, "chunk"), Part(e.item, "last"))
      BY DEF Follows, Part
    <3>3. Makes(items, e, <<Part(e.item, "chunk"), Part(e.item, "last")>>)
          /\ Parts(<<Part(e.item, "chunk"), Part(e.item, "last")>>)
                = {Part(e.item, "chunk"), Part(e.item, "last")}
      BY <1>2, <3>1, <3>2, MakesTwo
    <3>4. Built(e, {Part(e.item, "chunk"), Part(e.item, "last")})
      BY <1>4, <2>2, <3>3
    <3> QED BY <2>1, <2>2, <3>4 DEF Expanded, Chunks
  <2>3. CASE Shift(<<>>) /\ (TellNobody \/ TellThrown(e))
    BY <1>3, <2>1, <2>3 DEF Expanded, ComesToNothing
  <2> QED BY <1>9, <2>2, <2>3 DEF BuildChunks, Expands
<1> QED BY <1>1, <1>7, <1>8, <1>9 DEF e

\* What else waits of the head's item comes after it.
LEMMA HeadLeads ==
    ASSUME Queue, Pending > 0, NEW f \in Waiting, f.item = HeadEntry.item, f # HeadEntry
    PROVE  Follows(HeadEntry, f)
<1>1. /\ HeadLane \in LaneNames /\ 1 \in 1 .. Len(lanes[HeadLane])
      /\ HeadEntry = lanes[HeadLane][1] /\ Fits(items, HeadEntry, HeadLane)
  BY HeadIs
<1>2. PICK k \in LaneNames : \E n \in 1 .. Len(lanes[k]) : f = lanes[k][n]
  BY WaitingIs, FilledEntries DEF Queue
<1>3. PICK n \in 1 .. Len(lanes[k]) : f = lanes[k][n]
  BY <1>2
<1>4. Lane(items, lanes[k], k) /\ Items(items)
  BY DEF Queue, Fill
<1>5. Fits(items, f, k)
  BY <1>3, <1>4 DEF Lane
<1>6. k = HeadLane
  BY <1>1, <1>5 DEF Fits
<1>7. 1 < n
  BY <1>1, <1>3, <1>6
<1>8. Precedes(items, HeadEntry, f)
  BY <1>1, <1>3, <1>4, <1>6, <1>7 DEF Lane
<1>9. ~(items[f.item].order < items[f.item].order)
  BY <1>4, <1>5, OrdersAre DEF Fits
<1> QED BY <1>8, <1>9 DEF Precedes

\* What is all its item, or the last of it, is alone; so is what encrypts.
LEMMA HeadAlone ==
    ASSUME Queue, Pending > 0, HeadEntry.stage \in {"whole", "encrypt", "last"},
           NEW f \in Waiting, f.item = HeadEntry.item
    PROVE  f = HeadEntry
<1>1. f # HeadEntry => Follows(HeadEntry, f)
  BY HeadLeads
<1> QED BY <1>1 DEF Follows

LEMMA WholeAlone ==
    ASSUME Queue, NEW e \in Waiting, NEW f \in Waiting, e.stage = "whole", f.item = e.item
    PROVE  f = e
<1>1. e = f \/ Follows(e, f) \/ Follows(f, e)
  BY PartsOfOne, WaitingIs DEF Queue
<1> QED BY <1>1 DEF Follows

LEMMA WaitingFits ==
    ASSUME Queue
    PROVE  \A e \in Waiting : /\ e \in PacerEntry /\ e.item \in 1 .. Len(items)
                              /\ e.item \in 1 .. MaxItems
                              /\ e.stage = "whole" \/ KindOf(e) \in {"secret", "keyA", "keyB"}
<1>1. Fill(items, gone, lanes) /\ Items(items)
  BY DEF Queue
<1>2. Len(items) \in 0 .. MaxItems /\ MaxItems \in Nat
  BY <1>1, OrdersAre, Costs
<1> TAKE e \in Waiting
<1>3. Fits(items, e, LaneOf(items[e.item].kind))
  BY <1>1, FilledEntries, WaitingIs
<1> QED BY <1>2, <1>3 DEF Fits, KindOf

-----------------------------------------------------------------------------
(* The hooks that are called.                                              *)

LEMMA HooksAre ==
    /\ \A i, j : Hook("item", i) = Hook("item", j) => i = j
    /\ \A i, j : Hook("rekey", i) = Hook("rekey", j) => i = j
    /\ \A i, j : Hook("item", i) # Hook("rekey", j)
    /\ \A e, i : Hook("item", i) \in HooksOf(e) <=> e.item = i
    /\ \A e, i : Hook("rekey", i) \in HooksOf(e) <=> e.item = i /\ Bears(e)
    /\ \A e : \A h \in HooksOf(e) : h = Hook("item", e.item) \/ h = Hook("rekey", e.item)
    /\ \A i : Hook("item", i).of = "item" /\ Hook("rekey", i).of = "rekey"
    /\ \A i : Hook("item", i).item = i /\ Hook("rekey", i).item = i
<1>1. /\ \A i : Hook("item", i).of = "item" /\ Hook("rekey", i).of = "rekey"
      /\ \A i : Hook("item", i).item = i /\ Hook("rekey", i).item = i
  BY DEF Hook
<1>2. /\ \A i, j : Hook("item", i) = Hook("item", j) => i = j
      /\ \A i, j : Hook("rekey", i) = Hook("rekey", j) => i = j
      /\ \A i, j : Hook("item", i) # Hook("rekey", j)
  BY <1>1
<1>3. \A e : HooksOf(e) = IF Bears(e) THEN {Hook("item", e.item), Hook("rekey", e.item)}
                          ELSE {Hook("item", e.item)}
  BY DEF HooksOf, Bears
<1> QED BY <1>1, <1>2, <1>3

\* tellDropped calls the hooks of items once each.
LEMMA DroppedTold ==
    ASSUME heard \in [1 .. MaxItems -> Record], NEW hooks, TellDropped(hooks)
    PROVE  /\ heard' \in [1 .. MaxItems -> Record]
           /\ \A i \in 1 .. MaxItems :
                 /\ Hook("item", i) \notin hooks => heard'[i] = heard[i]
                 /\ Hook("item", i) \in hooks =>
                       /\ heard'[i].sent = heard[i].sent /\ heard'[i].threw = heard[i].threw
                       /\ heard'[i].dropped = heard[i].dropped + 1
<1>1. DOMAIN heard = 1 .. MaxItems /\ \A i \in 1 .. MaxItems : heard[i] \in Record
  OBVIOUS
<1>2. heard' = [i \in DOMAIN heard |-> IF Hook("item", i) \in hooks
                                       THEN [heard[i] EXCEPT !.dropped = @ + 1] ELSE heard[i]]
  BY DEF TellDropped
<1>3. ASSUME NEW i \in 1 .. MaxItems, Hook("item", i) \in hooks
      PROVE  heard'[i] \in Record /\ heard'[i].sent = heard[i].sent
             /\ heard'[i].threw = heard[i].threw /\ heard'[i].dropped = heard[i].dropped + 1
  <2>1. heard'[i] = [heard[i] EXCEPT !.dropped = @ + 1] /\ heard[i] \in Record
    BY <1>1, <1>2, <1>3
  <2> QED BY <2>1 DEF Record
<1>4. ASSUME NEW i \in 1 .. MaxItems, Hook("item", i) \notin hooks
      PROVE  heard'[i] = heard[i] /\ heard'[i] \in Record
  BY <1>1, <1>2, <1>4
<1>5. heard' \in [1 .. MaxItems -> Record]
  BY <1>1, <1>2, <1>3, <1>4
<1> QED BY <1>3, <1>4, <1>5

\* A hook that was not called yet.
LEMMA OnceTold ==
    ASSUME NEW h \in Record, Open(h), h.dropped = 0, NEW k, k.sent = h.sent,
           k.threw = h.threw, k.dropped = h.dropped + 1
    PROVE  Once(k) /\ Open(k)
BY DEF Once, Open, Record

-----------------------------------------------------------------------------
(* Told, step by step.                                                     *)

\* What waits now waited, as whole as it was, or is new.
Stays(e) == \E f \in Waiting : f.item = e.item /\ (e.stage = "whole" => f.stage = "whole")
Fresh(e) == e.item > Len(items)

LEMMA ToldStays ==
    ASSUME Told, NEW e, Stays(e) PROVE ToldOf(e)
BY DEF Told, ToldOf, Stays

LEMMA FreshIs ==
    ASSUME Queue, Told, NEW i \in 1 .. MaxItems, i > Len(items)
    PROVE  /\ Unheard(heard[i]) /\ Open(heard[i]) /\ heard[i].dropped = 0
           /\ \A of : Hook(of, i) \notin refused
<1>1. Unheard(heard[i])
  BY DEF Told
<1>2. Len(items) \in Nat
  BY LenProperties DEF Queue, Items
<1>3. \A of : Hook(of, i) \notin refused
  <2> SUFFICES ASSUME NEW of, Hook(of, i) \in refused PROVE FALSE
    OBVIOUS
  <2>1. Hook(of, i).item \in 1 .. Len(items) /\ Hook(of, i).item = i
    BY DEF Told, Hook
  <2> QED BY <1>2, <2>1
<1> QED BY <1>1, <1>3 DEF Unheard, Open

\* Nobody is told anything.
LEMMA ToldUntold ==
    ASSUME Queue, Told, UNCHANGED <<heard, refused>>, quitting' \in BOOLEAN,
           refused # {} => quitting',
           Len(items') \in Len(items) .. MaxItems,
           \A e \in Waiting' : e.item \in 1 .. MaxItems /\ (Stays(e) \/ Fresh(e))
    PROVE  Told'
<1>1. Len(items) \in Nat /\ MaxItems \in Nat
  BY LenProperties, Costs DEF Queue, Items
<1>2. refused' \subseteq [of : {"item", "rekey"}, item : 1 .. Len(items')]
  <2>1. 1 .. Len(items) \subseteq 1 .. Len(items')
    BY <1>1
  <2> QED BY <2>1 DEF Told
<1>3. \A i \in 1 .. MaxItems : Once(heard[i]) /\ (i > Len(items') => Unheard(heard[i]))
  BY <1>1 DEF Told
<1>4. \A e \in Waiting' : ToldOf(e)
  <2> TAKE e \in Waiting'
  <2>1. CASE Stays(e)
    BY <2>1, ToldStays
  <2>2. CASE Fresh(e)
    BY <2>2, FreshIs DEF Fresh, ToldOf
  <2> QED BY <2>1, <2>2
<1> QED BY <1>2, <1>3, <1>4 DEF Told, ToldOf

\* drop(): every hook that no refusal has called is called, and nothing waits.
LEMMA ToldDrop ==
    ASSUME Queue, Told, Drop, items' = items, quitting' \in BOOLEAN, Waiting' = {}
    PROVE  Told'
<1> DEFINE hooks == (UNION {HooksOf(e) : e \in Waiting}) \ refused
<1>1. TellDropped(hooks) /\ refused' = {}
  BY DEF Drop
<1>2. \A i \in 1 .. MaxItems : Hook("item", i) \in hooks
                                  => Open(heard[i]) /\ heard[i].dropped = 0
  <2> TAKE i \in 1 .. MaxItems
  <2> HAVE Hook("item", i) \in hooks
  <2>1. PICK e \in Waiting : Hook("item", i) \in HooksOf(e)
    OBVIOUS
  <2>2. e.item = i
    BY <2>1, HooksAre
  <2> QED BY <2>2 DEF Told, ToldOf
<1> HIDE DEF hooks
<1>3. /\ heard' \in [1 .. MaxItems -> Record]
      /\ \A i \in 1 .. MaxItems :
            /\ Hook("item", i) \notin hooks => heard'[i] = heard[i]
            /\ Hook("item", i) \in hooks =>
                  /\ heard'[i].sent = heard[i].sent /\ heard'[i].threw = heard[i].threw
                  /\ heard'[i].dropped = heard[i].dropped + 1
  BY <1>1, DroppedTold DEF Told
<1>4. \A i \in 1 .. MaxItems : Once(heard'[i])
  <2> TAKE i \in 1 .. MaxItems
  <2>1. CASE Hook("item", i) \in hooks
    BY <1>2, <1>3, <2>1, OnceTold DEF Told
  <2>2. CASE Hook("item", i) \notin hooks
    BY <1>3, <2>2 DEF Told
  <2> QED BY <2>1, <2>2
<1>5. \A i \in 1 .. MaxItems : i > Len(items) => Unheard(heard'[i])
  <2> TAKE i \in 1 .. MaxItems
  <2> HAVE i > Len(items)
  <2>1. Hook("item", i) \notin hooks
    <3> SUFFICES ASSUME Hook("item", i) \in hooks PROVE FALSE
      OBVIOUS
    <3>1. PICK e \in Waiting : Hook("item", i) \in HooksOf(e)
      BY DEF hooks
    <3>2. e.item = i /\ e.item \in 1 .. Len(items) /\ Len(items) \in Nat
      BY <3>1, HooksAre, WaitingFits, LenProperties DEF Queue, Items
    <3> QED BY <3>2
  <2> QED BY <1>3, <2>1 DEF Told
<1> QED BY <1>1, <1>3, <1>4, <1>5 DEF Told

\* sendNow, sendUnit: the last line of an item is the last to wait of it.
LEMMA ToldSent ==
    ASSUME Queue, Told, Pending > 0, ~quitting, TellSent(HeadEntry),
           UNCHANGED <<items, refused, quitting>>, Waiting' = Waiting \ {HeadEntry}
    PROVE  Told'
<1> DEFINE e == HeadEntry
           j == e.item
<1>1. e \in Waiting /\ j \in 1 .. Len(items) /\ j \in 1 .. MaxItems
  BY HeadIs, WaitingFits
<1>2. Open(heard[j]) /\ heard[j].dropped = 0 /\ refused = {}
  BY <1>1 DEF Told, ToldOf
<1>3. heard' = [heard EXCEPT ![j].sent = IF e.stage \in {"whole", "last"} THEN @ + 1 ELSE @]
  BY DEF TellSent
<1>4. e.stage \in {"whole", "last"} => \A f \in Waiting' : f.item # j
  BY HeadAlone
<1> HIDE DEF e, j
<1>5. /\ heard \in [1 .. MaxItems -> Record] /\ Len(items) \in Nat
      /\ \A i \in 1 .. MaxItems : Once(heard[i]) /\ (i > Len(items) => Unheard(heard[i]))
  BY LenProperties DEF Told, Queue, Items
<1>6. \A i \in 1 .. MaxItems : i # j => heard'[i] = heard[i]
  BY <1>1, <1>3, <1>5
<1>7. CASE e.stage \in {"whole", "last"}
  <2>1. /\ heard' \in [1 .. MaxItems -> Record]
        /\ heard'[j].sent = heard[j].sent + 1 /\ heard'[j].dropped = heard[j].dropped
        /\ heard'[j].threw = heard[j].threw
    <3>1. heard' = [heard EXCEPT ![j].sent = @ + 1] /\ heard[j] \in Record
      BY <1>1, <1>3, <1>5, <1>7
    <3> QED BY <1>1, <1>5, <3>1 DEF Record
  <2>2. Once(heard'[j])
    BY <1>2, <2>1 DEF Open, Once
  <2>3. \A i \in 1 .. MaxItems : Once(heard'[i]) /\ (i > Len(items) => Unheard(heard'[i]))
    BY <1>1, <1>5, <1>6, <2>2
  <2>4. \A f \in Waiting' : ToldOf(f) /\ heard'[f.item] = heard[f.item]
    <3> TAKE f \in Waiting'
    <3>1. f \in Waiting /\ f.item # j
      BY <1>4, <1>7
    <3> QED BY <1>6, <3>1, WaitingFits DEF Told
  <2> QED BY <2>1, <2>3, <2>4 DEF Told, ToldOf
<1>8. CASE e.stage \notin {"whole", "last"}
  <2>1. heard' = heard
    BY <1>1, <1>3, <1>5, <1>8 DEF Record
  <2> QED BY <2>1 DEF Told, ToldOf
<1> QED BY <1>7, <1>8

LEMMA Threw ==
    ASSUME NEW h \in Record
    PROVE  LET k == [h EXCEPT !.dropped = @ + 1, !.threw = TRUE] IN
           k \in Record /\ k.sent = h.sent /\ k.dropped = h.dropped + 1 /\ k.threw
<1> DEFINE g == [h EXCEPT !.dropped = @ + 1]
           k == [g EXCEPT !.threw = TRUE]
<1>1. g \in Record /\ g.sent = h.sent /\ g.dropped = h.dropped + 1
  BY DEF Record
<1> HIDE DEF g
<1>2. "threw" \in DOMAIN g
  BY <1>1 DEF Record
<1>3. k.threw
  BY <1>2, Zenon
<1>4. k \in Record
  BY <1>1, Zenon DEF Record
<1>5. k.sent = g.sent /\ k.dropped = g.dropped
  BY <1>1 DEF Record
<1>6. k = [h EXCEPT !.dropped = @ + 1, !.threw = TRUE]
  BY DEF g
<1> QED BY <1>1, <1>3, <1>4, <1>5, <1>6

\* expand's catch: what threw has nothing else that waits.
LEMMA ToldThrown ==
    ASSUME Queue, Told, Pending > 0, HeadEntry.stage \in {"whole", "encrypt"},
           TellThrown(HeadEntry), UNCHANGED <<items, refused, quitting>>,
           Waiting' = Waiting \ {HeadEntry}
    PROVE  Told'
<1> DEFINE e == HeadEntry
           j == e.item
<1>1. e \in Waiting /\ j \in 1 .. Len(items) /\ j \in 1 .. MaxItems
  BY HeadIs, WaitingFits
<1>2. Open(heard[j])
  BY <1>1 DEF Told, ToldOf
<1>3. heard' = [heard EXCEPT ![j].dropped = @ + 1, ![j].threw = TRUE]
  BY DEF TellThrown
<1>4. \A f \in Waiting' : f.item # j
  BY HeadAlone
<1> HIDE DEF e, j
<1>5. /\ heard \in [1 .. MaxItems -> Record] /\ Len(items) \in Nat
      /\ \A i \in 1 .. MaxItems : Once(heard[i]) /\ (i > Len(items) => Unheard(heard[i]))
  BY LenProperties DEF Told, Queue, Items
<1>6. /\ \A i \in 1 .. MaxItems : i # j => heard'[i] = heard[i]
      /\ heard'[j] = [heard[j] EXCEPT !.dropped = @ + 1, !.threw = TRUE]
      /\ DOMAIN heard' = 1 .. MaxItems
  BY <1>1, <1>3, <1>5
<1>7. /\ heard'[j] \in Record
      /\ heard'[j].sent = heard[j].sent /\ heard'[j].dropped = heard[j].dropped + 1
      /\ heard'[j].threw
  <2>1. heard[j] \in Record
    BY <1>1, <1>5
  <2> QED BY <1>6, <2>1, Threw
<1>8. heard' \in [1 .. MaxItems -> Record]
  <2>1. \A i \in 1 .. MaxItems : heard'[i] \in Record
    BY <1>5, <1>6, <1>7
  <2>2. heard' = [i \in 1 .. MaxItems |-> heard'[i]]
    BY <1>1, <1>3, <1>5
  <2> QED BY <2>1, <2>2
<1>9. Once(heard'[j])
  <2>1. heard[j].sent = 0 /\ heard[j].dropped <= 1 /\ heard[j].dropped \in Nat
    BY <1>1, <1>2, <1>5 DEF Open, Record
  <2> QED BY <1>7, <2>1 DEF Once
<1>10. \A i \in 1 .. MaxItems : Once(heard'[i]) /\ (i > Len(items) => Unheard(heard'[i]))
  BY <1>1, <1>5, <1>6, <1>9
<1>11. \A f \in Waiting' : ToldOf(f) /\ heard'[f.item] = heard[f.item]
  <2> TAKE f \in Waiting'
  <2>1. f \in Waiting /\ f.item # j
    BY <1>4 DEF e
  <2> QED BY <1>6, <2>1, WaitingFits DEF Told
<1> QED BY <1>8, <1>10, <1>11 DEF Told, ToldOf

\* A refusal: its hooks are called and remembered.
LEMMA HooksTyped ==
    ASSUME NEW e, NEW n \in Nat, e.item \in 1 .. n
    PROVE  HooksOf(e) \subseteq [of : {"item", "rekey"}, item : 1 .. n]
BY DEF HooksOf, Hook

LEMMA ToldRefused ==
    ASSUME Queue, Told, Pending > 0, quitting, Refuse(HeadEntry),
           UNCHANGED <<items, quitting>>, Waiting' = Waiting \ {HeadEntry}
    PROVE  Told'
<1> DEFINE e == HeadEntry
           j == e.item
           hooks == HooksOf(e) \ refused
<1>1. e \in Waiting /\ j \in 1 .. Len(items) /\ j \in 1 .. MaxItems /\ Len(items) \in Nat
  BY HeadIs, WaitingFits, LenProperties DEF Queue, Items
<1>2. /\ TellDropped(hooks) /\ refused' = refused \union HooksOf(e)
      /\ \A i : Hook("item", i) \in hooks => i = j
      /\ Hook("item", j) \in HooksOf(e)
  BY HooksAre DEF Refuse
<1>3. \A i \in 1 .. MaxItems : Hook("item", i) \in hooks
                                  => i = j /\ Open(heard[i]) /\ heard[i].dropped = 0
  BY <1>1, <1>2 DEF Told, ToldOf
<1>w. e.stage = "whole" => \A f \in Waiting' : f.item # j
  BY HeadAlone
<1>v. \A f \in Waiting' : f.item = j => f.stage # "whole"
  <2> SUFFICES ASSUME NEW f \in Waiting', f.item = j, f.stage = "whole" PROVE FALSE
    OBVIOUS
  <2>1. f \in Waiting /\ f # e
    OBVIOUS
  <2> QED BY <1>1, <2>1, WholeAlone
<1> HIDE DEF hooks
<1>4. /\ heard' \in [1 .. MaxItems -> Record]
      /\ \A i \in 1 .. MaxItems :
            /\ Hook("item", i) \notin hooks => heard'[i] = heard[i]
            /\ Hook("item", i) \in hooks =>
                  /\ heard'[i].sent = heard[i].sent /\ heard'[i].threw = heard[i].threw
                  /\ heard'[i].dropped = heard[i].dropped + 1
  BY <1>2, DroppedTold DEF Told
<1>5. \A i \in 1 .. MaxItems : Once(heard'[i])
  <2> TAKE i \in 1 .. MaxItems
  <2>1. CASE Hook("item", i) \in hooks
    BY <1>3, <1>4, <2>1, OnceTold DEF Told
  <2>2. CASE Hook("item", i) \notin hooks
    BY <1>4, <2>2 DEF Told
  <2> QED BY <2>1, <2>2
<1>6. \A i \in 1 .. MaxItems : i > Len(items) => Unheard(heard'[i])
  <2> TAKE i \in 1 .. MaxItems
  <2> HAVE i > Len(items)
  <2>1. Hook("item", i) \notin hooks
    BY <1>1, <1>2
  <2> QED BY <1>4, <2>1 DEF Told
<1>7. refused' \subseteq [of : {"item", "rekey"}, item : 1 .. Len(items)]
  BY <1>1, <1>2, HooksTyped DEF Told
<1>8. ASSUME NEW f \in Waiting'
      PROVE  /\ Open(heard'[f.item])
             /\ Hook("item", f.item) \notin refused' => heard'[f.item].dropped = 0
             /\ f.stage = "whole" => Hook("item", f.item) \notin refused'
  <2>1. f \in Waiting /\ f.item \in 1 .. MaxItems /\ ToldOf(f)
    BY WaitingFits DEF Told
  <2>2. CASE f.item = j
    <3>1. Hook("item", f.item) \in refused' /\ f.stage # "whole"
      BY <1>2, <1>v, <2>2
    <3>2. Open(heard'[f.item])
      BY <1>3, <1>4, <2>1, OnceTold DEF Told, ToldOf
    <3> QED BY <3>1, <3>2
  <2>3. CASE f.item # j
    <3>1. Hook("item", f.item) \notin hooks /\ Hook("item", f.item) \notin HooksOf(e)
      BY <1>2, <2>3, HooksAre
    <3> QED BY <1>2, <1>4, <2>1, <3>1 DEF ToldOf
  <2> QED BY <2>2, <2>3
<1> QED BY <1>2, <1>4, <1>5, <1>6, <1>7, <1>8 DEF Told, ToldOf

\* An item that never waits.
LEMMA ToldNew ==
    ASSUME Queue, Told, New \in 1 .. MaxItems, Len(items') = New, Waiting' = Waiting,
           quitting' = quitting, heard' \in [1 .. MaxItems -> Record],
           \A i \in 1 .. MaxItems : i # New => heard'[i] = heard[i],
           Once(heard'[New]),
           \/ refused' = refused
           \/ quitting /\ refused' = refused \union HooksOf(Part(New, "whole"))
    PROVE  Told'
<1>1. Len(items) \in Nat /\ New = Len(items) + 1 /\ Part(New, "whole").item = New
  BY LenProperties DEF Queue, Items, New, Part
<1>2. \A i \in 1 .. MaxItems :
         Once(heard'[i]) /\ (i > Len(items') => Unheard(heard'[i]))
  BY <1>1 DEF Told
<1>3. refused' \subseteq [of : {"item", "rekey"}, item : 1 .. Len(items')]
  <2>1. 1 .. Len(items) \subseteq 1 .. Len(items')
    BY <1>1
  <2>2. HooksOf(Part(New, "whole")) \subseteq [of : {"item", "rekey"}, item : 1 .. New]
    <3> DEFINE e == Part(New, "whole")
    <3>1. e.item \in 1 .. New /\ New \in Nat
      BY <1>1
    <3> HIDE DEF e
    <3>2. HooksOf(e) \subseteq [of : {"item", "rekey"}, item : 1 .. New]
      BY ONLY <3>1, HooksTyped
    <3> QED BY <3>2 DEF e
  <2>3. refused \subseteq [of : {"item", "rekey"}, item : 1 .. Len(items')]
    BY <2>1 DEF Told
  <2>4. HooksOf(Part(New, "whole")) \subseteq [of : {"item", "rekey"}, item : 1 .. Len(items')]
    BY <2>2
  <2> QED BY <2>3, <2>4
<1>4. refused' # {} => quitting'
  BY DEF Told
<1>5. ASSUME NEW e \in Waiting'
      PROVE  /\ heard'[e.item] = heard[e.item] /\ ToldOf(e)
             /\ Hook("item", e.item) \in refused' => Hook("item", e.item) \in refused
  <2>1. e \in Waiting /\ e.item \in 1 .. MaxItems /\ e.item # New
    BY <1>1, WaitingFits
  <2>2. Hook("item", e.item) \notin HooksOf(Part(New, "whole"))
    BY <1>1, <2>1, HooksAre
  <2> QED BY <2>1, <2>2 DEF Told
<1>6. \A e \in Waiting' :
         /\ Open(heard'[e.item])
         /\ Hook("item", e.item) \notin refused' => heard'[e.item].dropped = 0
         /\ e.stage = "whole" => Hook("item", e.item) \notin refused'
  <2> TAKE e \in Waiting'
  <2>1. Hook("item", e.item) \in refused => Hook("item", e.item) \in refused'
    OBVIOUS
  <2> QED BY <1>5, <2>1 DEF ToldOf
<1> QED BY <1>2, <1>3, <1>4, <1>6 DEF Told, ToldOf

LEMMA ToldNewDropped ==
    ASSUME Queue, Told, New \in 1 .. MaxItems, NEW hooks, TellDropped(hooks),
           \A i : Hook("item", i) \in hooks <=> i = New
    PROVE  /\ heard' \in [1 .. MaxItems -> Record] /\ Once(heard'[New])
           /\ \A i \in 1 .. MaxItems : i # New => heard'[i] = heard[i]
<1>1. /\ heard' \in [1 .. MaxItems -> Record]
      /\ \A i \in 1 .. MaxItems : i # New => heard'[i] = heard[i]
      /\ heard'[New].sent = heard[New].sent /\ heard'[New].threw = heard[New].threw
      /\ heard'[New].dropped = heard[New].dropped + 1
  BY DroppedTold DEF Told
<1>2. New > Len(items)
  BY LenProperties DEF Queue, Items, New
<1>3. Open(heard[New]) /\ heard[New].dropped = 0
  BY <1>2, FreshIs
<1>4. Once(heard'[New])
  BY <1>1, <1>3, OnceTold DEF Told
<1> QED BY <1>1, <1>4

LEMMA ToldNewSent ==
    ASSUME Queue, Told, New \in 1 .. MaxItems, TellSent(Part(New, "whole"))
    PROVE  /\ heard' \in [1 .. MaxItems -> Record] /\ Once(heard'[New])
           /\ \A i \in 1 .. MaxItems : i # New => heard'[i] = heard[i]
<1>1. heard' = [heard EXCEPT ![New].sent = @ + 1] /\ heard \in [1 .. MaxItems -> Record]
  BY DEF TellSent, Part, Told
<1>2. New > Len(items)
  BY LenProperties DEF Queue, Items, New
<1>3. Unheard(heard[New]) /\ heard[New] \in Record
  BY <1>1, <1>2, FreshIs
<1>4. /\ \A i \in 1 .. MaxItems : i # New => heard'[i] = heard[i]
      /\ heard' \in [1 .. MaxItems -> Record]
      /\ heard'[New].sent = heard[New].sent + 1 /\ heard'[New].dropped = heard[New].dropped
      /\ heard'[New].threw = heard[New].threw
  BY <1>1, <1>3 DEF Record
<1>5. Once(heard'[New])
  BY <1>3, <1>4 DEF Unheard, Once
<1> QED BY <1>4, <1>5

\* The keyed items that make room are whole, and told for the first time.
LEMMA ToldEvicted ==
    ASSUME Queue, Told, NEW out \in SUBSET Waiting, \A e \in out : e.stage = "whole",
           TellDropped(UNION {HooksOf(e) : e \in out}),
           New \in 1 .. MaxItems, Len(items') = New, UNCHANGED <<refused, quitting>>,
           Waiting' = (Waiting \ out) \union {Part(New, "whole")}
    PROVE  Told'
<1> DEFINE hooks == UNION {HooksOf(e) : e \in out}
<1>1. Len(items) \in Nat /\ New = Len(items) + 1 /\ Part(New, "whole").item = New
  BY LenProperties DEF Queue, Items, New, Part
<1>2. \A i \in 1 .. MaxItems : Hook("item", i) \in hooks <=> \E e \in out : e.item = i
  BY HooksAre
<1>3. TellDropped(hooks)
  OBVIOUS
<1> HIDE DEF hooks
<1>4. /\ heard' \in [1 .. MaxItems -> Record]
      /\ \A i \in 1 .. MaxItems :
            /\ Hook("item", i) \notin hooks => heard'[i] = heard[i]
            /\ Hook("item", i) \in hooks =>
                  /\ heard'[i].sent = heard[i].sent /\ heard'[i].threw = heard[i].threw
                  /\ heard'[i].dropped = heard[i].dropped + 1
  BY <1>3, DroppedTold DEF Told
<1>5. \A i \in 1 .. MaxItems : Hook("item", i) \in hooks
         => Open(heard[i]) /\ heard[i].dropped = 0 /\ i <= Len(items)
  <2> TAKE i \in 1 .. MaxItems
  <2> HAVE Hook("item", i) \in hooks
  <2>1. PICK e \in out : e.item = i
    BY <1>2
  <2>2. ToldOf(e) /\ e.stage = "whole" /\ e.item \in 1 .. Len(items)
    BY <2>1, WaitingFits DEF Told
  <2> QED BY <1>1, <2>1, <2>2 DEF ToldOf
<1>6. \A i \in 1 .. MaxItems : Once(heard'[i])
  <2> TAKE i \in 1 .. MaxItems
  <2>1. CASE Hook("item", i) \in hooks
    BY <1>4, <1>5, <2>1, OnceTold DEF Told
  <2>2. CASE Hook("item", i) \notin hooks
    BY <1>4, <2>2 DEF Told
  <2> QED BY <2>1, <2>2
<1>7. \A i \in 1 .. MaxItems : i > Len(items) => heard'[i] = heard[i] /\ Unheard(heard'[i])
  <2> TAKE i \in 1 .. MaxItems
  <2> HAVE i > Len(items)
  <2>1. Hook("item", i) \notin hooks
    BY <1>1, <1>5
  <2> QED BY <1>4, <2>1 DEF Told
<1>8. refused \subseteq [of : {"item", "rekey"}, item : 1 .. Len(items')]
  <2>1. 1 .. Len(items) \subseteq 1 .. Len(items')
    BY <1>1
  <2> QED BY <2>1 DEF Told
<1>9. \A e \in Waiting' : ToldOf(e) /\ heard'[e.item] = heard[e.item]
  <2> TAKE e \in Waiting'
  <2>1. CASE e = Part(New, "whole")
    <3>1. e.item = New /\ New > Len(items)
      BY <1>1, <2>1
    <3> QED BY <1>7, <3>1, FreshIs DEF ToldOf
  <2>2. CASE e \in Waiting /\ e \notin out
    <3>1. Hook("item", e.item) \notin hooks
      <4> SUFFICES ASSUME Hook("item", e.item) \in hooks PROVE FALSE
        OBVIOUS
      <4>1. PICK f \in out : f.item = e.item
        BY <1>2, <2>2, WaitingFits
      <4>2. f = e
        BY <2>2, <4>1, WholeAlone
      <4> QED BY <2>2, <4>2
    <3> QED BY <1>4, <2>2, <3>1, WaitingFits DEF Told
  <2> QED BY <2>1, <2>2
<1> QED BY <1>1, <1>4, <1>6, <1>7, <1>8, <1>9 DEF Told, ToldOf

-----------------------------------------------------------------------------
(* Rekeyed, step by step.                                                  *)

Needs(e) == e.stage = "whole" \/ Bears(e)
Spared == \A e \in Waiting : Needs(e) => Hook("rekey", e.item) \notin refused

LEMMA RekeyedSame ==
    ASSUME Rekeyed, UNCHANGED rekeys, OnWire' = OnWire, Bearers' = Bearers, Spared'
    PROVE  Rekeyed'
BY DEF Rekeyed, Spared, Needs

\* Nothing that takes a REKEY's hook with it is put to wait.
LEMMA SparedStays ==
    ASSUME Queue, Told, Rekeyed, refused' = refused,
           \A e \in Waiting' : /\ e.item \in 1 .. MaxItems
                               /\ \/ ~Needs(e)
                                  \/ Fresh(e)
                                  \/ \E f \in Waiting : f.item = e.item /\ Needs(f)
    PROVE  Spared'
<1> SUFFICES ASSUME NEW e \in Waiting', Needs(e) PROVE Hook("rekey", e.item) \notin refused
  BY DEF Spared, Needs
<1>1. CASE Fresh(e)
  BY <1>1, FreshIs DEF Fresh
<1>2. ASSUME NEW f \in Waiting, f.item = e.item, Needs(f)
      PROVE  Hook("rekey", e.item) \notin refused
  BY <1>2 DEF Rekeyed, Needs
<1> QED BY <1>1, <1>2

\* tellDropped gives back the REKEYs whose hooks it calls.
LEMMA RekeysTold ==
    ASSUME Rekeyed, NEW hooks, TellDropped(hooks)
    PROVE  /\ {h \in hooks : h.of = "rekey"} = {} => rekeys' = rekeys
           /\ \A x : {h \in hooks : h.of = "rekey"} = {x} =>
                 /\ rekeys' \in [made : Nat, queued : Nat, void : Nat]
                 /\ rekeys'.made = rekeys.made /\ rekeys'.void = rekeys.void
                 /\ rekeys'.queued = rekeys.queued + 1
<1> DEFINE c == Cardinality({h \in hooks : h.of = "rekey"})
<1>1. rekeys \in [made : Nat, queued : Nat, void : Nat]
  BY DEF Rekeyed
<1>2. rekeys' = [rekeys EXCEPT !.queued = @ + c]
  BY DEF TellDropped
<1>3. ASSUME {h \in hooks : h.of = "rekey"} = {} PROVE rekeys' = rekeys
  <2>1. c = 0
    BY <1>3, FS_EmptySet
  <2> HIDE DEF c
  <2> QED BY <1>1, <1>2, <2>1
<1>4. ASSUME NEW x, {h \in hooks : h.of = "rekey"} = {x}
      PROVE  /\ rekeys' \in [made : Nat, queued : Nat, void : Nat]
             /\ rekeys'.made = rekeys.made /\ rekeys'.void = rekeys.void
             /\ rekeys'.queued = rekeys.queued + 1
  <2>1. c = 1
    BY <1>4, FS_Singleton
  <2> HIDE DEF c
  <2> QED BY <1>1, <1>2, <2>1
<1> QED BY <1>3, <1>4

LEMMA RekeyedDrop ==
    ASSUME Queue, Told, Rekeyed, Drop, gone' = gone, Waiting' = {}
    PROVE  Rekeyed'
<1> DEFINE hooks == (UNION {HooksOf(e) : e \in Waiting}) \ refused
           R == {h \in hooks : h.of = "rekey"}
<1>1. TellDropped(hooks)
  BY DEF Drop
<1>2. Bearers' = {} /\ OnWire' = OnWire
  BY DEF Bearers, OnWire
<1>3. \A h : h \in R <=> \E e \in Bearers : h = Hook("rekey", e.item)
  <2> TAKE h
  <2>1. ASSUME h \in R PROVE \E e \in Bearers : h = Hook("rekey", e.item)
    <3>1. PICK e \in Waiting : h \in HooksOf(e)
      BY <2>1
    <3>2. h = Hook("rekey", e.item)
      BY <2>1, <3>1, HooksAre
    <3>3. Bears(e)
      BY <3>1, <3>2, HooksAre
    <3> QED BY <3>2, <3>3 DEF Bearers
  <2>2. ASSUME NEW e \in Bearers, h = Hook("rekey", e.item) PROVE h \in R
    <3>1. e \in Waiting /\ Bears(e) /\ h \in HooksOf(e) /\ h.of = "rekey"
      BY <2>2, HooksAre DEF Bearers
    <3>2. h \notin refused
      BY <2>2, <3>1 DEF Rekeyed
    <3> QED BY <3>1, <3>2
  <2> QED BY <2>1, <2>2
<1> HIDE DEF hooks
<1>4. CASE Bearers = {}
  <2>1. R = {}
    BY <1>3, <1>4
  <2>2. rekeys' = rekeys
    BY <1>1, <2>1, RekeysTold
  <2> QED BY <1>2, <1>4, <2>2 DEF Rekeyed
<1>5. CASE Bearers # {}
  <2>1. PICK b : b \in Bearers
    BY <1>5
  <2>2. R = {Hook("rekey", b.item)}
    <3>1. \A e \in Bearers : e = b
      BY <2>1 DEF Rekeyed
    <3>2. \A h : h \in R <=> h = Hook("rekey", b.item)
      BY <1>3, <2>1, <3>1
    <3> QED BY <3>2
  <2>3. /\ rekeys' \in [made : Nat, queued : Nat, void : Nat]
        /\ rekeys'.made = rekeys.made /\ rekeys'.void = rekeys.void
        /\ rekeys'.queued = rekeys.queued + 1
    BY <1>1, <2>2, RekeysTold
  <2>4. rekeys.made = 1 /\ rekeys.queued = 0 /\ rekeys.void = 0 /\ OnWire = {}
    BY <1>5 DEF Rekeyed
  <2> QED BY <1>2, <2>3, <2>4 DEF Rekeyed
<1> QED BY <1>4, <1>5

\* Hooks that are not a REKEY's.
LEMMA RekeyedTold ==
    ASSUME Queue, Told, Rekeyed, NEW hooks, TellDropped(hooks),
           \A h \in hooks : h.of # "rekey"
    PROVE  rekeys' = rekeys
BY RekeysTold

LEMMA RekeyedRefused ==
    ASSUME Queue, Told, Rekeyed, Pending > 0, Refuse(HeadEntry), gone' = gone,
           Waiting' = Waiting \ {HeadEntry}, HeadEntry.stage # "rekey"
    PROVE  Rekeyed'
<1> DEFINE e == HeadEntry
           hooks == HooksOf(e) \ refused
<1>1. TellDropped(hooks) /\ refused' = refused \union HooksOf(e) /\ e \in Waiting
  BY HeadIs DEF Refuse
<1>2. OnWire' = OnWire
  BY DEF OnWire
<1>3. Spared'
  <2> SUFFICES ASSUME NEW f \in Waiting', Needs(f) PROVE Hook("rekey", f.item) \notin refused'
    BY DEF Spared, Needs
  <2>1. f \in Waiting /\ f # e /\ Hook("rekey", f.item) \notin refused
    BY DEF Rekeyed, Needs
  <2>2. Hook("rekey", f.item) \notin HooksOf(e)
    <3> SUFFICES ASSUME f.item = e.item, Bears(e) PROVE FALSE
      BY HooksAre
    <3>1. f.stage = "whole" => f = e
      BY <1>1, <2>1, WholeAlone
    <3>2. Bears(f) => f = e
      BY <1>1, <2>1 DEF Rekeyed, Bearers
    <3> QED BY <2>1, <3>1, <3>2 DEF Needs
  <2> QED BY <1>1, <2>1, <2>2
<1>4. CASE ~Bears(e)
  <2>1. \A h \in hooks : h.of # "rekey"
    BY <1>4 DEF HooksOf, Hook, Bears
  <2> HIDE DEF hooks
  <2>2. rekeys' = rekeys
    BY <1>1, <2>1, RekeyedTold
  <2>3. Bearers' = Bearers
    BY <1>4 DEF Bearers
  <2> QED BY <1>2, <1>3, <2>2, <2>3, RekeyedSame
<1>5. CASE Bears(e)
  <2>1. {h \in hooks : h.of = "rekey"} = {Hook("rekey", e.item)}
    <3>1. HooksOf(e) = {Hook("item", e.item), Hook("rekey", e.item)}
      BY <1>5 DEF HooksOf, Bears
    <3>2. Hook("rekey", e.item) \notin refused
      BY <1>1, <1>5 DEF Rekeyed
    <3> QED BY <3>1, <3>2, HooksAre
  <2> HIDE DEF hooks
  <2>2. /\ rekeys' \in [made : Nat, queued : Nat, void : Nat]
        /\ rekeys'.made = rekeys.made /\ rekeys'.void = rekeys.void
        /\ rekeys'.queued = rekeys.queued + 1
    BY <1>1, <2>1, RekeysTold
  <2>3. e \in Bearers
    BY <1>1, <1>5 DEF Bearers
  <2>4. rekeys.made = 1 /\ rekeys.queued = 0 /\ rekeys.void = 0 /\ OnWire = {}
    BY <2>3 DEF Rekeyed
  <2>5. Bearers' = {}
    <3>1. \A f \in Bearers : f = e
      BY <2>3 DEF Rekeyed
    <3> QED BY <3>1 DEF Bearers
  <2> QED BY <1>2, <1>3, <2>2, <2>4, <2>5 DEF Rekeyed, Spared, Needs
<1> QED BY <1>4, <1>5

LEMMA OnWireAppends ==
    ASSUME Queue, NEW e, gone' = Append(gone, e), e \in PacerEntry
    PROVE  OnWire' = IF e.stage = "notice" THEN OnWire \union {Len(gone) + 1} ELSE OnWire
<1>1. gone \in Seq(PacerEntry) /\ Len(gone) \in Nat
  BY LenProperties DEF Queue, Went
<1>2. /\ Len(gone') = Len(gone) + 1 /\ gone'[Len(gone) + 1] = e
      /\ \A n \in 1 .. Len(gone) : gone'[n] = gone[n]
  BY <1>1, AppendProperties
<1>3. \A n \in 1 .. Len(gone') : n \in 1 .. Len(gone) \/ n = Len(gone) + 1
  BY <1>1, <1>2
<1>4. 1 .. Len(gone) \subseteq 1 .. Len(gone') /\ Len(gone) + 1 \in 1 .. Len(gone')
  BY <1>1, <1>2
<1> QED BY <1>2, <1>3, <1>4 DEF OnWire

LEMMA RekeyedSent ==
    ASSUME Queue, Told, Rekeyed, Pending > 0, gone' = Append(gone, HeadEntry),
           Waiting' = Waiting \ {HeadEntry}, HeadEntry.stage # "rekey",
           UNCHANGED <<rekeys, refused>>
    PROVE  Rekeyed'
<1> DEFINE e == HeadEntry
<1>1. e \in Waiting /\ e \in PacerEntry
  BY HeadIs DEF Fits
<1>2. OnWire' = IF e.stage = "notice" THEN OnWire \union {Len(gone) + 1} ELSE OnWire
  BY <1>1, OnWireAppends
<1>3. Spared'
  BY DEF Rekeyed, Spared, Needs
<1>4. CASE e.stage # "notice"
  <2>1. Bearers' = Bearers
    BY <1>4 DEF Bearers, Bears
  <2> QED BY <1>2, <1>3, <1>4, <2>1, RekeyedSame
<1>5. CASE e.stage = "notice"
  <2>1. e \in Bearers
    BY <1>1, <1>5 DEF Bearers, Bears
  <2>2. OnWire = {} /\ rekeys.made = 1 /\ rekeys.queued = 0 /\ rekeys.void = 0
    BY <2>1 DEF Rekeyed
  <2>3. Bearers' = {}
    <3>1. \A f \in Bearers : f = e
      BY <2>1 DEF Rekeyed
    <3> QED BY <3>1 DEF Bearers
  <2> HIDE DEF e
  <2>4. OnWire' = {Len(gone) + 1}
    BY <1>2, <1>5, <2>2
  <2> QED BY <1>3, <2>2, <2>3, <2>4 DEF Rekeyed, Spared, Needs
<1> QED BY <1>4, <1>5

\* Whole items come and go: no REKEY with them.
LEMMA RekeyedWhole ==
    ASSUME Queue, Told, Rekeyed, UNCHANGED <<rekeys, gone, refused>>,
           \A e \in Waiting' : e \in Waiting \/ (e = Part(New, "whole") /\ New \in 1 .. MaxItems),
           \A e \in Waiting \ Waiting' : e.stage = "whole"
    PROVE  Rekeyed'
<1>1. OnWire' = OnWire
  BY DEF OnWire
<1>2. Part(New, "whole").item = New /\ Part(New, "whole").stage = "whole" /\ New > Len(items)
  BY LenProperties DEF Part, Queue, Items, New
<1>3. Bearers' = Bearers
  BY <1>2 DEF Bearers, Bears
<1>4. Spared'
  <2>1. \A e \in Waiting' : /\ e.item \in 1 .. MaxItems
                            /\ \/ ~Needs(e)
                               \/ Fresh(e)
                               \/ \E f \in Waiting : f.item = e.item /\ Needs(f)
    BY <1>2, WaitingFits DEF Fresh
  <2> QED BY <2>1, SparedStays
<1> QED BY <1>1, <1>3, <1>4, RekeyedSame

LEMMA RekeysSame ==
    ASSUME Rekeyed, rekeys.queued = 0, rekeys' = [rekeys EXCEPT !.made = @ + 0, !.queued = 0]
    PROVE  rekeys' = rekeys
<1>1. rekeys \in [made : Nat, queued : Nat, void : Nat]
  BY DEF Rekeyed
<1>2. rekeys.made + 0 = rekeys.made /\ DOMAIN rekeys = {"made", "queued", "void"}
  BY <1>1
<1>3. rekeys' = [rekeys EXCEPT !.made = rekeys.made, !.queued = rekeys.queued]
  BY <1>2
<1> QED BY <1>1, <1>3

\* What e makes is of e's item, and has a REKEY's hook only if e might.
Like(e, made) == \A f \in made : f.item = e.item /\ (Needs(f) => Needs(e))
Plain(e, made) == \A f \in made : f.item = e.item /\ ~Needs(f)

\* expand(): the REKEY that is due leaves the manager for the lane, or its nick.
LEMMA RekeyedExpanded ==
    ASSUME Queue, Told, Rekeyed, NEW e \in Waiting, Expanded(e), UNCHANGED <<gone, refused>>
    PROVE  Rekeyed'
<1> DEFINE p(stage) == Part(e.item, stage)
<1>1. OnWire' = OnWire /\ e.item \in 1 .. MaxItems
  BY WaitingFits DEF OnWire
<1>2. \A stage : p(stage).item = e.item /\ p(stage).stage = stage
  BY DEF Part
<1> HIDE DEF p
<1>3. ASSUME NEW made, Built(e, made), Like(e, made)
      PROVE  Spared'
  <2>1. \A f \in Waiting' : /\ f.item \in 1 .. MaxItems
                            /\ \/ ~Needs(f)
                               \/ Fresh(f)
                               \/ \E g \in Waiting : g.item = f.item /\ Needs(g)
    BY <1>1, <1>3, WaitingFits DEF Built, Like
  <2> QED BY <2>1, SparedStays
<1>4. ASSUME NEW made, Built(e, made), Plain(e, made), ~Bears(e), rekeys' = rekeys
      PROVE  Rekeyed'
  <2>1. Bearers' = Bearers
    BY <1>4 DEF Bearers, Needs, Built, Plain
  <2>2. Like(e, made)
    BY <1>4 DEF Like, Plain
  <2>3. Spared'
    BY ONLY <1>3, <1>4, <2>2
  <2> QED BY <1>1, <1>4, <2>1, <2>3, RekeyedSame
<1>5. CASE ComesToNothing(e)
  <2>1. ~Bears(e) /\ rekeys' = rekeys /\ Built(e, {})
    BY <1>5 DEF ComesToNothing, Bears, TellNobody, TellThrown
  <2>2. Plain(e, {})
    BY DEF Plain
  <2> QED BY ONLY <1>4, <2>1, <2>2
<1>6. CASE Replies(e)
  <2>1. ~Bears(e) /\ rekeys' = rekeys /\ Built(e, {p("last")})
    BY <1>6 DEF Replies, Bears, TellNobody, p
  <2>2. Plain(e, {p("last")})
    BY <1>2 DEF Needs, Bears, Plain
  <2> QED BY ONLY <1>4, <2>1, <2>2
<1>7. CASE Encrypts(e)
  <2>1. ~Bears(e) /\ Built(e, {p("encrypt")})
    BY <1>7 DEF Encrypts, Bears, p
  <2>2. Plain(e, {p("encrypt")})
    BY <1>2 DEF Needs, Bears, Plain
  <2>3. rekeys' = rekeys
    BY <1>7, RekeysSame DEF Encrypts
  <2> QED BY ONLY <1>4, <2>1, <2>2, <2>3
<1>8. CASE RekeysFirst(e)
  <2>1. e.stage = "whole" /\ Built(e, {p("rekey"), p("encrypt")})
    BY <1>8 DEF RekeysFirst, p
  <2>2. PICK rotates \in {0, 1} :
           /\ rekeys.queued + rotates = 1 /\ rekeys.made + rotates <= 1
           /\ rekeys' = [rekeys EXCEPT !.made = @ + rotates, !.queued = 0]
    BY <1>8 DEF RekeysFirst
  <2>3. /\ rekeys \in [made : Nat, queued : Nat, void : Nat] /\ rekeys.made <= 1
        /\ rekeys.made \in Nat /\ rekeys.queued \in Nat /\ rekeys.void \in Nat
    BY DEF Rekeyed
  <2>4. Bearers = {} /\ OnWire = {}
    BY <2>2, <2>3 DEF Rekeyed
  <2>5. rekeys.queued + rekeys.void = rekeys.made
    BY <2>4 DEF Rekeyed
  <2>6. rekeys.made + rotates = 1 /\ rekeys.void = 0
    BY <2>2, <2>3, <2>5
  <2>7. /\ rekeys' \in [made : Nat, queued : Nat, void : Nat]
        /\ rekeys'.made = 1 /\ rekeys'.queued = 0 /\ rekeys'.void = 0
    <3>1. rekeys' = [rekeys EXCEPT !.made = 1, !.queued = 0]
      BY <2>2, <2>6
    <3> QED BY ONLY <2>3, <2>6, <3>1
  <2>8. Bearers' = {p("rekey")}
    BY <1>2, <2>1, <2>4 DEF Bearers, Bears, Built
  <2>9. Spared'
    <3>1. Like(e, {p("rekey"), p("encrypt")})
      BY <1>2, <2>1 DEF Needs, Like
    <3> QED BY ONLY <1>3, <2>1, <3>1
  <2> QED BY <1>1, <2>4, <2>7, <2>8, <2>9 DEF Rekeyed, Spared, Needs
<1>9. ASSUME e.stage = "rekey"
      PROVE  /\ OnWire = {} /\ rekeys.made = 1 /\ rekeys.queued = 0 /\ rekeys.void = 0
             /\ Bearers = {e}
  <2>1. e \in Bearers
    BY <1>9 DEF Bearers, Bears
  <2> QED BY <2>1 DEF Rekeyed
<1>10. CASE Notices(e)
  <2>1. /\ e.stage = "rekey" /\ Built(e, {p("notice")})
        /\ rekeys' = rekeys
    BY <1>10 DEF Notices, TellNobody, p
  <2>2. Bearers' = {p("notice")}
    BY <1>2, <1>9, <2>1 DEF Bearers, Bears, Built
  <2>3. Spared'
    <3>1. Like(e, {p("notice")})
      BY <1>2, <2>1 DEF Needs, Bears, Like
    <3> QED BY ONLY <1>3, <2>1, <3>1
  <2> QED BY <1>1, <1>9, <2>1, <2>2, <2>3 DEF Rekeyed, Spared, Needs
<1>11. CASE Voids(e)
  <2>1. /\ e.stage = "rekey" /\ Built(e, {})
        /\ rekeys' = [rekeys EXCEPT !.void = @ + 1]
    BY <1>11 DEF Voids
  <2>2. Bearers' = {}
    BY <1>9, <2>1 DEF Bearers, Built
  <2>3. Spared'
    <3>1. Like(e, {})
      BY DEF Like
    <3> QED BY ONLY <1>3, <2>1, <3>1
  <2>4. rekeys \in [made : Nat, queued : Nat, void : Nat]
    BY DEF Rekeyed
  <2>5. /\ rekeys' \in [made : Nat, queued : Nat, void : Nat]
        /\ rekeys'.made = 1 /\ rekeys'.queued = 0 /\ rekeys'.void = 1
    BY <1>9, <2>1, <2>4
  <2> QED BY <1>1, <1>9, <2>1, <2>2, <2>3, <2>5 DEF Rekeyed, Spared, Needs
<1>12. CASE Chunks(e)
  <2>1. /\ ~Bears(e) /\ rekeys' = rekeys
        /\ Built(e, {p("chunk"), p("last")})
    BY <1>12 DEF Chunks, Bears, TellNobody, p
  <2>2. Plain(e, {p("chunk"), p("last")})
    BY <1>2 DEF Needs, Bears, Plain
  <2> QED BY ONLY <1>4, <2>1, <2>2
<1> QED BY <1>5, <1>6, <1>7, <1>8, <1>10, <1>11, <1>12 DEF Expanded

-----------------------------------------------------------------------------
(* Timed, step by step.                                                    *)

\* The head, for any lanes: the first of the first lane that is not empty.
LaneFirst(ls) == IF ls["high"] # <<>> THEN "high"
                 ELSE IF ls["normal"] # <<>> THEN "normal" ELSE "low"
KindFirst(its, ls) == its[ls[LaneFirst(ls)][1].item].kind
HeadKind == KindOf(HeadEntry)

\* How far over the budget a head of that kind goes.
Excess(a, p, kind) ==
    IF p /\ ~(kind = "poll") THEN a + (IF kind = "monitor" THEN LongCost ELSE 1) - Budget ELSE 0

LEMMA OverHead ==
    /\ Over(HeadEntry) = Excess(ahead, paced, HeadKind)
    /\ (Over(HeadEntry))' = Excess(ahead', paced', HeadKind')
BY DEF Over, FirstCost, Excess, HeadKind

LEMMA FirstIs ==
    ASSUME NEW its, NEW g, NEW ls, Fill(its, g, ls), Entries(ls) # {}
    PROVE  /\ LaneFirst(ls) \in LaneNames /\ ls[LaneFirst(ls)] # <<>>
           /\ ls[LaneFirst(ls)] \in Seq(PacerEntry)
           /\ 1 \in 1 .. Len(ls[LaneFirst(ls)])
           /\ (CHOOSE l \in LaneNames :
                  /\ ls[l] # <<>>
                  /\ l = "high" \/ ls["high"] = <<>>
                  /\ l # "low" \/ ls["normal"] = <<>>) = LaneFirst(ls)
<1>1. \A l \in LaneNames : /\ ls[l] \in Seq(PacerEntry) /\ Len(ls[l]) \in Nat
                           /\ ls[l] = <<>> <=> Len(ls[l]) = 0
  BY EmptySeq, LenProperties DEF Fill
<1>2. ls["high"] # <<>> \/ ls["normal"] # <<>> \/ ls["low"] # <<>>
  <2>1. PICK e : e \in Entries(ls)
    OBVIOUS
  <2>2. PICK l \in LaneNames : \E n \in 1 .. Len(ls[l]) : e = ls[l][n]
    BY <2>1, FilledEntries
  <2>3. Len(ls[l]) # 0
    BY <1>1, <2>2
  <2> QED BY <1>1, <2>3, LaneNamesAre
<1>3. "high" \in LaneNames /\ "normal" \in LaneNames /\ "low" \in LaneNames
  BY LaneNamesAre
<1> DEFINE f == LaneFirst(ls)
           P(l) == /\ ls[l] # <<>>
                   /\ l = "high" \/ ls["high"] = <<>>
                   /\ l # "low" \/ ls["normal"] = <<>>
<1>4. f \in LaneNames /\ P(f)
  BY <1>2, <1>3 DEF LaneFirst
<1>5. \A l \in LaneNames : P(l) => l = f
  BY <1>2, LaneNamesAre DEF LaneFirst
<1>6. ls[f] \in Seq(PacerEntry) /\ 1 \in 1 .. Len(ls[f])
  BY <1>1, <1>4
<1>7. (CHOOSE l \in LaneNames : P(l)) = f
  <2> HIDE DEF P, f
  <2> QED BY <1>4, <1>5
<1> QED BY <1>4, <1>6, <1>7

LEMMA HeadKindIs ==
    /\ Queue /\ Waiting # {} => HeadKind = KindFirst(items, lanes)
    /\ Queue' /\ Waiting' # {} => HeadKind' = KindFirst(items', lanes')
<1>1. ASSUME Queue, Waiting # {} PROVE HeadKind = KindFirst(items, lanes)
  <2>1. Fill(items, gone, lanes) /\ Entries(lanes) # {}
    BY <1>1, WaitingIs DEF Queue
  <2>2. HeadLane = LaneFirst(lanes)
    BY <2>1, FirstIs DEF HeadLane
  <2> QED BY <2>2 DEF HeadKind, KindOf, HeadEntry, KindFirst
<1>2. ASSUME Queue', Waiting' # {} PROVE HeadKind' = KindFirst(items', lanes')
  <2>1. Fill(items', gone', lanes') /\ Entries(lanes') # {}
    BY <1>2, WaitingIs DEF Queue
  <2>2. HeadLane' = LaneFirst(lanes')
    BY <2>1, FirstIs DEF HeadLane
  <2> QED BY <2>2 DEF HeadKind, KindOf, HeadEntry, KindFirst
<1> QED BY <1>1, <1>2

LEMMA PendingIs ==
    /\ Queue => (Pending > 0 <=> Waiting # {}) /\ Pending \in Nat
    /\ Queue' => (Pending' > 0 <=> Waiting' # {}) /\ Pending' \in Nat
<1>1. ASSUME NEW its, NEW g, NEW ls, Fill(its, g, ls)
      PROVE  LET p == Len(ls["high"]) + Len(ls["normal"]) + Len(ls["low"]) IN
             (p > 0 <=> Entries(ls) # {}) /\ p \in Nat
  <2>1. \A l \in LaneNames : Len(ls[l]) \in Nat
    BY <1>1, LenProperties DEF Fill
  <2>2. "high" \in LaneNames /\ "normal" \in LaneNames /\ "low" \in LaneNames
    BY LaneNamesAre
  <2>3. ASSUME Entries(ls) # {}
        PROVE  Len(ls["high"]) > 0 \/ Len(ls["normal"]) > 0 \/ Len(ls["low"]) > 0
    <3>1. PICK e : e \in Entries(ls)
      BY <2>3
    <3>2. PICK l \in LaneNames : \E n \in 1 .. Len(ls[l]) : e = ls[l][n]
      BY <1>1, <3>1, FilledEntries
    <3>3. Len(ls[l]) > 0
      BY <2>1, <3>2
    <3> QED BY <3>3, LaneNamesAre
  <2>4. ASSUME NEW l \in LaneNames, Len(ls[l]) > 0 PROVE Entries(ls) # {}
    <3>1. 1 \in 1 .. Len(ls[l])
      BY <2>1, <2>4
    <3>2. ls[l][1] \in Entries(ls)
      BY <1>1, <3>1, FilledEntries
    <3> QED BY <3>2
  <2>5. PICK h, n, w : h = Len(ls["high"]) /\ n = Len(ls["normal"]) /\ w = Len(ls["low"])
    OBVIOUS
  <2>6. h \in Nat /\ n \in Nat /\ w \in Nat
    BY <2>1, <2>2, <2>5
  <2>7. Entries(ls) # {} <=> h > 0 \/ n > 0 \/ w > 0
    BY <2>2, <2>3, <2>4, <2>5
  <2>8. (h + n + w > 0 <=> Entries(ls) # {}) /\ h + n + w \in Nat
    BY <2>6, <2>7
  <2> QED BY <2>5, <2>8
<1>2. Queue => (Pending > 0 <=> Waiting # {}) /\ Pending \in Nat
  BY <1>1, WaitingIs DEF Queue, Pending
<1>3. Queue' => (Pending' > 0 <=> Waiting' # {}) /\ Pending' \in Nat
  BY <1>1, WaitingIs DEF Queue, Pending
<1> QED BY <1>2, <1>3

\* The timer's bounds move with the clock.
LEMMA BoundsMove ==
    ASSUME NEW a \in Nat, NEW b \in Nat, a <= b, NEW p \in BOOLEAN, NEW kind
    PROVE  /\ Most(a + LongCost - Budget, 0) \in Nat
           /\ Most(a + LongCost - Budget, 0) <= Most(b + LongCost - Budget, 0)
           /\ Most(Excess(a, p, kind), 0) \in Nat
           /\ Most(Excess(a, p, kind), 0) <= Most(Excess(b, p, kind), 0)
<1>1. LongCost \in Nat /\ Budget \in Nat
  BY Costs
<1>2. /\ Most(a + LongCost - Budget, 0) \in Nat
      /\ Most(a + LongCost - Budget, 0) <= Most(b + LongCost - Budget, 0)
  BY <1>1 DEF Most
<1>3. /\ Most(Excess(a, p, kind), 0) \in Nat
      /\ Most(Excess(a, p, kind), 0) <= Most(Excess(b, p, kind), 0)
  BY <1>1 DEF Most, Excess
<1> QED BY <1>2, <1>3

\* A timer that was within its bounds is, while the clock does not go back and
\* the head is of the same kind.
LEMMA BoundedKept ==
    ASSUME ClockTypes, Bounded, timer \in Nat \union {NoTimer}, UNCHANGED <<timer, paced>>,
           ahead' \in Nat, ahead <= ahead', HeadKind' = HeadKind,
           \A i \in DOMAIN items : Taken(i) => i \in DOMAIN items' /\ Taken(i)'
    PROVE  Bounded'
<1>1. ahead \in Nat /\ paced \in BOOLEAN /\ timer \in Int
  BY DEF ClockTypes, NoTimer
<1>2. PICK kind : kind = HeadKind
  OBVIOUS
<1>3. /\ Over(HeadEntry) = Excess(ahead, paced, kind)
      /\ (Over(HeadEntry))' = Excess(ahead', paced, kind)
  BY <1>2, OverHead
<1>4. /\ Most(ahead + LongCost - Budget, 0) \in Nat
      /\ Most(ahead + LongCost - Budget, 0) <= Most(ahead' + LongCost - Budget, 0)
      /\ Most(Excess(ahead, paced, kind), 0) \in Nat
      /\ Most(Excess(ahead, paced, kind), 0) <= Most(Excess(ahead', paced, kind), 0)
      /\ Most(ahead' + LongCost - Budget, 0) \in Nat
      /\ Most(Excess(ahead', paced, kind), 0) \in Nat
  BY <1>1, BoundsMove
<1>5. timer' <= Most(ahead' + LongCost - Budget, 0)
  <2>1. timer <= Most(ahead + LongCost - Budget, 0)
    BY DEF Bounded
  <2> QED BY ONLY <1>1, <1>4, <2>1, timer' = timer
<1>6. timer' <= Most((Over(HeadEntry))', 0) \/ \E i \in DOMAIN items' : Taken(i)'
  <2>1. CASE timer <= Most(Excess(ahead, paced, kind), 0)
    <3>1. timer' <= Most(Excess(ahead', paced, kind), 0)
      BY ONLY <1>1, <1>4, <2>1, timer' = timer
    <3> QED BY <1>3, <3>1
  <2>2. CASE \E i \in DOMAIN items : Taken(i)
    BY <2>2
  <2> QED BY <1>3, <2>1, <2>2 DEF Bounded
<1> QED BY <1>5, <1>6 DEF Bounded

\* The head is of the kind it was while the lanes are what they were.
LEMMA HeadKept ==
    ASSUME Queue, Queue', Grows(items, items'), lanes' = lanes, Waiting # {}
    PROVE  HeadKind' = HeadKind
<1>1. Fill(items, gone, lanes) /\ Entries(lanes) # {} /\ Waiting' # {}
  BY WaitingIs DEF Queue
<1>2. PICK l : l = LaneFirst(lanes)
  OBVIOUS
<1>3. l \in LaneNames /\ 1 \in 1 .. Len(lanes[l])
  BY <1>1, <1>2, FirstIs
<1>4. lanes[l][1].item \in 1 .. Len(items)
  BY <1>1, <1>3 DEF Fill, Lane, Fits
<1>5. items'[lanes[l][1].item] = items[lanes[l][1].item]
  BY <1>4 DEF Grows
<1>6. HeadKind = items[lanes[l][1].item].kind /\ HeadKind' = items'[lanes[l][1].item].kind
  BY <1>1, <1>2, HeadKindIs DEF KindFirst
<1> QED BY <1>5, <1>6

\* Nothing becomes of a timer.
LEMMA TimedSame ==
    ASSUME Queue, ClockTypes, Timed,
           UNCHANGED <<lanes, items, mix, gone, heard, ahead, paced, timer>>
    PROVE  /\ Waiting' = Waiting /\ Queue'
           /\ Waiting # {} /\ Bounded => Bounded'
<1>1. Waiting' = Waiting /\ Queue'
  BY QueueKept
<1>2. ASSUME Waiting # {}, Bounded PROVE Bounded'
  <2>1. Grows(items, items')
    BY OrdersAre DEF Queue, Grows
  <2>2. HeadKind' = HeadKind
    BY <1>1, <1>2, <2>1, HeadKept
  <2>3. \A i \in DOMAIN items : Taken(i) => i \in DOMAIN items' /\ Taken(i)'
    BY <1>1 DEF Taken
  <2>4. ahead' \in Nat /\ ahead <= ahead' /\ timer \in Nat \union {NoTimer}
    BY DEF ClockTypes, Timed
  <2> QED BY <1>2, <2>2, <2>3, <2>4, BoundedKept
<1> QED BY <1>1, <1>2

LEMMA TimedTick == ASSUME Queue, ClockTypes, Timed, Tick, mix' = mix PROVE Timed'
<1>1. /\ ~draining /\ timer # 0
      /\ ahead' = PassTime(ahead) /\ timer' = PassTime(timer)
      /\ UNCHANGED <<lanes, items, gone, heard, draining, link, quitting, paced>>
  BY DEF Tick
<1>2. /\ ahead \in Nat /\ paced \in BOOLEAN /\ timer \in Nat \union {-1}
      /\ LongCost \in Nat /\ Budget \in Nat /\ LongCost <= Budget
  BY Costs DEF ClockTypes, Timed, NoTimer
<1>3. /\ timer = -1 => timer' = -1
      /\ timer # -1 => timer \in Nat \ {0} /\ timer' = timer - 1 /\ timer' \in Nat
  BY <1>1, <1>2 DEF PassTime
<1>4. Waiting' = Waiting /\ Queue'
  BY <1>1, QueueKept
<1>5. ASSUME Waiting # {}, timer # -1, Bounded PROVE Bounded'
  <2>1. Grows(items, items')
    BY <1>1, OrdersAre DEF Queue, Grows
  <2>2. PICK kind : kind = HeadKind /\ kind = HeadKind'
    BY <1>1, <1>4, <1>5, <2>1, HeadKept
  <2>3. /\ Over(HeadEntry) = Excess(ahead, paced, kind)
        /\ (Over(HeadEntry))' = Excess(ahead', paced, kind)
    BY <1>1, <2>2, OverHead
  <2>4. ahead \in Nat \ {0} /\ timer <= ahead + LongCost - Budget
    <3>1. timer <= Most(ahead + LongCost - Budget, 0)
      BY <1>5 DEF Bounded
    <3> QED BY <1>2, <1>3, <1>5, <3>1 DEF Most
  <2>5. ahead' = ahead - 1
    BY <1>1, <2>4 DEF PassTime
  <2>6. timer' <= Most(ahead' + LongCost - Budget, 0)
    BY <1>2, <1>3, <1>5, <2>4, <2>5 DEF Most
  <2>7. timer <= Most(Excess(ahead, paced, kind), 0) => timer' <= Most(Excess(ahead', paced, kind), 0)
    BY <1>2, <1>3, <1>5, <2>4, <2>5 DEF Most, Excess
  <2>8. \A i \in DOMAIN items : Taken(i) => i \in DOMAIN items' /\ Taken(i)'
    BY <1>1, <1>4 DEF Taken
  <2> QED BY <1>5, <2>3, <2>6, <2>7, <2>8 DEF Bounded
<1> QED BY <1>1, <1>3, <1>4, <1>5 DEF Timed, NoTimer

\* schedule(): the timer is set for the head.
LEMMA TimedWaits == ASSUME Queue, ClockTypes, Timed, DrainWaits, mix' = mix PROVE Timed'
<1>1. /\ draining' = FALSE /\ timer' = Over(HeadEntry) /\ Over(HeadEntry) > 0
      /\ UNCHANGED <<lanes, items, gone, heard, link, quitting, paced, ahead>>
      /\ link \in {"up", "restoring"}
  BY DEF DrainWaits, Turn, HeadMayGo, Ready
<1>2. /\ ahead \in Nat /\ paced \in BOOLEAN
      /\ LongCost \in Nat \ {0} /\ Budget \in Nat /\ LongCost <= Budget
  BY Costs DEF ClockTypes
<1>3. PICK kind : kind = HeadKind
  OBVIOUS
<1>4. Over(HeadEntry) = Excess(ahead, paced, kind)
  BY <1>3, OverHead
<1>5. timer' \in Nat \ {0} /\ timer' <= Most(ahead + LongCost - Budget, 0)
  BY <1>1, <1>2, <1>4 DEF Excess, Most
<1>6. Waiting' = Waiting /\ Queue'
  BY <1>1, QueueKept
<1>7. ASSUME Waiting # {} PROVE Bounded'
  <2>1. Grows(items, items')
    BY <1>1, OrdersAre DEF Queue, Grows
  <2>2. HeadKind' = HeadKind
    BY <1>1, <1>6, <1>7, <2>1, HeadKept
  <2>3. (Over(HeadEntry))' = Excess(ahead, paced, kind)
    BY <1>1, <1>3, <2>2, OverHead
  <2>4. timer' <= Most((Over(HeadEntry))', 0)
    BY ONLY <1>1, <1>4, <1>5, <2>3 DEF Most
  <2> QED BY <1>1, <1>5, <2>4 DEF Bounded
<1>8. timer' \in Nat /\ timer' # NoTimer
  BY <1>5 DEF NoTimer
<1>9. (link \in {"dialing", "down", "gone"}) = FALSE
  BY <1>1
<1>10. /\ link' \in {"dialing", "up", "cut", "restoring", "down", "gone"}
       /\ draining' \in BOOLEAN /\ ~draining' /\ ~(link' \in {"dialing", "down", "gone"})
  BY <1>1, <1>9
<1> QED BY <1>6, <1>7, <1>8, <1>10 DEF Timed

\* A drain goes on, or starts.
LEMMA TimedDrains ==
    ASSUME Timed, draining' = TRUE, timer' = NoTimer, link' \in {"up", "restoring"}
    PROVE  Timed'
BY DEF Timed, NoTimer

\* What stays of the timer and the phase while a step decides the rest.
LEMMA TimedDrop ==
    ASSUME Timed, ~draining, Drop, draining' = draining, Waiting' = {},
           link' \in {"dialing", "up", "cut", "restoring", "down", "gone"}
    PROVE  Timed'
BY DEF Timed, Drop, NoTimer

\* A step that leaves the lanes alone, and the timer within its bounds.
LEMMA TimedStays ==
    ASSUME Timed, UNCHANGED <<timer, draining>>, Waiting' = Waiting, ~quitting' => ~quitting,
           link' = link \/ (Ready /\ link' = "cut") \/ (link = "cut" /\ link' = "restoring"),
           Waiting # {} /\ Bounded => Bounded'
    PROVE  Timed'
BY DEF Timed, Ready, NoTimer

\* What is written past the lanes moves the clock forward, if at all.
LEMMA TimedPassed ==
    ASSUME Queue, ClockTypes, Timed, Queue', Waiting' = Waiting, Grows(items, items'),
           Len(items') = New, UNCHANGED <<lanes, timer, draining, link, quitting, paced>>,
           ahead' \in Nat, ahead <= ahead',
           \A i \in 1 .. MaxItems : i # New => heard'[i] = heard[i]
    PROVE  Timed'
<1>1. ASSUME Waiting # {}, Bounded PROVE Bounded'
  <2>1. HeadKind' = HeadKind
    BY <1>1, HeadKept
  <2>2. ASSUME NEW i \in DOMAIN items, Taken(i) PROVE i \in DOMAIN items' /\ Taken(i)'
    <3>1. /\ Len(items) \in 0 .. MaxItems /\ DOMAIN items = 1 .. Len(items)
          /\ DOMAIN items' = 1 .. Len(items')
      <4>1. Items(items) /\ Items(items')
        BY DEF Queue
      <4>2. DOMAIN items = 1 .. Len(items) /\ DOMAIN items' = 1 .. Len(items')
        BY <4>1, LenProperties DEF Items
      <4>3. Len(items) \in 0 .. MaxItems
        BY <4>1, OrdersAre
      <4> QED BY <4>2, <4>3
    <3>2. i \in 1 .. MaxItems /\ i # New /\ i \in 1 .. Len(items')
      BY <3>1, Costs DEF New
    <3>3. items'[i] = items[i] /\ heard'[i] = heard[i]
      BY <3>1, <3>2 DEF Grows
    <3> QED BY <2>2, <3>1, <3>2, <3>3 DEF Taken
  <2> QED BY <1>1, <2>1, <2>2, BoundedKept DEF Timed
<1> QED BY <1>1, TimedStays

\* A keyed item takes a place, and the head is of the kind it was.
LEMMA TimedReplaces ==
    ASSUME Queue, ClockTypes, Timed, NEW kind \in mix.kinds, WriteReplacing(kind), mix' = mix
    PROVE  Timed'
<1>1. /\ Queue' /\ Grows(items, items') /\ New \in 1 .. MaxItems /\ Len(items') = New
      /\ items'[New].kind = kind
  BY QueueReplaced
<1>2. PICK old \in Waiting : Waiting' = (Waiting \ {old}) \union {Part(New, "whole")}
  BY QueueReplaced
<1>3. PICK at \in Predecessors(kind) : lanes' = [lanes EXCEPT !["normal"][at] = Part(New, "whole")]
  BY DEF WriteReplacing
<1>4. /\ UNCHANGED <<ahead, timer, paced, heard, draining, link, quitting>>
      /\ link \in {"up", "restoring"}
  BY DEF WriteReplacing, MayWrite, Ready, Keyed, TellNobody
<1>5. /\ at \in 1 .. Len(lanes["normal"])
      /\ items[lanes["normal"][at].item].kind = kind
  BY <1>3, KeyedAre DEF Predecessors, KindOf
<1>6. lanes \in [LaneNames -> Seq(PacerEntry)] /\ "normal" \in LaneNames
  BY LaneNamesAre DEF Queue, Fill
<1>7. PICK t : t = [lanes["normal"] EXCEPT ![at] = Part(New, "whole")]
  OBVIOUS
<1>8. /\ lanes["normal"] \in Seq(PacerEntry) /\ DOMAIN t = 1 .. Len(lanes["normal"])
      /\ \A n \in 1 .. Len(lanes["normal"]) :
            t[n] = IF n = at THEN Part(New, "whole") ELSE lanes["normal"][n]
  <2>1. lanes["normal"] \in Seq(PacerEntry)
    BY <1>6
  <2>2. DOMAIN lanes["normal"] = 1 .. Len(lanes["normal"])
    BY <2>1, LenProperties
  <2> QED BY <1>5, <1>7, <2>1, <2>2
<1>9. /\ lanes'["normal"] = t
      /\ \A l \in LaneNames \ {"normal"} : lanes'[l] = lanes[l]
  BY <1>3, <1>6, <1>7
<1>10. t # <<>> /\ lanes["normal"] # <<>> /\ 1 \in 1 .. Len(lanes["normal"])
  <2>1. Len(lanes["normal"]) \in Nat
    BY <1>8, LenProperties
  <2>2. 1 \in 1 .. Len(lanes["normal"]) /\ 1 \in DOMAIN t
    BY <1>5, <1>8, <2>1
  <2> QED BY <1>8, <2>1, <2>2, EmptySeq
<1>11. LaneFirst(lanes') = LaneFirst(lanes) /\ LaneFirst(lanes) \in {"high", "normal"}
  <2>1. "high" \in LaneNames \ {"normal"}
    BY LaneNamesAre
  <2> QED BY <1>9, <1>10, <2>1 DEF LaneFirst
<1>12. KindFirst(items', lanes') = KindFirst(items, lanes)
  <2>1. CASE LaneFirst(lanes) = "normal"
    <3>1. KindFirst(items, lanes) = items[lanes["normal"][1].item].kind
      BY <2>1 DEF KindFirst
    <3>2. KindFirst(items', lanes') = items'[t[1].item].kind
      BY <1>9, <1>11, <2>1 DEF KindFirst
    <3>3. CASE at = 1
      <4>1. t[1].item = New
        BY <1>8, <1>10, <3>3 DEF Part
      <4> QED BY <1>1, <1>5, <3>1, <3>2, <3>3, <4>1
    <3>4. CASE at # 1
      <4>1. t[1] = lanes["normal"][1]
        BY <1>8, <1>10, <3>4
      <4>2. lanes["normal"][1].item \in 1 .. Len(items)
        BY <1>6, <1>10 DEF Queue, Fill, Lane, Fits
      <4> QED BY <1>1, <3>1, <3>2, <4>1, <4>2 DEF Grows
    <3> QED BY <3>3, <3>4
  <2>2. CASE LaneFirst(lanes) = "high"
    <3>1. "high" \in LaneNames \ {"normal"}
      BY LaneNamesAre
    <3>2. lanes'["high"] = lanes["high"]
      BY <1>9, <3>1
    <3>3. 1 \in 1 .. Len(lanes["high"])
      <4>1. Fill(items, gone, lanes) /\ Entries(lanes) # {}
        BY <1>2, WaitingIs DEF Queue
      <4> QED BY <2>2, <4>1, FirstIs
    <3>4. lanes["high"][1].item \in 1 .. Len(items)
      BY <3>1, <3>3 DEF Queue, Fill, Lane, Fits
    <3> QED BY <1>1, <1>11, <2>2, <3>2, <3>4 DEF KindFirst, Grows
  <2> QED BY <1>11, <2>1, <2>2
<1>13. HeadKind' = HeadKind
  BY <1>1, <1>2, <1>12, HeadKindIs
<1>14. ASSUME NEW i \in DOMAIN items, Taken(i) PROVE i \in DOMAIN items' /\ Taken(i)'
  <2>1. Items(items) /\ Items(items')
    BY <1>1 DEF Queue
  <2>2. DOMAIN items = 1 .. Len(items) /\ DOMAIN items' = 1 .. Len(items')
    BY <2>1, LenProperties DEF Items
  <2>3. Len(items) \in Nat /\ New = Len(items) + 1
    BY <2>1, OrdersAre DEF New
  <2>4. i \in DOMAIN items' /\ i # New /\ items'[i] = items[i]
    BY <1>1, <2>2, <2>3 DEF Grows
  <2>5. Part(i, "whole") # Part(New, "whole")
    BY <2>4 DEF Part
  <2> QED BY <1>2, <1>4, <1>14, <2>4, <2>5 DEF Taken
<1>15. Bounded => Bounded'
  <2>1. ahead \in Nat
    BY DEF ClockTypes
  <2>2. ahead' \in Nat /\ ahead <= ahead'
    BY <1>4, <2>1
  <2> QED BY <1>4, <1>13, <1>14, <2>2, BoundedKept DEF Timed
<1> QED BY <1>2, <1>4, <1>15 DEF Timed, NoTimer

\* SendHandle.cancel: the timer outlives the item it was set for.
LEMMA TimedCancels ==
    ASSUME Queue, ClockTypes, Told, Timed, NEW i, Cancel(i), Queue',
           Waiting' = {e \in Waiting : e.item # i}
    PROVE  Timed'
<1>1. /\ i \in DOMAIN items /\ items[i].kind \in {"poll", "offer"}
      /\ UNCHANGED <<ahead, timer, paced, heard, draining, link, quitting, items>>
  BY DEF Cancel
<1>2. PICK e \in Waiting : e.item = i
  BY DEF Cancel
<1>3. e.stage = "whole" /\ ToldOf(e)
  BY <1>1, <1>2, WaitingFits DEF KindOf, Told
<1>4. heard[i].sent + heard[i].dropped = 0
  BY <1>2, <1>3 DEF ToldOf, Open
<1>5. Taken(i)'
  <2>1. Part(i, "whole") \notin Waiting'
    BY DEF Part
  <2> QED BY <1>1, <1>4, <2>1 DEF Taken
<1>6. Bounded => Bounded'
  <2>1. Bounded => timer' <= Most(ahead' + LongCost - Budget, 0)
    BY <1>1 DEF Bounded
  <2> QED BY <1>1, <1>5, <2>1 DEF Bounded
<1>7. Waiting' # {} => Waiting # {}
  OBVIOUS
<1>8. Waiting = {} => Waiting' = {}
  OBVIOUS
<1> QED BY <1>1, <1>2, <1>6, <1>7, <1>8 DEF Timed, NoTimer

-----------------------------------------------------------------------------
(* What is queued, told and due, whatever the step.                        *)

Kept == Queue /\ Told /\ Rekeyed

LEMMA SparedKept ==
    ASSUME Kept, refused' = refused,
           \A e \in Waiting' : e \in Waiting \/ (e = Part(New, "whole") /\ New \in 1 .. MaxItems)
    PROVE  Spared'
<1>1. \A e \in Waiting : e.item \in 1 .. MaxItems
  BY WaitingFits DEF Kept
<1>2. ASSUME NEW e \in Waiting'
      PROVE  /\ e.item \in 1 .. MaxItems
             /\ \/ ~Needs(e)
                \/ Fresh(e)
                \/ \E f \in Waiting : f.item = e.item /\ Needs(f)
  <2>1. CASE e \in Waiting
    BY <1>1, <2>1
  <2>2. CASE e = Part(New, "whole") /\ New \in 1 .. MaxItems
    <3>1. Len(items) \in Nat
      BY OrdersAre DEF Kept, Queue
    <3> QED BY <2>2, <3>1 DEF Part, Fresh, New
  <2> QED BY <2>1, <2>2
<1> QED BY <1>2, SparedStays DEF Kept

\* Nothing is written, sent or told.
LEMMA QuietKeeps ==
    ASSUME Kept, UNCHANGED <<lanes, items, mix, gone, heard, rekeys, refused>>,
           quitting' \in BOOLEAN, quitting => quitting'
    PROVE  Kept' /\ Waiting' = Waiting
<1>1. Queue' /\ Waiting' = Waiting
  BY QueueKept DEF Kept
<1>2. Len(items') \in Len(items) .. MaxItems
  BY OrdersAre, Costs DEF Kept, Queue
<1>3. \A e \in Waiting' : e.item \in 1 .. MaxItems /\ Stays(e)
  BY <1>1, WaitingFits DEF Stays, Kept
<1>4. refused # {} => quitting'
  BY DEF Kept, Told
<1>5. Told'
  BY <1>2, <1>3, <1>4, ToldUntold DEF Kept
<1>6. Rekeyed'
  <2>1. Spared'
    BY <1>1, SparedKept
  <2>2. OnWire' = OnWire /\ Bearers' = Bearers
    BY <1>1 DEF OnWire, Bearers
  <2> QED BY <2>1, <2>2, RekeyedSame DEF Kept
<1> QED BY <1>1, <1>5, <1>6 DEF Kept

LEMMA DropKeeps ==
    ASSUME Kept, Drop, UNCHANGED <<items, mix, gone>>, quitting' \in BOOLEAN
    PROVE  Kept' /\ Waiting' = {}
<1>1. Queue' /\ Waiting' = {}
  BY QueueEmptied DEF Kept, Drop
<1>2. Told' /\ Rekeyed'
  BY <1>1, ToldDrop, RekeyedDrop DEF Kept
<1> QED BY <1>1, <1>2 DEF Kept

\* Whole items come and go, and nobody is told.
LEMMA UntoldKeeps ==
    ASSUME Kept, Queue', UNCHANGED <<heard, rekeys, gone, refused, quitting>>,
           Len(items') \in Len(items) .. MaxItems,
           \A e \in Waiting' : e \in Waiting \/ (e = Part(New, "whole") /\ New \in 1 .. MaxItems),
           \A e \in Waiting \ Waiting' : e.stage = "whole"
    PROVE  Kept'
<1>1. ASSUME NEW e \in Waiting' PROVE e.item \in 1 .. MaxItems /\ (Stays(e) \/ Fresh(e))
  <2>1. CASE e \in Waiting
    BY <2>1, WaitingFits DEF Stays, Kept
  <2>2. CASE e = Part(New, "whole") /\ New \in 1 .. MaxItems
    <3>1. Len(items) \in Nat
      BY OrdersAre DEF Kept, Queue
    <3> QED BY <2>2, <3>1 DEF Part, Fresh, New
  <2> QED BY <2>1, <2>2
<1>2. refused # {} => quitting'
  BY DEF Kept, Told
<1>3. quitting' \in BOOLEAN
  BY DEF Kept, Told
<1>4. Told'
  BY <1>1, <1>2, <1>3, ToldUntold DEF Kept
<1>5. Rekeyed'
  BY RekeyedWhole DEF Kept
<1> QED BY <1>4, <1>5 DEF Kept

\* What the head's turn comes to, while it is not a line.
LEMMA WithdrawnKeeps == ASSUME Kept, Withdrawn, mix' = mix PROVE Kept'
<1>1. /\ Pending > 0 /\ Shift(<<>>) /\ KindOf(HeadEntry) = "offer"
      /\ UNCHANGED <<items, gone, heard, rekeys, refused, quitting>>
  BY DEF Withdrawn, Turn, HeadMayGo, TellNobody
<1>2. Queue' /\ Waiting' = Waiting \ {HeadEntry}
  BY <1>1, QueueLeft DEF Kept
<1>3. HeadEntry.stage = "whole"
  BY <1>1, HeadIs, WaitingFits DEF Kept
<1>4. Len(items') \in Len(items) .. MaxItems
  BY <1>1, OrdersAre, Costs DEF Kept, Queue
<1> QED BY <1>1, <1>2, <1>3, <1>4, UntoldKeeps

LEMMA BuildKeeps == ASSUME Kept, Build, mix' = mix PROVE Kept'
<1> DEFINE e == HeadEntry
           p(stage) == Part(e.item, stage)
<1>1. Expanded(e)
  BY Builds DEF Kept
<1>2. /\ Pending > 0 /\ UNCHANGED <<items, gone, refused, quitting>>
  BY DEF Build, Turn, HeadMayGo
<1>3. e \in Waiting /\ e.item \in 1 .. MaxItems
  BY <1>2, HeadIs, WaitingFits DEF Kept
<1>4. Len(items') \in Len(items) .. MaxItems
  BY <1>2, OrdersAre, Costs DEF Kept, Queue
<1>5. (refused # {} => quitting') /\ quitting' \in BOOLEAN
  BY <1>2 DEF Kept, Told
<1> HIDE DEF e
<1>6. ASSUME NEW made, Built(e, made), heard' = heard,
             \A f \in made : f.item = e.item /\ f.stage # "whole"
      PROVE  Told'
  <2>1. ASSUME NEW f \in Waiting' PROVE f.item \in 1 .. MaxItems /\ (Stays(f) \/ Fresh(f))
    <3>1. CASE f \in Waiting
      BY <3>1, WaitingFits DEF Stays, Kept
    <3>2. CASE f \in made
      BY <1>3, <1>6, <3>2 DEF Stays
    <3> QED BY <1>6, <3>1, <3>2 DEF Built
  <2> QED BY <1>2, <1>4, <1>5, <1>6, <2>1, ToldUntold DEF Kept
<1>7. Told'
  <2>1. CASE ComesToNothing(e)
    <3>1. Built(e, {}) /\ e.stage \in {"whole", "encrypt"}
      BY <2>1 DEF ComesToNothing
    <3>2. CASE TellNobody
      <4>1. heard' = heard
        BY <3>2 DEF TellNobody
      <4> QED BY <1>6, <3>1, <4>1
    <3>3. CASE TellThrown(e)
      <4>1. Waiting' = Waiting \ {e}
        BY <3>1 DEF Built
      <4> QED BY <1>2, <3>1, <3>3, <4>1, ToldThrown DEF Kept, e
    <3> QED BY <2>1, <3>2, <3>3 DEF ComesToNothing
  <2>2. CASE ~ComesToNothing(e)
    <3>1. heard' = heard
      BY <1>1, <2>2 DEF Expanded, Replies, Encrypts, RekeysFirst, Notices, Voids, Chunks, TellNobody
    <3>2. PICK made : Built(e, made) /\ \A f \in made : f.item = e.item /\ f.stage # "whole"
      <4>1. ASSUME NEW stage \in {"last", "encrypt", "rekey", "notice", "chunk"}
            PROVE  p(stage).item = e.item /\ p(stage).stage # "whole"
        BY DEF Part
      <4>2. \E made \in {{p("last")}, {p("encrypt")}, {p("rekey"), p("encrypt")}, {p("notice")}, {},
                         {p("chunk"), p("last")}} : Built(e, made)
        BY <1>1, <2>2 DEF Expanded, Replies, Encrypts, RekeysFirst, Notices, Voids, Chunks
      <4> HIDE DEF p
      <4> QED BY <4>1, <4>2
    <3> QED BY <1>6, <3>1, <3>2
  <2> QED BY <2>1, <2>2
<1>8. Rekeyed'
  BY <1>1, <1>2, <1>3, RekeyedExpanded DEF Kept
<1>9. Queue'
  BY <1>1 DEF Expanded, ComesToNothing, Replies, Encrypts, RekeysFirst, Notices, Voids, Chunks, Built
<1> QED BY <1>7, <1>8, <1>9 DEF Kept

LEMMA LineKeeps == ASSUME Kept, LineGoes, mix' = mix PROVE Kept'
<1>1. /\ Pending > 0 /\ Shift(<<>>) /\ ~IsThunk(HeadEntry) /\ ~quitting /\ TellSent(HeadEntry)
      /\ gone' = Append(gone, HeadEntry) /\ UNCHANGED <<items, refused, quitting>>
  BY DEF LineGoes, Turn, HeadMayGo
<1>2. HeadEntry.stage # "rekey" /\ UNCHANGED rekeys
  BY <1>1 DEF IsThunk, TellSent
<1>3. Queue' /\ Waiting' = Waiting \ {HeadEntry}
  BY <1>1, QueueSent DEF Kept
<1>4. Told' /\ Rekeyed'
  BY <1>1, <1>2, <1>3, ToldSent, RekeyedSent DEF Kept
<1> QED BY <1>3, <1>4 DEF Kept

LEMMA RefusalKeeps == ASSUME Kept, LineRefused, mix' = mix PROVE Kept'
<1>1. /\ Pending > 0 /\ Shift(<<>>) /\ ~IsThunk(HeadEntry) /\ quitting /\ Refuse(HeadEntry)
      /\ UNCHANGED <<items, gone, quitting>>
  BY DEF LineRefused, Turn, HeadMayGo
<1>2. HeadEntry.stage # "rekey"
  BY <1>1 DEF IsThunk
<1>3. Queue' /\ Waiting' = Waiting \ {HeadEntry}
  BY <1>1, QueueLeft DEF Kept
<1>4. Told' /\ Rekeyed'
  BY <1>1, <1>2, <1>3, ToldRefused, RekeyedRefused DEF Kept
<1> QED BY <1>3, <1>4 DEF Kept

\* A line past the lanes: to nobody, at once, or refused.
LEMMA PassedKeeps ==
    ASSUME Kept, NEW kind \in mix.kinds, Len(items) < mix.most, Arrives(kind),
           UNCHANGED <<lanes, gone, mix, quitting>>,
           \/ TellDropped({Hook("item", New)}) /\ UNCHANGED refused
           \/ quitting /\ Refuse(Part(New, "whole"))
           \/ TellSent(Part(New, "whole")) /\ UNCHANGED refused
    PROVE  /\ Kept' /\ Waiting' = Waiting /\ Grows(items, items') /\ Len(items') = New
           /\ \A i \in 1 .. MaxItems : i # New => heard'[i] = heard[i]
<1> DEFINE hooks == HooksOf(Part(New, "whole"))
<1>1. /\ Queue' /\ Waiting' = Waiting /\ Grows(items, items')
      /\ New \in 1 .. MaxItems /\ Len(items') = New
  BY QueuePassed DEF Kept
<1>2. New > Len(items)
  BY OrdersAre DEF Kept, Queue, New
<1>3. \A of : Hook(of, New) \notin refused
  BY <1>1, <1>2, FreshIs DEF Kept
<1>4. hooks = {Hook("item", New)} /\ hooks \ refused = {Hook("item", New)}
  BY <1>3 DEF HooksOf, Part
<1>5. \A i : Hook("item", i) \in {Hook("item", New)} <=> i = New
  BY HooksAre
<1>6. \A h \in {Hook("item", New)} : h.of # "rekey"
  BY HooksAre
<1>7. ASSUME TellSent(Part(New, "whole"))
      PROVE  /\ heard' \in [1 .. MaxItems -> Record] /\ Once(heard'[New])
             /\ \A i \in 1 .. MaxItems : i # New => heard'[i] = heard[i]
             /\ rekeys' = rekeys
  <2>1. /\ heard' \in [1 .. MaxItems -> Record] /\ Once(heard'[New])
        /\ \A i \in 1 .. MaxItems : i # New => heard'[i] = heard[i]
    BY <1>1, <1>7, ToldNewSent DEF Kept
  <2> QED BY <1>7, <2>1 DEF TellSent
<1>8. ASSUME TellDropped({Hook("item", New)})
      PROVE  /\ heard' \in [1 .. MaxItems -> Record] /\ Once(heard'[New])
             /\ \A i \in 1 .. MaxItems : i # New => heard'[i] = heard[i]
             /\ rekeys' = rekeys
  <2>1. /\ heard' \in [1 .. MaxItems -> Record] /\ Once(heard'[New])
        /\ \A i \in 1 .. MaxItems : i # New => heard'[i] = heard[i]
    BY <1>1, <1>5, <1>8, ToldNewDropped DEF Kept
  <2>2. rekeys' = rekeys
    BY <1>6, <1>8, RekeyedTold DEF Kept
  <2> QED BY <2>1, <2>2
<1>9. /\ heard' \in [1 .. MaxItems -> Record] /\ Once(heard'[New])
      /\ \A i \in 1 .. MaxItems : i # New => heard'[i] = heard[i]
      /\ rekeys' = rekeys
  <2>1. CASE TellDropped({Hook("item", New)})
    BY <1>8, <2>1
  <2>2. CASE Refuse(Part(New, "whole"))
    <3>1. TellDropped({Hook("item", New)})
      BY <1>4, <2>2 DEF Refuse
    <3> QED BY <1>8, <3>1
  <2>3. CASE TellSent(Part(New, "whole"))
    BY <1>7, <2>3
  <2> QED BY <2>1, <2>2, <2>3
<1>10. \/ refused' = refused
       \/ quitting /\ refused' = refused \union hooks
  BY DEF Refuse
<1>11. Told'
  BY <1>1, <1>9, <1>10, ToldNew DEF Kept
<1>12. Rekeyed'
  <2>1. OnWire' = OnWire /\ Bearers' = Bearers
    BY <1>1 DEF OnWire, Bearers
  <2>2. ASSUME NEW e \in Waiting', Needs(e) PROVE Hook("rekey", e.item) \notin refused'
    <3>1. Hook("rekey", e.item) \notin refused
      BY <1>1, <2>2 DEF Kept, Rekeyed, Needs
    <3>2. Hook("rekey", e.item) \notin hooks
      BY <1>4, HooksAre
    <3> QED BY <1>10, <3>1, <3>2
  <2>3. Spared'
    BY <2>2 DEF Spared
  <2> QED BY <1>9, <2>1, <2>3, RekeyedSame DEF Kept
<1> QED BY <1>1, <1>9, <1>11, <1>12 DEF Kept

LEMMA QueuedKeeps ==
    ASSUME Kept, NEW kind \in mix.kinds, WriteQueued(kind), mix' = mix PROVE Kept'
<1>1. /\ Queue' /\ Waiting' = Waiting \union {Part(New, "whole")}
      /\ New \in 1 .. MaxItems /\ Len(items') = New
  BY QueueWritten DEF Kept
<1>2. UNCHANGED <<heard, rekeys, gone, refused, quitting>>
  BY DEF WriteQueued, TellNobody
<1>3. Len(items') \in Len(items) .. MaxItems
  BY <1>1, OrdersAre, Costs DEF Kept, Queue, New
<1> QED BY <1>1, <1>2, <1>3, UntoldKeeps

LEMMA ReplacingKeeps ==
    ASSUME Kept, NEW kind \in mix.kinds, WriteReplacing(kind), mix' = mix PROVE Kept'
<1>1. Queue' /\ New \in 1 .. MaxItems /\ Len(items') = New
  BY QueueReplaced DEF Kept
<1>2. PICK old \in Waiting :
         old.stage = "whole" /\ Waiting' = (Waiting \ {old}) \union {Part(New, "whole")}
  BY QueueReplaced DEF Kept
<1>3. UNCHANGED <<heard, rekeys, gone, refused, quitting>>
  BY DEF WriteReplacing, TellNobody
<1>4. Len(items') \in Len(items) .. MaxItems
  BY <1>1, OrdersAre, Costs DEF Kept, Queue, New
<1> QED BY <1>1, <1>2, <1>3, <1>4, UntoldKeeps

LEMMA KeyedKeeps ==
    ASSUME Kept, NEW kind \in mix.kinds, WriteKeyed(kind), mix' = mix PROVE Kept'
<1>1. Queue' /\ New \in 1 .. MaxItems /\ Len(items') = New
  BY QueueKeyed DEF Kept
<1>2. PICK out \in SUBSET Waiting :
         /\ \A e \in out : e.stage = "whole"
         /\ TellDropped(UNION {HooksOf(e) : e \in out})
         /\ Waiting' = (Waiting \ out) \union {Part(New, "whole")}
  BY QueueKeyed DEF Kept
<1>3. UNCHANGED <<gone, refused, quitting>>
  BY DEF WriteKeyed
<1>4. Told'
  BY <1>1, <1>2, <1>3, ToldEvicted DEF Kept
<1>5. ASSUME NEW h \in UNION {HooksOf(e) : e \in out} PROVE h.of # "rekey"
  <2>1. PICK e \in out : h \in HooksOf(e)
    OBVIOUS
  <2>2. h = Hook("item", e.item)
    BY <1>2, <2>1 DEF HooksOf
  <2> QED BY <2>2, HooksAre
<1>6. rekeys' = rekeys
  BY <1>2, <1>5, RekeyedTold DEF Kept
<1>7. \A e \in Waiting \ Waiting' : e.stage = "whole"
  BY <1>2
<1>8. Rekeyed'
  BY <1>1, <1>2, <1>3, <1>6, <1>7, RekeyedWhole DEF Kept
<1> QED BY <1>1, <1>4, <1>8 DEF Kept

LEMMA CancelKeeps ==
    ASSUME Kept, NEW i, Cancel(i), mix' = mix
    PROVE  Kept' /\ Waiting' = {e \in Waiting : e.item # i}
<1>1. /\ items[i].kind \in {"poll", "offer"}
      /\ UNCHANGED <<items, heard, rekeys, gone, refused, quitting>>
  BY DEF Cancel
<1>2. PutWithout(lanes', lanes, i)
  BY DEF Cancel, PutWithout
<1>3. Queue' /\ Waiting' = {e \in Waiting : e.item # i}
  BY <1>1, <1>2, QueueCancelled DEF Kept
<1>4. \A e \in Waiting \ Waiting' : e.stage = "whole"
  BY <1>1, <1>3, WaitingFits DEF Kept, KindOf
<1>5. Len(items') \in Len(items) .. MaxItems
  BY <1>1, OrdersAre, Costs DEF Kept, Queue
<1> QED BY <1>1, <1>3, <1>4, <1>5, UntoldKeeps

LEMMA WriteKeeps == ASSUME Kept, NEW kind \in mix.kinds, Write(kind), mix' = mix PROVE Kept'
<1>1. CASE WriteGone(kind)
  BY <1>1, PassedKeeps DEF WriteGone
<1>2. CASE WriteAtOnce(kind)
  BY <1>2, PassedKeeps DEF WriteAtOnce, MayWrite
<1> QED BY <1>1, <1>2, QueuedKeeps, ReplacingKeeps, KeyedKeeps DEF Write

LEMMA KeptStep == ASSUME Kept, [PacerNext]_pacerVars PROVE Kept'
<1>1. CASE \/ DialsAgain \/ SocketCloses \/ Detached \/ Disposed
  <2>1. quitting \in BOOLEAN
    BY DEF Kept, Told
  <2>2. Drop /\ UNCHANGED <<items, gone>> /\ quitting' \in BOOLEAN
    BY <1>1, <2>1 DEF DialsAgain, SocketCloses, Detached, Disposed
  <2>3. mix' = mix
    BY DEF PacerNext, pacerVars
  <2> QED BY <2>2, <2>3, DropKeeps
<1>2. CASE \/ Tick \/ TimerFires \/ DrainEnds \/ DrainWaits \/ Registered001 \/ LinkCut
           \/ Reattached \/ RestoreIsOver \/ QuitAsked \/ PacingFlips \/ UNCHANGED pacerVars
  <2>1. quitting \in BOOLEAN
    BY DEF Kept, Told
  <2>2. UNCHANGED <<lanes, items, gone, heard, rekeys, refused>>
    BY <1>2 DEF Tick, TimerFires, DrainEnds, DrainWaits, Registered001, LinkCut, Reattached,
                RestoreIsOver, QuitAsked, PacingFlips, pacerVars
  <2>3. quitting' \in BOOLEAN /\ (quitting => quitting')
    <3>1. quitting' = quitting \/ quitting' = TRUE
      BY <1>2 DEF Tick, TimerFires, DrainEnds, DrainWaits, Registered001, LinkCut, Reattached,
                  RestoreIsOver, QuitAsked, PacingFlips, pacerVars
    <3> QED BY <2>1, <3>1
  <2>4. mix' = mix
    BY DEF PacerNext, pacerVars
  <2> QED BY <2>2, <2>3, <2>4, QuietKeeps
<1>3. CASE PacerNext
  <2>1. mix' = mix
    BY <1>3 DEF PacerNext
  <2>2. ASSUME NEW kind \in mix.kinds, Write(kind) PROVE Kept'
    BY <2>1, <2>2, WriteKeeps
  <2>3. CASE WriteImmediate
    <3>1. /\ "ping" \in mix.kinds /\ Len(items) < mix.most /\ Arrives("ping")
          /\ UNCHANGED <<lanes, gone, quitting>>
          /\ \/ quitting /\ Refuse(Part(New, "whole"))
             \/ TellSent(Part(New, "whole")) /\ UNCHANGED refused
      BY <2>3 DEF WriteImmediate, MayWrite
    <3> QED BY <2>1, <3>1, PassedKeeps
  <2>4. ASSUME NEW i \in DOMAIN items, Cancel(i) PROVE Kept'
    BY <2>1, <2>4, CancelKeeps
  <2>5. CASE Withdrawn \/ Build \/ LineGoes \/ LineRefused
    BY <2>1, <2>5, WithdrawnKeeps, BuildKeeps, LineKeeps, RefusalKeeps
  <2> QED BY <1>1, <1>2, <1>3, <2>2, <2>3, <2>4, <2>5 DEF PacerNext, DrainStep
<1> QED BY <1>2, <1>3

-----------------------------------------------------------------------------
(* The timer, whatever the step.                                           *)

LEMMA TimedDrain == ASSUME Kept, ClockTypes, Timed, DrainStep, mix' = mix PROVE Timed'
<1>1. CASE DrainEnds
  <2>1. /\ draining /\ ~HeadMayGo /\ draining' = FALSE /\ timer = NoTimer
        /\ UNCHANGED <<lanes, timer, link, quitting>>
    BY <1>1 DEF DrainEnds, Timed
  <2>2. Waiting' = Waiting
    BY <2>1 DEF Waiting
  <2>3. link = "up" => Waiting = {}
    BY <2>1, PendingIs DEF HeadMayGo, Ready, Holding, Kept
  <2> QED BY <2>1, <2>2, <2>3 DEF Timed
<1>2. CASE DrainWaits
  BY <1>2, TimedWaits DEF Kept
<1>3. CASE Withdrawn \/ Build \/ LineGoes
  <2>1. draining /\ draining' = draining /\ timer' = timer /\ link' = link /\ Ready
    BY <1>3 DEF Withdrawn, Build, LineGoes, Turn, HeadMayGo
  <2>2. draining' = TRUE /\ timer' = NoTimer /\ link' \in {"up", "restoring"}
    BY <2>1 DEF Timed, Ready
  <2> QED BY <2>2, TimedDrains
<1>4. CASE LineRefused
  <2>1. /\ quitting' /\ draining' = FALSE /\ timer' = NoTimer /\ link' \in {"up", "restoring"}
    BY <1>4 DEF LineRefused, Turn, HeadMayGo, Ready, Timed
  <2> QED BY <2>1 DEF Timed, NoTimer
<1> QED BY <1>1, <1>2, <1>3, <1>4 DEF DrainStep

LEMMA RedrainStarts == ASSUME Timed, Redrain PROVE draining' = TRUE /\ timer' = NoTimer
BY DEF Timed, Redrain

LEMMA TimedWrites ==
    ASSUME Kept, ClockTypes, Timed, NEW kind \in mix.kinds, Write(kind), mix' = mix PROVE Timed'
<1>1. CASE WriteGone(kind)
  <2>1. /\ Kept' /\ Waiting' = Waiting
    BY <1>1, PassedKeeps DEF WriteGone
  <2>2. UNCHANGED <<timer, draining, link, quitting>> /\ link = "gone"
    BY <1>1 DEF WriteGone
  <2> QED BY <2>1, <2>2, TimedStays DEF Timed
<1>2. CASE WriteAtOnce(kind)
  <2>1. /\ Kept' /\ Waiting' = Waiting /\ Grows(items, items') /\ Len(items') = New
        /\ \A i \in 1 .. MaxItems : i # New => heard'[i] = heard[i]
    BY <1>2, PassedKeeps DEF WriteAtOnce, MayWrite
  <2>2. /\ UNCHANGED <<lanes, timer, draining, link, quitting, paced>> /\ ahead' = ahead
    BY <1>2 DEF WriteAtOnce
  <2>3. ahead' \in Nat /\ ahead <= ahead'
    BY <2>2 DEF ClockTypes
  <2> QED BY <2>1, <2>2, <2>3, TimedPassed DEF Kept
<1>3. CASE WriteQueued(kind) \/ WriteKeyed(kind)
  <2>1. Redrain /\ link' \in {"up", "restoring"}
    BY <1>3 DEF WriteQueued, WriteKeyed, MayWrite, Ready
  <2> QED BY <2>1, RedrainStarts, TimedDrains
<1>4. CASE WriteReplacing(kind)
  BY <1>4, TimedReplaces DEF Kept
<1> QED BY <1>1, <1>2, <1>3, <1>4 DEF Write

LEMMA TimedImmediate ==
    ASSUME Kept, ClockTypes, Timed, WriteImmediate, mix' = mix PROVE Timed'
<1>1. /\ "ping" \in mix.kinds /\ Len(items) < mix.most /\ Arrives("ping")
      /\ UNCHANGED <<lanes, gone, quitting, timer, draining, link, paced>>
      /\ \/ quitting /\ Refuse(Part(New, "whole"))
         \/ TellSent(Part(New, "whole")) /\ UNCHANGED refused
  BY DEF WriteImmediate, MayWrite
<1>2. /\ Kept' /\ Waiting' = Waiting /\ Grows(items, items') /\ Len(items') = New
      /\ \A i \in 1 .. MaxItems : i # New => heard'[i] = heard[i]
  BY <1>1, PassedKeeps
<1>3. ahead' \in Nat /\ ahead <= ahead'
  <2>1. ahead \in Nat /\ paced \in BOOLEAN
    BY DEF ClockTypes
  <2>2. CASE quitting
    BY <2>1, <2>2 DEF WriteImmediate
  <2>3. CASE ~quitting
    <3>1. Charge("ping", 1)
      BY <2>3 DEF WriteImmediate
    <3>2. CASE paced
      BY <3>1, <3>2, Charges
    <3>3. CASE ~paced
      BY <2>1, <3>1, <3>3 DEF Charge
    <3> QED BY <3>2, <3>3
  <2> QED BY <2>2, <2>3
<1> QED BY <1>1, <1>2, <1>3, TimedPassed DEF Kept

\* The connection's phases.
LEMMA TimedPhases ==
    ASSUME Kept, ClockTypes, Timed, mix' = mix,
           \/ DialsAgain \/ Registered001 \/ LinkCut \/ Reattached \/ RestoreIsOver
           \/ SocketCloses \/ QuitAsked \/ Detached \/ Disposed \/ PacingFlips
    PROVE  Timed'
<1>1. CASE DialsAgain \/ SocketCloses \/ Detached \/ Disposed
  <2>1. Drop /\ UNCHANGED <<items, gone, draining>> /\ ~draining
    BY <1>1 DEF DialsAgain, SocketCloses, Detached, Disposed
  <2>2. Waiting' = {}
    BY <2>1, QueueEmptied DEF Kept, Drop
  <2>3. link' \in {"dialing", "up", "cut", "restoring", "down", "gone"}
    BY <1>1 DEF DialsAgain, SocketCloses, Detached, Disposed
  <2> QED BY <2>1, <2>2, <2>3, TimedDrop
<1>2. ASSUME UNCHANGED <<lanes, items, gone, heard, ahead, paced, timer>>
      PROVE  Waiting' = Waiting /\ (Waiting # {} /\ Bounded => Bounded')
  BY <1>2, TimedSame DEF Kept
<1>3. CASE Registered001
  <2>1. /\ timer = NoTimer /\ draining' = TRUE /\ timer' = NoTimer /\ link' = "up"
    BY <1>3 DEF Registered001, Resume, Timed
  <2> QED BY <2>1, TimedDrains
<1>4. CASE LinkCut \/ Reattached \/ QuitAsked
  <2>1. UNCHANGED <<lanes, items, gone, heard, ahead, paced, timer, draining>>
    BY <1>4 DEF LinkCut, Reattached, QuitAsked
  <2>2. /\ ~quitting' => ~quitting
        /\ link' = link \/ (Ready /\ link' = "cut") \/ (link = "cut" /\ link' = "restoring")
    BY <1>4 DEF LinkCut, Reattached, QuitAsked
  <2> QED BY <1>2, <2>1, <2>2, TimedStays
<1>5. CASE RestoreIsOver
  <2>1. /\ UNCHANGED <<lanes, items, gone, heard, ahead, paced, timer, quitting>>
        /\ ~draining /\ draining' = (timer = NoTimer) /\ link = "restoring" /\ link' = "up"
    BY <1>5 DEF RestoreIsOver, RestoreEnds, Resume
  <2> QED BY <1>2, <2>1 DEF Timed
<1>6. CASE PacingFlips
  <2>1. Redrain /\ lanes' = lanes /\ link' = link /\ ~draining
    BY <1>6 DEF PacingFlips
  <2>2. Waiting' = Waiting /\ draining' = TRUE /\ timer' = NoTimer
    BY <2>1, RedrainStarts DEF Waiting
  <2> QED BY <2>1, <2>2 DEF Timed, NoTimer
<1> QED BY <1>1, <1>3, <1>4, <1>5, <1>6

LEMMA TimedStep == ASSUME Kept, ClockTypes, Timed, [PacerNext]_pacerVars PROVE Timed'
<1>1. CASE UNCHANGED pacerVars
  <2>1. /\ UNCHANGED <<lanes, items, mix, gone, heard, ahead, paced, timer>>
        /\ UNCHANGED <<draining, link, quitting>>
    BY <1>1 DEF pacerVars
  <2> QED BY <2>1, TimedSame, TimedStays DEF Kept
<1>2. CASE PacerNext
  <2>1. mix' = mix
    BY <1>2 DEF PacerNext
  <2>2. CASE Tick
    BY <2>1, <2>2, TimedTick DEF Kept
  <2>3. CASE TimerFires
    <3>1. /\ UNCHANGED <<lanes, link>> /\ draining' = TRUE /\ timer' = NoTimer
      BY <2>3 DEF TimerFires
    <3>2. Waiting' = Waiting
      BY <3>1 DEF Waiting
    <3> QED BY <3>1, <3>2 DEF Timed, NoTimer
  <2>4. CASE DrainStep
    BY <2>1, <2>4, TimedDrain
  <2>5. ASSUME NEW kind \in mix.kinds, Write(kind) PROVE Timed'
    BY <2>1, <2>5, TimedWrites
  <2>6. CASE WriteImmediate
    BY <2>1, <2>6, TimedImmediate
  <2>7. ASSUME NEW i \in DOMAIN items, Cancel(i) PROVE Timed'
    BY <2>1, <2>7, CancelKeeps, TimedCancels DEF Kept
  <2>8. CASE \/ DialsAgain \/ Registered001 \/ LinkCut \/ Reattached \/ RestoreIsOver
             \/ SocketCloses \/ QuitAsked \/ Detached \/ Disposed \/ PacingFlips
    BY <2>1, <2>8, TimedPhases
  <2> QED BY <1>2, <2>2, <2>3, <2>4, <2>5, <2>6, <2>7, <2>8 DEF PacerNext
<1> QED BY <1>1, <1>2

-----------------------------------------------------------------------------
(* The invariant, and what it says.                                        *)

SocketsBound == sockets \in 0 .. MaxSockets

PacerInv == Kept /\ Timed /\ ClockTypes /\ Clocked /\ SocketsBound

LEMMA PacerStarts == PacerInit => PacerInv
<1> SUFFICES ASSUME PacerInit PROVE PacerInv
  OBVIOUS
<1>1. /\ lanes = NoLines /\ items = <<>> /\ gone = <<>> /\ mix \in Mixes /\ refused = {}
      /\ heard = [i \in 1 .. MaxItems |-> [sent |-> 0, dropped |-> 0, threw |-> FALSE]]
      /\ rekeys = [made |-> 0, queued |-> 0, void |-> 0]
      /\ ahead = 0 /\ timer = NoTimer /\ ~draining /\ draining \in BOOLEAN
      /\ link = "dialing" /\ quitting = FALSE /\ paced = TRUE /\ sockets = 1
      /\ server = [debt |-> 0, pongs |-> 0, asks |-> 0, exempt |-> FALSE]
  BY DEF PacerInit
<1>2. MaxItems \in Nat /\ Budget \in Nat /\ UnitLines \in Nat \ {0} /\ MaxSockets \in Nat \ {0}
  BY Costs, PacerConstants
<1>3. Waiting = {} /\ Fill(items, gone, lanes)
  BY <1>1, FillEmpty, WaitingIs
<1>4. Len(items) = 0 /\ Len(gone) = 0 /\ items \in Seq(Item) /\ gone \in Seq(PacerEntry)
  BY <1>1, EmptySeq
<1>5. Queue
  <2>1. Items(items)
    BY <1>2, <1>4 DEF Items
  <2>2. Went(items, gone)
    BY <1>4 DEF Went
  <2> QED BY <1>1, <1>3, <2>1, <2>2 DEF Queue
<1>6. Told
  <2>1. heard \in [1 .. MaxItems -> Record]
    BY <1>1 DEF Record
  <2>2. \A i \in 1 .. MaxItems : Once(heard[i]) /\ Unheard(heard[i])
    BY <1>1 DEF Once, Unheard
  <2> QED BY <1>1, <1>3, <2>1, <2>2 DEF Told
<1>7. Rekeyed
  <2>1. Bearers = {} /\ OnWire = {}
    BY <1>3, <1>4 DEF Bearers, OnWire
  <2>2. /\ rekeys \in [made : Nat, queued : Nat, void : Nat]
        /\ rekeys.made = 0 /\ rekeys.queued = 0 /\ rekeys.void = 0
    BY <1>1
  <2> QED BY <1>3, <2>1, <2>2 DEF Rekeyed
<1>8. Timed
  BY <1>1, <1>3 DEF Timed, NoTimer
<1>9. ClockTypes /\ Clocked
  BY <1>1, <1>2 DEF ClockTypes, Clocked
<1>10. SocketsBound
  BY <1>1, <1>2 DEF SocketsBound
<1> QED BY <1>5, <1>6, <1>7, <1>8, <1>9, <1>10 DEF PacerInv, Kept

LEMMA PacerInvStep == ASSUME PacerInv, [PacerNext]_pacerVars PROVE PacerInv'
<1>1. Kept' /\ Timed' /\ ClockTypes' /\ Clocked'
  BY KeptStep, TimedStep, ClockedStep DEF PacerInv
<1>2. SocketsBound'
  <2>1. CASE sockets' = sockets
    BY <2>1 DEF PacerInv, SocketsBound
  <2>2. CASE DialsAgain
    BY <2>2, PacerConstants DEF DialsAgain, PacerInv, SocketsBound
  <2>3. sockets' = sockets \/ DialsAgain
    BY DEF PacerNext, Tick, TimerFires, DrainStep, DrainEnds, DrainWaits, Withdrawn, Build,
           LineGoes, LineRefused, Write, WriteGone, WriteAtOnce, WriteQueued, WriteReplacing,
           WriteKeyed, WriteImmediate, Cancel, Registered001, LinkCut, Reattached,
           RestoreIsOver, SocketCloses, QuitAsked, Detached, Disposed, PacingFlips, pacerVars
  <2> QED BY <2>1, <2>2, <2>3
<1> QED BY <1>1, <1>2 DEF PacerInv

\* Whatever the lines, the costs, the budget and the sockets.
LEMMA PacerHolds == PacerSpec => []PacerInv
BY PacerStarts, PacerInvStep, PTL DEF PacerSpec

LEMMA StageRanks ==
    \A e : /\ e.stage = "rekey" => StageRank(e) = 2
           /\ e.stage = "notice" => StageRank(e) = 3
           /\ e.stage = "encrypt" => StageRank(e) = 4
           /\ e.stage = "chunk" => StageRank(e) = 5
           /\ e.stage = "last" => StageRank(e) = 6
<1>1. /\ DOMAIN Stages = {1, 2, 3, 4, 5, 6}
      /\ Stages[1] = "whole" /\ Stages[2] = "rekey" /\ Stages[3] = "notice"
      /\ Stages[4] = "encrypt" /\ Stages[5] = "chunk" /\ Stages[6] = "last"
  BY DEF Stages
<1>2. ASSUME NEW e, NEW n \in {2, 3, 4, 5, 6}, Stages[n] = e.stage PROVE StageRank(e) = n
  <2>1. \A k \in DOMAIN Stages : Stages[k] = e.stage <=> k = n
    BY <1>1, <1>2
  <2> QED BY <1>1, <2>1 DEF StageRank
<1> QED BY <1>1, <1>2

LEMMA InvIsInOrder == ASSUME PacerInv PROVE InOrder
<1>1. Went(items, gone) /\ DOMAIN gone = 1 .. Len(gone)
  BY LenProperties DEF PacerInv, Kept, Queue, Went
<1>2. ASSUME NEW m \in DOMAIN gone, NEW n \in DOMAIN gone, m < n,
             LaneOf(KindOf(gone[m])) = LaneOf(KindOf(gone[n]))
      PROVE  GoesBefore(gone[m], gone[n])
  <2> DEFINE e == gone[m]
             f == gone[n]
  <2>1. Precedes(items, e, f)
    BY <1>1, <1>2 DEF Went, KindOf
  <2>2. CASE items[e.item].order < items[f.item].order
    BY <2>2 DEF GoesBefore
  <2>3. CASE Follows(e, f)
    <3>1. e.item = f.item
      BY <2>3 DEF Follows
    <3>2. StageRank(e) <= StageRank(f)
      <4> HIDE DEF e, f
      <4> QED BY <2>3, StageRanks DEF Follows
    <3> QED BY <3>1, <3>2 DEF GoesBefore
  <2> QED BY <2>1, <2>2, <2>3 DEF Precedes
<1> QED BY <1>2 DEF InOrder

LEMMA InvIsHeardOnce == ASSUME PacerInv PROVE HeardOnce
BY DEF PacerInv, Kept, Told, Once, HeardOnce

LEMMA InvIsCarried == ASSUME PacerInv PROVE QueueIsCarried
BY PendingIs DEF PacerInv, Kept, Timed, Bounded, QueueIsCarried

LEMMA InvIsTyped == ASSUME PacerInv PROVE PacerTypeOK
<1>1. /\ lanes \in [LaneNames -> Seq(PacerEntry)] /\ gone \in Seq(PacerEntry)
      /\ items \in Seq([kind : AllKinds, order : 1 .. MaxItems]) /\ mix \in Mixes
      /\ Len(items) \in 0 .. MaxItems
  BY OrdersAre DEF PacerInv, Kept, Queue, Fill, Went, Items, Item
<1>2. refused \subseteq [of : {"item", "rekey"}, item : 1 .. MaxItems]
  <2>1. refused \subseteq [of : {"item", "rekey"}, item : 1 .. Len(items)]
    BY DEF PacerInv, Kept, Told
  <2>2. 1 .. Len(items) \subseteq 1 .. MaxItems
    BY <1>1, Costs
  <2> QED BY <2>1, <2>2
<1>3. /\ heard \in [1 .. MaxItems -> [sent : Nat, dropped : Nat, threw : BOOLEAN]]
      /\ quitting \in BOOLEAN
  BY DEF PacerInv, Kept, Told, Record
<1>4. rekeys \in [made : Nat, queued : Nat, void : Nat]
  BY DEF PacerInv, Kept, Rekeyed
<1>5. /\ timer \in Nat \union {NoTimer} /\ draining \in BOOLEAN /\ (draining => timer = NoTimer)
      /\ link \in {"dialing", "up", "cut", "restoring", "down", "gone"}
  BY DEF PacerInv, Timed
<1> QED BY <1>1, <1>2, <1>3, <1>4, <1>5 DEF PacerInv, ClockTypes, SocketsBound, PacerTypeOK

\* Where in a lane, and where on the wire, a REKEY is.
InLane(l) == {n \in DOMAIN lanes[l] : lanes[l][n].stage \in {"rekey", "notice"}}
Sent == {n \in DOMAIN gone : gone[n].stage = "notice"}

LEMMA Counts ==
    ASSUME NEW S
    PROVE  /\ S = {} => Cardinality(S) = 0
           /\ \A x : S = {x} => Cardinality(S) = 1
BY FS_EmptySet, FS_Singleton

LEMMA InvIsSomewhere == ASSUME PacerInv PROVE RekeyIsSomewhere
<1>1. Fill(items, gone, lanes) /\ Items(items) /\ Rekeyed
  BY DEF PacerInv, Kept, Queue
<1>2. \A l \in LaneNames : DOMAIN lanes[l] = 1 .. Len(lanes[l])
  BY <1>1, LenProperties DEF Fill
<1>3. Sent = OnWire
  <2>1. DOMAIN gone = 1 .. Len(gone)
    BY LenProperties DEF PacerInv, Kept, Queue, Went
  <2> QED BY <2>1 DEF Sent, OnWire
<1>4. /\ rekeys.made \in Nat /\ rekeys.queued \in Nat /\ rekeys.void \in Nat
      /\ "high" \in LaneNames /\ "normal" \in LaneNames /\ "low" \in LaneNames
  BY <1>1, LaneNamesAre DEF Rekeyed
<1>5. \A l \in LaneNames : \A n \in InLane(l) : lanes[l][n] \in Bearers
  BY <1>1, <1>2, WaitingIs, FilledEntries DEF InLane, Bearers, Bears
<1>6. PICK h, n, w, s : /\ h = Cardinality(InLane("high")) /\ n = Cardinality(InLane("normal"))
                        /\ w = Cardinality(InLane("low")) /\ s = Cardinality(Sent)
  OBVIOUS
<1>7. rekeys.made = rekeys.queued + rekeys.void + s + h + n + w
  <2>1. CASE Bearers = {}
    <3>1. h = 0 /\ n = 0 /\ w = 0
      BY <1>4, <1>5, <1>6, <2>1, Counts
    <3>2. CASE OnWire = {}
      <4>1. s = 0
        BY <1>3, <1>6, <3>2, Counts
      <4>2. rekeys.queued + rekeys.void = rekeys.made
        BY <1>1, <2>1, <3>2 DEF Rekeyed
      <4> QED BY <1>4, <3>1, <4>1, <4>2
    <3>3. CASE OnWire # {}
      <4>1. PICK m : OnWire = {m}
        BY <1>1, <3>3 DEF Rekeyed
      <4>2. s = 1
        BY <1>3, <1>6, <4>1, Counts
      <4>3. rekeys.made = 1 /\ rekeys.queued = 0 /\ rekeys.void = 0
        BY <1>1, <3>3 DEF Rekeyed
      <4> QED BY <3>1, <4>2, <4>3
    <3> QED BY <3>2, <3>3
  <2>2. CASE Bearers # {}
    <3>1. PICK e : e \in Bearers /\ e \in Entries(lanes) /\ Bears(e)
      BY <2>2, WaitingIs DEF Bearers
    <3>2. PICK l \in LaneNames : \E m \in 1 .. Len(lanes[l]) : e = lanes[l][m]
      BY <1>1, <3>1, FilledEntries
    <3>3. PICK m \in 1 .. Len(lanes[l]) : e = lanes[l][m]
      BY <3>2
    <3>4. ASSUME NEW k \in LaneNames, NEW j \in InLane(k) PROVE k = l /\ j = m
      <4>1. lanes[k][j] = e
        BY <1>1, <1>5, <3>1 DEF Rekeyed
      <4>2. j \in 1 .. Len(lanes[k])
        BY <1>2 DEF InLane
      <4> QED BY <1>1, <3>3, <4>1, <4>2, OnePlace
    <3>5. m \in InLane(l)
      BY <1>2, <3>1, <3>3 DEF InLane, Bears
    <3>6. Cardinality(InLane(l)) = 1
      <4>1. InLane(l) = {m}
        BY <3>4, <3>5
      <4> QED BY <4>1, Counts
    <3>7. \A k \in LaneNames \ {l} : Cardinality(InLane(k)) = 0
      <4>1. \A k \in LaneNames \ {l} : InLane(k) = {}
        BY <3>4
      <4> QED BY <4>1, Counts
    <3>8. /\ h = IF l = "high" THEN 1 ELSE 0
          /\ n = IF l = "normal" THEN 1 ELSE 0
          /\ w = IF l = "low" THEN 1 ELSE 0
      BY <1>4, <1>6, <3>6, <3>7
    <3>9. s = 0 /\ rekeys.made = 1 /\ rekeys.queued = 0 /\ rekeys.void = 0
      <4>1. OnWire = {}
        BY <1>1, <2>2 DEF Rekeyed
      <4> QED BY <1>1, <1>3, <1>6, <2>2, <4>1, Counts DEF Rekeyed
    <3> QED BY <3>2, <3>8, <3>9, LaneNamesAre
  <2> QED BY <2>1, <2>2
<1> QED BY <1>6, <1>7 DEF RekeyIsSomewhere, InLane, Sent

-----------------------------------------------------------------------------

\* Types, and no drain is scheduled while one runs (drain's first line): a second
\* one would send what the first is about to.
THEOREM PacerTypes == PacerSpec => []PacerTypeOK
BY PacerHolds, InvIsTyped, PTL

\* What goes to the socket goes in the order it was written, lane by lane, with a
\* message's parts in the message's place and its REKEY before it, through
\* expansions, evictions, replacements, cancels and reconnects (drain, expand,
\* write, cancel, drop).
THEOREM LinesKeepTheirOrder == PacerSpec => []InOrder
BY PacerHolds, InvIsInOrder, PTL

\* A writer is told at most once whether its line was sent (tellDropped, refuse,
\* drop and expand's catch), whatever was refused before and dropped after.
THEOREM WritersHearOnce == PacerSpec => []HeardOnce
BY PacerHolds, InvIsHeardOnce, PTL

\* A session's REKEY is always in exactly one place: with the E2E manager, in a
\* lane, on the wire or void (e2eRekeyLines and its hooks).
THEOREM NoRekeyIsLost == PacerSpec => []RekeyIsSomewhere
BY PacerHolds, InvIsSomewhere, PTL

\* Whatever could go is being sent or has a timer that fires in time, over every
\* path that drains, holds, resumes or cancels (redrain, schedule, resume).
THEOREM QueueIsNeverLeft == PacerSpec => []QueueIsCarried
BY PacerHolds, InvIsCarried, PTL

=============================================================================
