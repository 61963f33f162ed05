----------------------------- MODULE RideProofs -----------------------------
(***************************************************************************)
(* Theorems about Simulator.tla and Ride.tla, for any graph on a line, any *)
(* speeds and durations, any timer and any threshold.                      *)
(*                                                                         *)
(* Inside the loop of advance the vehicle has left the place it shows and  *)
(* is not shown at the next one yet.  What is true there (Reach) is that   *)
(* the way from the shown place to the place the edge and the offset say,  *)
(* and the budget left, are together within the budget of the call.        *)
(*                                                                         *)
(* The pauses are counted (Counted): every Period of standing still is one *)
(* sample near the anchor, except the seconds before the first sample,     *)
(* which are fewer than a Period.                                          *)
(***************************************************************************)
EXTENDS Ride, TLAPS

-----------------------------------------------------------------------------
(***************************************************************************)
(* Distances.                                                              *)
(***************************************************************************)

\* haversine_m is a metric on the line.
LEMMA DistanceIsMetric ==
  ASSUME NEW p \in Int, NEW q \in Int, NEW r \in Int
  PROVE  /\ Distance(p, q) \in Nat
         /\ Distance(p, p) = 0
         /\ Distance(p, q) = Distance(q, p)
         /\ Distance(p, r) <= Distance(p, q) + Distance(q, r)
BY DEF Distance

\* A sample is near itself.
LEMMA NearItself == \A p \in Int : Near(p, p)
BY EpsIsDistance DEF Near, Distance

\* Along an edge, places are as far from one another as the offsets say, and
\* the end of the edge is the place of its second node.
LEMMA AlongEdge ==
  ASSUME NEW i \in Nodes, NEW j \in Nodes, NEW m \in 0..SegLen(i, j)
  PROVE  /\ SegLen(i, j) \in Nat
         /\ Place(i, j, m) \in Int
         /\ Place(i, j, 0) = At[i]
         /\ Distance(Place(i, j, m), At[j]) = SegLen(i, j) - m
         /\ \A k \in Nat : /\ Place(i, j, m + k) \in Int
                           /\ Distance(Place(i, j, m), Place(i, j, m + k)) = k
<1>1. At[i] \in Int /\ At[j] \in Int
  BY GraphOnLine
<1>2. QED
  BY <1>1 DEF SegLen, Place, Distance

\* pick_next takes an edge of the graph.
LEMMA NextEdge ==
  ASSUME NEW i \in Nodes, NEW j \in Adj[i], NEW k \in PickNext(j, i)
  PROVE  j \in Nodes /\ k \in Adj[j] /\ k \in Nodes
BY GraphOnLine, Undirected DEF PickNext

LEMMA ProductIsNat == \A a, b \in Nat : a * b \in Nat
OBVIOUS

-----------------------------------------------------------------------------
(***************************************************************************)
(* The vehicle.                                                            *)
(***************************************************************************)
LongestDrive == CHOOSE m \in Drives : \A d \in Drives : d <= m
LongestPause == CHOOSE m \in Pauses : \A p \in Pauses : p <= m

LEMMA Longest == /\ LongestDrive \in Nat /\ \A d \in Drives : d \in 1..LongestDrive
                 /\ LongestPause \in Nat /\ \A p \in Pauses : p \in 1..LongestPause
<1>1. LongestDrive \in Drives /\ \A d \in Drives : d <= LongestDrive
  BY LongestTimes DEF LongestDrive
<1>2. LongestPause \in Pauses /\ \A p \in Pauses : p <= LongestPause
  BY LongestTimes DEF LongestPause
<1>3. QED
  BY <1>1, <1>2, Durations

\* The shown place, and how far a call can still get from it.
Reach == /\ at \in Int
         /\ ~Returned => Distance(at, Place(from, to, offset)) + budget <= quota

VehicleInv == TypeOK /\ Reach

LEMMA VehicleInit == Init => VehicleInv
<1> SUFFICES ASSUME Init
             PROVE  VehicleInv
  OBVIOUS
<1>1. from \in Nodes /\ to \in Adj[from] /\ to \in Nodes
  BY GraphOnLine DEF Init
<1>2. SegLen(from, to) \in Nat /\ Place(from, to, 0) = At[from] /\ at \in Int
  BY <1>1, GraphOnLine DEF Init, SegLen, Distance, Place
<1>3. drive \in 1..LongestDrive /\ pause \in 0..LongestPause
  BY Longest DEF Init
<1>4. OnRoad
  BY <1>1, <1>2 DEF Init, OnRoad
<1>5. steps \in 0..MaxSteps /\ quota \in Nat /\ budget = None
  BY StepsPositive DEF Init
<1>6. QED
  BY <1>2, <1>3, <1>4, <1>5 DEF Init, VehicleInv, TypeOK, Reach, Returned, LongestDrive, LongestPause

\* What TypeOK says, with names for the bounds.
LEMMA VehicleFacts ==
  ASSUME VehicleInv
  PROVE  /\ from \in Nodes /\ to \in Nodes /\ to \in Adj[from]
         /\ SegLen(from, to) \in Nat /\ offset \in 0..SegLen(from, to)
         /\ Place(from, to, offset) \in Int
         /\ drive \in 1..LongestDrive /\ pause \in 0..LongestPause
         /\ speed \in Speeds /\ Speeds \subseteq Nat \ {0}
         /\ ~Returned => budget \in Nat
         /\ at \in Int /\ quota \in Nat
<1>1. from \in Nodes /\ to \in Nodes /\ to \in Adj[from] /\ offset \in 0..SegLen(from, to)
  BY GraphOnLine DEF VehicleInv, TypeOK, OnRoad
<1>2. SegLen(from, to) \in Nat /\ Place(from, to, offset) \in Int
  BY <1>1, AlongEdge
<1>3. QED
  BY <1>1, <1>2, Durations DEF VehicleInv, TypeOK, Reach, Returned, LongestDrive, LongestPause

\* A call of advance up to its loop.
LEMMA AdvanceKeeps ==
  ASSUME VehicleInv, NEW dt \in Ticks, Advance(dt)
  PROVE  VehicleInv' /\ at' = at
<1> USE VehicleFacts
<1>0. dt \in Nat /\ dt > 0 /\ Speeds \subseteq Nat \ {0}
  BY Durations
<1>1. CASE Wait(dt)
  <2>1. pause' \in 0..LongestPause
    BY <1>0, <1>1, Longest DEF Wait
  <2>2. QED
    BY <1>1, <2>1 DEF Wait, VehicleInv, TypeOK, Reach, OnRoad, Returned, edge, loop, LongestPause
<1>2. CASE Pause(dt)
  <2>1. pause' \in 0..LongestPause /\ drive' \in 1..LongestDrive
    BY <1>2, Longest DEF Pause
  <2>2. speed' \in Speeds
    BY <1>2 DEF Pause, Restart
  <2>3. QED
    BY <1>2, <2>1, <2>2 DEF Pause, Restart, VehicleInv, TypeOK, Reach, OnRoad, Returned, edge, loop,
                            LongestPause, LongestDrive
<1>3. CASE Depart(dt)
  <2>1. speed' \in Speeds
    BY <1>3 DEF Depart, Restart
  <2>2. pause' \in 0..LongestPause /\ drive' \in 1..LongestDrive
    BY <1>0, <1>3, Longest DEF Depart
  <2>3. budget' \in Nat /\ quota' = budget'
    <3>1. speed' \in Nat /\ dt \in Nat
      BY <1>0, <2>1
    <3>2. budget' = speed' * dt /\ quota' = speed' * dt
      BY <1>3 DEF Depart
    <3>3. speed' * dt \in Nat
      BY <3>1, ProductIsNat
    <3>4. QED
      BY <3>2, <3>3
  <2>4. at = Place(from, to, offset)
    BY <1>3 DEF Depart, Restart, VehicleInv, TypeOK, OnRoad
  <2>5. Distance(at, Place(from, to, offset)) = 0
    BY <2>4, DistanceIsMetric
  <2>6. steps' \in 0..MaxSteps
    BY <1>3, StepsPositive DEF Depart
  <2>7. shown' \in Speeds /\ UNCHANGED <<from, to, offset, at>>
    BY <1>3, <2>1 DEF Depart, edge
  <2>8. ~(budget' = None)
    BY <2>3, NoneIsNoNumber
  <2>9. OnRoad'
    BY <2>7, <2>8 DEF OnRoad, Returned, SegLen, VehicleInv, TypeOK
  <2>10. Reach'
    BY <2>3, <2>5, <2>7 DEF Reach, Returned, Place
  <2>11. TypeOK'
    BY <2>1, <2>2, <2>3, <2>6, <2>7, <2>9 DEF TypeOK, LongestPause, LongestDrive
  <2>12. QED
    BY <2>7, <2>10, <2>11 DEF VehicleInv
<1>4. QED
  BY <1>1, <1>2, <1>3 DEF Advance

\* An iteration of the loop: the edge's rest comes off the budget, and the
\* place where the walk is moves by as much.
LEMMA WalkKeeps ==
  ASSUME VehicleInv, Walk
  PROVE  VehicleInv' /\ ~Returned /\ Distance(at, at') <= quota /\ UNCHANGED pause
<1> USE VehicleFacts
<1>0. ~Returned /\ budget \in Nat /\ Distance(at, Place(from, to, offset)) + budget <= quota
  BY DEF Walk, Cross, Arrive, GiveUp, VehicleInv, Reach
<1>1. CASE Cross
  <2>1. from' \in Nodes /\ to' \in Nodes /\ to' \in Adj'[from']
    BY <1>1, NextEdge DEF Cross
  <2>2. SegLen(from', to') \in Nat /\ Place(from', to', 0) = At[to] /\ At[to] \in Int
    BY <1>1, <2>1, GraphOnLine DEF Cross, SegLen, Distance, Place
  <2>3. Remain \in Nat /\ Distance(Place(from, to, offset), At[to]) = Remain
    BY AlongEdge DEF Remain
  <2>4. budget' \in Nat /\ budget' = budget - Remain /\ quota' = quota
    BY <1>0, <1>1, <2>3 DEF Cross
  <2>5. Distance(at, At[to]) <= Distance(at, Place(from, to, offset)) + Remain
    BY <2>2, <2>3, DistanceIsMetric
  <2>6. Distance(at, Place(from, to, offset)) \in Nat /\ Distance(at, At[to]) \in Nat /\ Distance(at, at) = 0
    BY <2>2, DistanceIsMetric
  <2>7. Distance(at, At[to]) + budget' <= quota'
    BY <1>0, <2>3, <2>4, <2>5, <2>6
  <2>8. speed' \in Speeds /\ steps' \in 0..MaxSteps /\ UNCHANGED <<at, shown, drive, pause>> /\ offset' = 0
    BY <1>1, StepsPositive DEF Cross, clocks, VehicleInv, TypeOK
  <2>9. OnRoad'
    BY <2>1, <2>2, <2>4, <2>8, NoneIsNoNumber DEF OnRoad, Returned, SegLen
  <2>10. Reach'
    BY <2>2, <2>7, <2>8 DEF Reach, Place
  <2>11. TypeOK'
    BY <2>4, <2>8, <2>9 DEF TypeOK, VehicleInv
  <2>12. QED
    BY <1>0, <2>6, <2>8, <2>10, <2>11 DEF VehicleInv
<1>2. CASE Arrive
  <2>1. budget < Remain /\ Remain = SegLen(from, to) - offset
    BY <1>2 DEF Arrive, Remain
  <2>2. offset' \in 0..SegLen(from, to) /\ at' = Place(from, to, offset')
    BY <1>0, <1>2, <2>1 DEF Arrive
  <2>3. at' \in Int /\ Distance(Place(from, to, offset), at') = budget
    BY <1>0, <1>2, AlongEdge DEF Arrive
  <2>4. Distance(at, at') <= quota
    <3>1. Distance(at, at') <= Distance(at, Place(from, to, offset)) + budget
      BY <2>3, DistanceIsMetric
    <3>2. Distance(at, at') \in Nat /\ Distance(at, Place(from, to, offset)) \in Nat
      BY <2>3, DistanceIsMetric
    <3>3. QED
      BY <1>0, <3>1, <3>2
  <2>5. UNCHANGED <<from, to, speed, shown, drive, pause, steps, quota>> /\ budget' = None
    BY <1>2 DEF Arrive, clocks
  <2>6. OnRoad'
    BY <2>2, <2>5 DEF OnRoad, SegLen, Place
  <2>7. TypeOK' /\ Reach'
    BY <2>3, <2>5, <2>6 DEF TypeOK, Reach, Returned, VehicleInv
  <2>8. QED
    BY <1>0, <2>4, <2>5, <2>7 DEF VehicleInv
<1>3. CASE GiveUp
  <2>1. at' = Place(from, to, offset) /\ budget' = None
        /\ UNCHANGED <<from, to, offset, speed, shown, drive, pause, steps, quota>>
    BY <1>3 DEF GiveUp, edge, clocks
  <2>2. Distance(at, at') <= quota
    <3>1. Distance(at, at') \in Nat
      BY <2>1, DistanceIsMetric
    <3>2. QED
      BY <1>0, <2>1, <3>1
  <2>3. OnRoad'
    BY <2>1 DEF OnRoad, SegLen, Place
  <2>4. TypeOK' /\ Reach'
    BY <2>1, <2>3 DEF TypeOK, Reach, Returned, VehicleInv
  <2>5. QED
    BY <1>0, <2>1, <2>2, <2>4 DEF VehicleInv
<1>4. QED
  BY <1>1, <1>2, <1>3 DEF Walk

LEMMA VehicleStep == VehicleInv /\ [Next]_vars => VehicleInv'
<1> SUFFICES ASSUME VehicleInv, [Next]_vars
             PROVE  VehicleInv'
  OBVIOUS
<1>1. CASE Frame
  BY <1>1, AdvanceKeeps DEF Frame
<1>2. CASE Drive
  BY <1>2, WalkKeeps DEF Drive
<1>3. CASE UNCHANGED simvars
  BY <1>3 DEF simvars, edge, clocks, loop, VehicleInv, TypeOK, OnRoad, Reach, Returned, SegLen, Place
<1>4. QED
  BY <1>1, <1>2, <1>3 DEF Next, Sample, vars

\* However many edges a call of advance crosses, and however it ends, it moves
\* the vehicle no further than its speed and time allow.
THEOREM SmallDisplacements == Spec => NoJumps
<1>1. RideInit => VehicleInv
  BY VehicleInit DEF RideInit
<1>2. VehicleInv /\ [Next]_vars => [Distance(at, at') <= IF Returned THEN 0 ELSE quota]_simvars
  <2> SUFFICES ASSUME VehicleInv, [Next]_vars
               PROVE  (Distance(at, at') <= IF Returned THEN 0 ELSE quota) \/ UNCHANGED simvars
    OBVIOUS
  <2>1. CASE Frame
    <3>1. PICK dt \in Ticks : Advance(dt)
      BY <2>1 DEF Frame
    <3>2. at' = at /\ Returned
      BY <3>1, AdvanceKeeps DEF Advance, Wait, Pause, Depart, Restart
    <3>3. QED
      BY <3>2, VehicleFacts, DistanceIsMetric
  <2>2. CASE Drive
    BY <2>2, WalkKeeps DEF Drive
  <2>3. CASE Sample
    BY <2>3 DEF Sample
  <2>4. QED
    BY <2>1, <2>2, <2>3 DEF Next, vars
<1>3. QED
  BY <1>1, <1>2, VehicleStep, PTL DEF Spec, NoJumps

-----------------------------------------------------------------------------
(***************************************************************************)
(* The trip.                                                               *)
(***************************************************************************)
TripTypes == /\ due \in Ticks \cup {None}
             /\ sinceSend \in 0..Period - 1
             /\ anchor \in Int /\ n \in 1..Threshold /\ inserted \in BOOLEAN
             /\ still \in Nat

\* Seconds since the last position, those of the frame in progress included.
Elapsed == IF due = None THEN sinceSend ELSE sinceSend + due

\* Of a pause, all is counted but what came before its first sample; a vehicle
\* that walks does not stand still.
Counted == /\ ~Returned => still = 0 /\ due # None
           /\ ~Near(anchor, at) => still <= Elapsed
           /\ Near(anchor, at) => inserted \/ still <= n * Period + Elapsed

RideInv == VehicleInv /\ TripTypes /\ Counted

LEMMA RideStart == RideInit => RideInv
<1> SUFFICES ASSUME RideInit
             PROVE  RideInv
  OBVIOUS
<1>1. VehicleInv /\ at \in Int /\ Returned
  BY VehicleInit DEF RideInit, Init, VehicleInv, Reach, Returned
<1>2. sinceSend = 0 /\ due = None /\ anchor = at /\ n = 1 /\ inserted = FALSE /\ still = 0
  BY DEF RideInit
<1>3. TripTypes
  <2>1. 0 \in 0..Period - 1 /\ 1 \in 1..Threshold
    BY PeriodPositive, ThresholdPositive
  <2>2. QED
    BY <1>1, <1>2, <2>1 DEF TripTypes
<1>4. Counted
  BY <1>1, <1>2, PeriodPositive DEF Counted, Elapsed
<1>5. QED
  BY <1>1, <1>3, <1>4 DEF RideInv

\* The count goes on by one for a sample near the anchor.
LEMMA JudgeKeeps ==
  ASSUME VehicleInv, TripTypes, due # None, Judge(at)
  PROVE  /\ anchor' \in Int /\ n' \in 1..Threshold /\ inserted' \in BOOLEAN
         /\ Near(anchor', at)
         /\ Near(anchor, at) => inserted' \/ (~inserted /\ n' = n + 1)
         /\ ~Near(anchor, at) => n' = 1
<1>1. at \in Int
  BY VehicleFacts
<1>2. CASE Near(anchor, at)
  <2>1. /\ n' = IF n < Threshold THEN n + 1 ELSE n
        /\ inserted' = (inserted \/ n = Threshold)
        /\ anchor' = anchor
    BY <1>2 DEF Judge
  <2>2. anchor' \in Int /\ n' \in 1..Threshold /\ inserted' \in BOOLEAN
    BY <2>1, ThresholdPositive DEF TripTypes
  <2>3. inserted' \/ (~inserted /\ n' = n + 1)
    <3>1. CASE inserted \/ n = Threshold
      BY <2>1, <3>1
    <3>2. CASE ~(inserted \/ n = Threshold)
      <4>1. n < Threshold
        BY <3>2, ThresholdPositive DEF TripTypes
      <4>2. QED
        BY <2>1, <3>2, <4>1
    <3>3. QED
      BY <3>1, <3>2
  <2>4. QED
    BY <1>2, <2>1, <2>2, <2>3
<1>3. CASE ~Near(anchor, at)
  <2>1. anchor' = at /\ n' = 1 /\ inserted' = FALSE
    BY <1>3 DEF Judge
  <2>2. Near(anchor', at)
    BY <1>1, <2>1, NearItself
  <2>3. n' \in 1..Threshold
    BY <2>1, ThresholdPositive
  <2>4. QED
    BY <1>1, <1>3, <2>1, <2>2, <2>3
<1>4. QED
  BY <1>2, <1>3

LEMMA SumsShift == \A a, p, e \in Nat : a + (e + p) = (a + p) + e
OBVIOUS

LEMMA RideStep == RideInv /\ [Next]_vars => RideInv'
<1> SUFFICES ASSUME RideInv, [Next]_vars
             PROVE  RideInv'
  OBVIOUS
<1>0. VehicleInv /\ VehicleInv' /\ TripTypes /\ Counted
  BY VehicleStep DEF RideInv
<1>0a. None \notin Nat /\ Ticks \subseteq Nat \ {0} /\ Ticks \subseteq 1..Period /\ Period \in Nat \ {0}
  BY NoneIsNoNumber, Durations, TicksFit, PeriodPositive
<1>1. CASE Frame
  <2>1. PICK dt \in Ticks : /\ Advance(dt) /\ due' = dt
                            /\ still' = IF pause > dt THEN still + dt ELSE 0
    BY <1>1 DEF Frame
  <2>2. due = None /\ UNCHANGED <<sinceSend, anchor, n, inserted>>
    BY <1>1 DEF Frame, detector
  <2>3. at' = at
    BY <1>0, <2>1, AdvanceKeeps
  <2>4. dt \in Nat /\ still' \in Nat /\ (still' = 0 \/ still' = still + dt)
    BY <1>0, <1>0a, <2>1 DEF TripTypes
  <2>5. TripTypes'
    BY <1>0, <2>1, <2>2, <2>4 DEF TripTypes
  <2>6. due' # None /\ Elapsed' = Elapsed + dt
    BY <1>0a, <2>1, <2>2, <2>4 DEF Elapsed
  <2>7. ~Returned' => still' = 0
    <3>1. CASE Depart(dt)
      <4>1. ~(pause > dt)
        BY <1>0, <2>4, <3>1, VehicleFacts DEF Depart, Restart
      <4>2. QED
        BY <2>1, <4>1
    <3>2. CASE Wait(dt) \/ Pause(dt)
      BY <3>2 DEF Wait, Pause, Restart, Returned, loop
    <3>3. QED
      BY <2>1, <3>1, <3>2 DEF Advance
  <2>8. Counted'
    <3>1. ~Near(anchor, at) => still' <= Elapsed'
      BY <1>0, <2>2, <2>4, <2>6 DEF Counted, TripTypes, Elapsed
    <3>2. n * Period \in Nat
      BY <1>0, <1>0a, ProductIsNat DEF TripTypes
    <3>3. Near(anchor, at) => inserted \/ still' <= n * Period + Elapsed'
      BY <1>0, <2>2, <2>4, <2>6, <3>2 DEF Counted, TripTypes, Elapsed
    <3>4. QED
      BY <2>2, <2>3, <2>6, <2>7, <3>1, <3>3 DEF Counted
  <2>9. QED
    BY <1>0, <2>5, <2>8 DEF RideInv
<1>2. CASE Drive
  <2>1. still = 0 /\ UNCHANGED <<due, sinceSend, anchor, n, inserted, still>> /\ due # None
    BY <1>0, <1>2, WalkKeeps DEF Drive, detector, Counted
  <2>2. Elapsed' = Elapsed /\ Elapsed \in Nat
    BY <1>0, <1>0a, <2>1 DEF Elapsed, TripTypes
  <2>3. n * Period \in Nat
    BY <1>0, <1>0a, ProductIsNat DEF TripTypes
  <2>4. Counted'
    BY <2>1, <2>2, <2>3 DEF Counted
  <2>5. QED
    BY <1>0, <2>1, <2>4 DEF RideInv, TripTypes
<1>3. CASE Sample
  <2>1. Returned /\ due # None /\ due \in Nat /\ due \in 1..Period /\ due' = None
        /\ UNCHANGED <<at, budget, still>>
    BY <1>0, <1>0a, <1>3 DEF Sample, TripTypes, simvars, loop
  <2>2. CASE /\ sinceSend + due >= Period
             /\ sinceSend' = sinceSend + due - Period
             /\ Judge(at)
    <3>1. sinceSend' \in 0..Period - 1 /\ Elapsed = Elapsed' + Period /\ Elapsed' \in Nat
      BY <1>0, <1>0a, <2>1, <2>2 DEF TripTypes, Elapsed
    <3>2. /\ anchor' \in Int /\ n' \in 1..Threshold /\ inserted' \in BOOLEAN
          /\ Near(anchor', at)
          /\ Near(anchor, at) => inserted' \/ (~inserted /\ n' = n + 1)
          /\ ~Near(anchor, at) => n' = 1
      BY <1>0, <2>1, <2>2, JudgeKeeps
    <3>3. n * Period \in Nat /\ (n + 1) * Period = n * Period + Period /\ 1 * Period = Period
      BY <1>0, <1>0a, ProductIsNat DEF TripTypes
    <3>4. inserted' \/ still <= n' * Period + Elapsed'
      <4>1. CASE Near(anchor, at) /\ ~inserted'
        <5>1. still <= n * Period + Elapsed
          BY <1>0, <3>2, <4>1 DEF Counted, TripTypes, Judge
        <5>2. n' * Period = n * Period + Period
          BY <3>2, <3>3, <4>1
        <5>3. QED
          BY <1>0a, <3>1, <3>3, <5>1, <5>2, SumsShift
      <4>2. CASE ~Near(anchor, at)
        <5>1. still <= Elapsed
          BY <1>0, <4>2 DEF Counted
        <5>2. n' * Period = Period
          BY <3>2, <3>3, <4>2
        <5>3. QED
          BY <1>0a, <3>1, <5>1, <5>2
      <4>3. QED
        BY <4>1, <4>2
    <3>5. Counted'
      BY <2>1, <3>2, <3>4 DEF Counted, Returned
    <3>6. TripTypes'
      BY <1>0, <2>1, <3>1, <3>2 DEF TripTypes
    <3>7. QED
      BY <1>0, <3>5, <3>6 DEF RideInv
  <2>3. CASE /\ sinceSend + due < Period
             /\ sinceSend' = sinceSend + due
             /\ UNCHANGED detector
    <3>1. sinceSend' \in 0..Period - 1 /\ Elapsed' = Elapsed /\ UNCHANGED <<anchor, n, inserted>>
      BY <1>0, <1>0a, <2>1, <2>3 DEF TripTypes, Elapsed, detector
    <3>2. QED
      BY <1>0, <2>1, <3>1 DEF RideInv, TripTypes, Counted, Returned
  <2>4. QED
    BY <1>3, <2>2, <2>3 DEF Sample
<1>4. CASE UNCHANGED vars
  BY <1>0, <1>4 DEF vars, simvars, loop, detector, RideInv, TripTypes, Counted, Elapsed, Returned
<1>5. QED
  BY <1>1, <1>2, <1>3, <1>4 DEF Next

\* The variables of the simulator and the page keep their types, and between
\* two calls of advance the vehicle is on an edge of the graph, at the place
\* the edge and the offset say.
THEOREM RideTypeCorrect == Spec => []RideTypeOK
<1>1. RideInv => RideTypeOK
  BY DEF RideInv, VehicleInv, TripTypes, RideTypeOK
<1>2. QED
  BY <1>1, RideStart, RideStep, PTL DEF Spec

\* A pause as long as Threshold + 1 periods is recognized by the server,
\* wherever it began between two positions, whatever the timer.
THEOREM PausesAreSeen == Spec => []LongPausesSeen
<1>1. RideInv => LongPausesSeen
  <2> SUFFICES ASSUME RideInv, due = None, still >= (Threshold + 1) * Period, ~inserted
               PROVE  FALSE
    BY DEF LongPausesSeen, RideInv, TripTypes
  <2>1. /\ n \in 1..Threshold /\ still \in Nat /\ Elapsed \in 0..Period - 1
        /\ Period \in Nat \ {0} /\ Threshold \in Nat \ {0}
    BY PeriodPositive, ThresholdPositive DEF RideInv, TripTypes, Elapsed
  <2>2. /\ n * Period \in Nat /\ (Threshold - n) * Period \in Nat
        /\ (Threshold + 1) * Period = n * Period + (Threshold - n) * Period + Period
    BY <2>1, ProductIsNat
  <2>3. still <= n * Period + Elapsed
    BY <2>1, <2>2 DEF RideInv, Counted
  <2>4. QED
    BY <2>1, <2>2, <2>3
<1>2. QED
  BY <1>1, RideStart, RideStep, PTL DEF Spec
=============================================================================
