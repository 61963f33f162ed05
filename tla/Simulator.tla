----------------------------- MODULE Simulator ------------------------------
(***************************************************************************)
(* The vehicle of the map page (sim/src/lib.rs): it drives along the edges *)
(* of a street graph and pauses now and then.                              *)
(*                                                                         *)
(* The page calls advance(dt) over and over.  A call starts with the       *)
(* pauses (Wait, Pause, Depart); Depart goes on into the loop over edges,  *)
(* one step an iteration, which ends by Arrive or, after MaxSteps          *)
(* iterations, by GiveUp.  The random generator is a choice.  Meters and   *)
(* seconds are whole numbers, and At puts the nodes on a line.             *)
(***************************************************************************)
EXTENDS Metric

CONSTANTS Nodes,
          At,        \* nodes[i]: the place of each node
          Adj,       \* adj[i]: its neighbours
          Speeds,    \* SPEED_MIN_KMH..SPEED_MAX_KMH, in m/s
          Drives,    \* DRIVE_MIN_SECS..DRIVE_MAX_SECS
          Pauses,    \* PAUSE_MIN_SECS..PAUSE_MAX_SECS
          Ticks,     \* the dt_secs of a call
          MaxSteps,  \* MAX_STEPS
          None

\* tools/export_turin_graph.py:80-90 adds both directions of an edge and
\* none from a node to itself.
ASSUME Undirected == \A i, j \in Nodes : j \in Adj[i] => i \in Adj[j] /\ i # j
ASSUME GraphOnLine == At \in [Nodes -> Int] /\ Adj \in [Nodes -> SUBSET Nodes]
ASSUME Durations == Speeds \cup Drives \cup Pauses \cup Ticks \subseteq Nat \ {0}
ASSUME StepsPositive == MaxSteps \in Nat \ {0}
\* DRIVE_MAX_SECS and PAUSE_MAX_SECS are among them.
ASSUME LongestTimes == /\ \E m \in Drives : \A d \in Drives : d <= m
                       /\ \E m \in Pauses : \A p \in Pauses : p <= m
ASSUME NoneIsNoNumber == None \notin Nat

VARIABLES from, to,     \* the edge the vehicle is on
          offset,       \* meters from `from`
          at,           \* lat, lon
          speed,        \* speed_mps
          shown,        \* last_speed_kmh, 0 when stationary
          drive, pause, \* seconds left before the next pause, and of a pause
          budget,       \* meters a call has left, None outside the loop
          steps,        \* iterations of the loop
          quota         \* what the budget of the last call was (history)

edge == <<from, to, offset>>
clocks == <<drive, pause>>
loop == <<budget, steps>>
simvars == <<edge, at, speed, shown, clocks, loop, quota>>

SegLen(i, j) == Distance(At[i], At[j])

\* update_position: as far along the edge as offset_m says.
Place(i, j, m) == IF At[i] < At[j] THEN At[i] + m ELSE At[i] - m

Returned == budget = None

\* Between two calls the vehicle is on an edge of the graph, at the place the
\* edge and the offset say, however the call before it ended.
OnRoad == /\ from \in Nodes
          /\ to \in Adj[from]
          /\ offset \in 0..SegLen(from, to)
          /\ Returned => at = Place(from, to, offset)

TypeOK == /\ OnRoad
          /\ speed \in Speeds
          /\ shown \in Speeds \cup {0}
          /\ drive \in 1..CHOOSE m \in Drives : \A d \in Drives : d <= m
          /\ pause \in 0..CHOOSE m \in Pauses : \A p \in Pauses : p <= m
          /\ budget \in Nat \cup {None}
          /\ steps \in 0..MaxSteps
          /\ quota \in Nat

\* build: any node with a neighbour, any of its edges.
Init == /\ from \in {i \in Nodes : Adj[i] # {}}
        /\ to \in Adj[from]
        /\ offset = 0
        /\ at = At[from]
        /\ speed \in Speeds
        /\ shown = 0
        /\ drive \in Drives
        /\ pause = 0
        /\ budget = None /\ steps = 0 /\ quota = 0

-----------------------------------------------------------------------------
(***************************************************************************)
(* advance, up to the loop.                                                *)
(***************************************************************************)

\* A pause goes on.
Wait(dt) == /\ Returned
            /\ pause > dt
            /\ pause' = pause - dt
            /\ shown' = 0
            /\ UNCHANGED <<edge, at, speed, drive, loop, quota>>

\* The pause is over, if there was one, and the vehicle restarts with a new
\* speed.
Restart(dt) == /\ Returned
               /\ pause <= dt
               /\ speed' \in IF pause > 0 THEN Speeds ELSE {speed}

\* Time to pause, wherever the vehicle is.
Pause(dt) == /\ Restart(dt)
             /\ drive <= dt
             /\ pause' \in Pauses
             /\ drive' \in Drives
             /\ shown' = 0
             /\ UNCHANGED <<edge, at, loop, quota>>

Depart(dt) == /\ Restart(dt)
              /\ drive > dt
              /\ drive' = drive - dt
              /\ pause' = 0
              /\ shown' = speed'
              /\ budget' = speed' * dt
              /\ quota' = speed' * dt
              /\ steps' = 0
              /\ UNCHANGED <<edge, at>>

Advance(dt) == Wait(dt) \/ Pause(dt) \/ Depart(dt)

(***************************************************************************)
(* advance, the loop.                                                      *)
(***************************************************************************)

\* pick_next: back only where there is no other way.
PickNext(i, avoid) == IF Adj[i] \subseteq {avoid} THEN {avoid} ELSE Adj[i] \ {avoid}

IsIntersection(i) == ~\E j, k \in Adj[i] : j # k /\ Adj[i] = {j, k}

Remain == SegLen(from, to) - offset

\* Mutant: what is left of the edge is not taken off the budget.
CrossFree == /\ ~Returned
             /\ steps < MaxSteps
             /\ budget >= Remain
             /\ from' = to
             /\ to' \in PickNext(to, from)
             /\ offset' = 0
             /\ speed' \in IF IsIntersection(to) THEN Speeds ELSE {speed}
             /\ steps' = steps + 1
             /\ UNCHANGED <<at, shown, clocks, budget, quota>>

\* The end of the edge is reached, and the next one is taken.
Cross == /\ ~Returned
         /\ steps < MaxSteps
         /\ budget >= Remain
         /\ budget' = budget - Remain
         /\ from' = to
         /\ to' \in PickNext(to, from)
         /\ offset' = 0
         /\ speed' \in IF IsIntersection(to) THEN Speeds ELSE {speed}
         /\ steps' = steps + 1
         /\ UNCHANGED <<at, shown, clocks, quota>>

\* The budget ends on this edge.
Arrive == /\ ~Returned
          /\ steps < MaxSteps
          /\ budget < Remain
          /\ offset' = offset + budget
          /\ at' = Place(from, to, offset + budget)
          /\ budget' = None
          /\ UNCHANGED <<from, to, speed, shown, clocks, steps, quota>>

\* Mutant: the loop has no end of its own.
GoOn == /\ ~Returned
        /\ steps = MaxSteps
        /\ steps' = 0
        /\ UNCHANGED <<edge, at, speed, shown, clocks, budget, quota>>

\* Mutant: a return, where the code leaves the loop.
GiveUpAtOnce == /\ ~Returned
                /\ steps = MaxSteps
                /\ budget' = None
                /\ UNCHANGED <<edge, at, speed, shown, clocks, steps, quota>>

\* MAX_STEPS iterations: the rest of the budget is dropped.
GiveUp == /\ ~Returned
          /\ steps = MaxSteps
          /\ at' = Place(from, to, offset)
          /\ budget' = None
          /\ UNCHANGED <<edge, speed, shown, clocks, steps, quota>>

Walk == Cross \/ Arrive \/ GiveUp

-----------------------------------------------------------------------------
(***************************************************************************)
(* Properties.                                                             *)
(***************************************************************************)

\* "Small steps => small displacements (no "jumps")" (sim/src/lib.rs:366):
\* however many edges a call crosses, it moves the vehicle no further than
\* its speed and time allow, and a call that pauses does not move it.
NoJumps == [][Distance(at, at') <= IF Returned THEN 0 ELSE quota]_simvars

\* Every call returns, also on edges without length (MAX_STEPS: "defense
\* against cycles of ~0-length edges", sim/src/lib.rs:34), and the vehicle
\* neither pauses nor drives for ever.
DrivesAndPauses == []<>(Returned /\ pause > 0) /\ []<>(Returned /\ shown > 0)
=============================================================================
