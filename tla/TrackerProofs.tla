--------------------------- MODULE TrackerProofs ----------------------------
(***************************************************************************)
(* Theorems about Tracker.tla, for any trips, places, times and threshold. *)
(*                                                                         *)
(* Two things have to be related: an entry of last_coordinates, which      *)
(* keeps three values of all the samples of a trip, and the rows, of which *)
(* a pause leaves out most.  Anchored says what an entry means: it names   *)
(* the sample the trip has been near ever since, and the count and the     *)
(* flag say how many came after it.  Covered says what is not recorded:    *)
(* samples of a pause, behind the row that marks it.                       *)
(***************************************************************************)
EXTENDS Tracker, SequenceTheorems, TLAPS

-----------------------------------------------------------------------------
(***************************************************************************)
(* Distances and samples.                                                  *)
(***************************************************************************)
LEMMA DistanceIsMetric ==
  ASSUME NEW p \in Int, NEW q \in Int, NEW r \in Int
  PROVE  /\ Distance(p, q) \in Nat
         /\ Distance(p, p) = 0
         /\ Distance(p, q) = Distance(q, p)
         /\ Distance(p, r) <= Distance(p, q) + Distance(q, r)
BY DEF Distance

LEMMA NearIsSymmetric ==
  ASSUME NEW p \in Int, NEW q \in Int
  PROVE  /\ Near(p, p)
         /\ Near(p, q) <=> Near(q, p)
BY EpsIsDistance DEF Near, Distance

\* Two places near a third.
LEMMA NearTwice ==
  ASSUME NEW p \in Int, NEW q \in Int, NEW r \in Int, Near(p, q), Near(q, r)
  PROVE  Distance(p, r) <= 2 * Eps
BY EpsIsDistance DEF Near, Distance

Samples == [ts : Nat, at : Places]

LEMMA Added ==
  ASSUME NEW s \in Seq(Samples), NEW m \in Samples
  PROVE  /\ Append(s, m) \in Seq(Samples)
         /\ Len(s) \in Nat /\ Len(Append(s, m)) = Len(s) + 1
         /\ DOMAIN Append(s, m) = 1..Len(s) + 1 /\ DOMAIN s = 1..Len(s)
         /\ Append(s, m)[Len(s) + 1] = m
         /\ \A k \in 1..Len(s) : Append(s, m)[k] = s[k]
<1>1. /\ Append(s, m) \in Seq(Samples) /\ Len(Append(s, m)) = Len(s) + 1
      /\ Append(s, m)[Len(s) + 1] = m
      /\ \A k \in 1..Len(s) : Append(s, m)[k] = s[k]
  BY AppendProperties
<1>2. QED
  BY <1>1, LenProperties

-----------------------------------------------------------------------------
(***************************************************************************)
(* Types.                                                                  *)
(***************************************************************************)

\* What the steps make.
LEMMA Made ==
  /\ \A p \in Places : NewEntry(p) \in Entry
  /\ \A e \in Entry : \A m \in 1..Threshold : [e EXCEPT !.n = m] \in Entry
  /\ \A e \in Entry : [e EXCEPT !.inserted = TRUE] \in Entry
  /\ \A i \in Trips, p \in Places, t \in Nat, b \in BOOLEAN :
       [trip |-> i, ts |-> t, at |-> p, stopped |-> b] \in Row
  /\ \A r \in Row, s \in {"stationary", "moving", None} : [row |-> r, status |-> s] \in Decision
  /\ \A t \in Nat, p \in Places : [ts |-> t, at |-> p] \in Samples
  /\ None \notin Entry /\ None \notin Decision
<1>1. \A p \in Places : NewEntry(p) \in Entry
  BY ThresholdPositive DEF NewEntry, Entry
<1>2. /\ \A e \in Entry : \A m \in 1..Threshold : [e EXCEPT !.n = m] \in Entry
      /\ \A e \in Entry : [e EXCEPT !.inserted = TRUE] \in Entry
  BY DEF Entry
<1>3. /\ \A i \in Trips, p \in Places, t \in Nat, b \in BOOLEAN :
           [trip |-> i, ts |-> t, at |-> p, stopped |-> b] \in Row
      /\ \A t \in Nat, p \in Places : [ts |-> t, at |-> p] \in Samples
  BY DEF Row, Samples
<1>4. \A r \in Row, s \in {"stationary", "moving", None} : [row |-> r, status |-> s] \in Decision
  BY DEF Decision
<1>5. QED
  BY <1>1, <1>2, <1>3, <1>4, NoneIsNothing

LEMMA TypeInit == Init => TypeOK
BY DEF Init, TypeOK

\* A sample that arrives.
LEMMA HearKeeps ==
  ASSUME TypeOK, NEW i \in Trips, NEW p \in Places, NEW d \in Steps, Hear(i, p, d)
  PROVE  /\ pending = None
         /\ clock' = clock + d /\ clock' \in Nat
         /\ [ts |-> clock + d, at |-> p] \in Samples
         /\ heard' \in [Trips -> Seq(Samples)]
         /\ heard'[i] = Append(heard[i], [ts |-> clock + d, at |-> p])
         /\ \A j \in Trips \ {i} : heard'[j] = heard[j]
<1>0. clock' = clock + d
  BY DEF Hear
<1>0a. clock \in Nat /\ heard \in [Trips -> Seq(Samples)]
  BY DEF TypeOK, Samples
<1>0b. d \in Nat
  BY TimeGoesOn
<1>1. clock' \in Nat /\ heard \in [Trips -> Seq(Samples)]
  BY <1>0, <1>0a, <1>0b
<1>2. [ts |-> clock + d, at |-> p] \in Samples
  BY <1>0, <1>1, Made
<1>3. Append(heard[i], [ts |-> clock + d, at |-> p]) \in Seq(Samples)
  BY <1>1, <1>2, Added
<1>4. heard' = [heard EXCEPT ![i] = Append(heard[i], [ts |-> clock + d, at |-> p])]
  BY DEF Hear
<1>5. QED
  BY <1>0, <1>0a, <1>1, <1>2, <1>3, <1>4 DEF Hear

\* What update_trip makes of it.
LEMMA JudgeKeeps ==
  ASSUME TypeOK, NEW i \in Trips, NEW p \in Places, NEW d \in Steps, coord[i] # None, clock + d \in Nat,
         Still(i, p, d) \/ Stop(i, p, d) \/ Skip(i, p, d) \/ Move(i, p, d)
  PROVE  /\ coord' \in [Trips -> Entry \cup {None}]
         /\ \A j \in Trips \ {i} : coord'[j] = coord[j]
         /\ coord'[i] \in Entry
         /\ pending' = pending \/ pending' \in Decision
<1>0. coord \in [Trips -> Entry \cup {None}] /\ coord[i] \in Entry
  BY DEF TypeOK
<1>1. CASE Still(i, p, d)
  <2>1. coord[i].n \in 1..Threshold /\ coord[i].n + 1 \in 1..Threshold
    BY <1>0, <1>1, ThresholdPositive DEF Still, Long, Entry
  <2>2. coord' = [coord EXCEPT ![i] = [coord[i] EXCEPT !.n = coord[i].n + 1]]
    BY <1>1 DEF Still
  <2>3. pending' \in Decision
    BY <1>1, Made DEF Still, Decide
  <2>4. QED
    BY <1>0, <2>1, <2>2, <2>3, Made
<1>2. CASE Stop(i, p, d)
  <2>1. coord' = [coord EXCEPT ![i] = [coord[i] EXCEPT !.inserted = TRUE]]
    BY <1>2 DEF Stop
  <2>2. pending' \in Decision
    BY <1>2, Made DEF Stop, Decide
  <2>3. QED
    BY <1>0, <2>1, <2>2, Made
<1>3. CASE Skip(i, p, d)
  BY <1>0, <1>3 DEF Skip
<1>4. CASE Move(i, p, d)
  <2>1. pending' \in Decision
    BY <1>4, Made DEF Move, Decide
  <2>2. QED
    BY <1>0, <1>4, <2>1, Made DEF Move
<1>5. QED
  BY <1>1, <1>2, <1>3, <1>4

LEMMA TypeStep == TypeOK /\ [Next]_vars => TypeOK'
<1> SUFFICES ASSUME TypeOK, [Next]_vars
             PROVE  TypeOK'
  OBVIOUS
<1>1. ASSUME NEW i \in Trips, NEW p \in Places, NEW d \in Steps, Start(i, p, d)
      PROVE  TypeOK'
  <2>1. /\ rows' = rows \cup {[trip |-> i, ts |-> clock + d, at |-> p, stopped |-> FALSE]}
        /\ coord' = [coord EXCEPT ![i] = NewEntry(p)]
        /\ shown' = "stationary" /\ UNCHANGED pending /\ Hear(i, p, d)
    BY <1>1 DEF Start
  <2>2. clock + d \in Nat /\ clock' \in Nat /\ heard' \in [Trips -> Seq(Samples)]
    BY <2>1, HearKeeps
  <2>3. rows' \subseteq Row
    BY <2>1, <2>2, Made DEF TypeOK
  <2>4. coord' \in [Trips -> Entry \cup {None}]
    BY <2>1, Made DEF TypeOK
  <2>5. QED
    BY <2>1, <2>2, <2>3, <2>4 DEF TypeOK, Samples
<1>2. ASSUME NEW i \in Trips, NEW p \in Places, NEW d \in Steps, Sample(i, p, d)
      PROVE  TypeOK'
  <2>1. /\ clock + d \in Nat /\ clock' \in Nat /\ heard' \in [Trips -> Seq(Samples)]
        /\ pending = None /\ UNCHANGED <<rows, shown>>
    BY <1>2, HearKeeps DEF Sample
  <2>2. coord' \in [Trips -> Entry \cup {None}] /\ (pending' = None \/ pending' \in Decision)
    BY <1>2, <2>1, JudgeKeeps DEF Sample
  <2>3. QED
    BY <2>1, <2>2 DEF TypeOK, Samples
<1>3. CASE Write
  <2>1. pending.row \in Row /\ pending.status \in {"stationary", "moving", None}
    BY <1>3 DEF Write, TypeOK, Decision
  <2>2. rows' \subseteq Row /\ shown' \in {"stationary", "moving"}
    BY <1>3, <2>1 DEF Write, TypeOK
  <2>3. QED
    BY <1>3, <2>2 DEF Write, TypeOK
<1>4. CASE WriteFails \/ UNCHANGED vars
  BY <1>4 DEF WriteFails, TypeOK, vars
<1>5. QED
  BY <1>1, <1>2, <1>3, <1>4 DEF Next

\* The detector's entries, the rows and what is decided keep their types: a
\* count never passes the threshold, and no row is written for a trip that is
\* not there.
THEOREM TrackerTypeCorrect == Spec => []TypeOK
BY TypeInit, TypeStep, PTL DEF Spec

-----------------------------------------------------------------------------
(***************************************************************************)
(* What an entry means.                                                    *)
(***************************************************************************)

\* The entry of trip i is that of its a-th sample: all later ones were near
\* it, it was not where the one before it was, and n or the flag say how many
\* there are.
AnchorAt(i, a) == LET track == heard[i]
                      entry == coord[i]
                  IN  /\ track[a].at = entry.at
                      /\ \A k \in a..Len(track) : Near(track[k].at, entry.at)
                      /\ a = 1 \/ track[a - 1].at # entry.at
                      /\ IF entry.inserted THEN Len(track) - a >= Threshold
                                           ELSE Len(track) - a + 1 = entry.n

Anchored == \A i \in Trips :
  IF coord[i] = None THEN heard[i] = <<>> ELSE \E a \in DOMAIN heard[i] : AnchorAt(i, a)

\* The first sample of a trip is its anchor.
LEMMA StartAnchors ==
  ASSUME TypeOK, NEW i \in Trips, NEW p \in Places, NEW d \in Steps, Start(i, p, d), heard[i] = <<>>
  PROVE  1 \in DOMAIN heard'[i] /\ AnchorAt(i, 1)' /\ coord'[i] = NewEntry(p)
<1>1. /\ clock + d \in Nat
      /\ [ts |-> clock + d, at |-> p] \in Samples
      /\ heard'[i] = Append(heard[i], [ts |-> clock + d, at |-> p])
  BY HearKeeps DEF Start
<1>2. coord'[i] = NewEntry(p)
  BY DEF Start, TypeOK
<1>3. heard[i] \in Seq(Samples)
  BY DEF TypeOK, Samples
<1>4. Len(heard[i]) = 0
  BY <1>3, EmptySeq
<1>5. /\ Len(heard'[i]) = 1 /\ DOMAIN heard'[i] = 1..1
      /\ heard'[i][1] = [ts |-> clock + d, at |-> p]
  BY <1>1, <1>3, <1>4, Added
<1>6. heard'[i][1].at = p /\ p \in Int
  BY <1>5, PlacesOnLine
<1>7. coord'[i].at = p /\ coord'[i].n = 1 /\ coord'[i].inserted = FALSE
  BY <1>2 DEF NewEntry
<1>8. QED
  BY <1>2, <1>5, <1>6, <1>7, NearIsSymmetric DEF AnchorAt

\* A sample near the anchor leaves it, any other takes its place.
LEMMA SampleAnchors ==
  ASSUME TypeOK, NEW i \in Trips, NEW p \in Places, NEW d \in Steps, Sample(i, p, d),
         NEW a \in DOMAIN heard[i], AnchorAt(i, a)
  PROVE  \/ /\ Still(i, p, d) \/ Stop(i, p, d) \/ Skip(i, p, d)
            /\ a \in DOMAIN heard'[i] /\ AnchorAt(i, a)'
         \/ /\ Move(i, p, d)
            /\ \E b \in DOMAIN heard'[i] : b # 1 /\ AnchorAt(i, b)'
<1> DEFINE track == heard[i]
           m == [ts |-> clock + d, at |-> p]
           last == Len(track)
<1>1. m \in Samples /\ heard'[i] = Append(track, m)
  BY HearKeeps DEF Sample
<1>2. track \in Seq(Samples) /\ coord[i] \in Entry /\ coord \in [Trips -> Entry \cup {None}]
  BY DEF TypeOK, Sample, Samples
<1>3. /\ last \in Nat /\ Len(heard'[i]) = last + 1
      /\ DOMAIN heard'[i] = 1..last + 1 /\ DOMAIN track = 1..last
      /\ heard'[i][last + 1] = m
      /\ \A k \in 1..last : heard'[i][k] = track[k]
  BY <1>1, <1>2, Added
<1>4. a \in 1..last /\ m.at = p /\ p \in Int /\ coord[i].at \in Int /\ coord[i].n \in 1..Threshold
      /\ coord[i].inserted \in BOOLEAN /\ \A k \in 1..last : track[k].at \in Int
  <2>1. a \in 1..last
    BY <1>3
  <2>2. coord[i].at \in Places /\ coord[i].n \in 1..Threshold /\ coord[i].inserted \in BOOLEAN
    BY <1>2 DEF Entry
  <2>3. \A k \in 1..last : track[k] \in Samples
    BY <1>2, <1>3
  <2>4. \A h \in Samples : h.at \in Places
    BY DEF Samples
  <2>5. QED
    BY <2>1, <2>2, <2>3, <2>4, PlacesOnLine
<1>5. CASE Still(i, p, d) \/ Stop(i, p, d) \/ Skip(i, p, d)
  <2>1. coord'[i].at = coord[i].at /\ Near(p, coord[i].at)
    <3>1. Near(coord[i].at, p)
      BY <1>5 DEF Still, Stop, Skip
    <3>2. coord'[i] \in {coord[i], [coord[i] EXCEPT !.n = @ + 1], [coord[i] EXCEPT !.inserted = TRUE]}
      BY <1>2, <1>5 DEF Still, Stop, Skip
    <3>3. coord'[i].at = coord[i].at
      BY <1>2, <3>2 DEF Entry
    <3>4. QED
      BY <1>4, <3>1, <3>3, NearIsSymmetric
  <2>2. heard'[i][a].at = coord'[i].at
    BY <1>3, <1>4, <2>1 DEF AnchorAt
  <2>3. \A k \in a..last + 1 : Near(heard'[i][k].at, coord'[i].at)
    <3>1. ASSUME NEW k \in a..last + 1
          PROVE  Near(heard'[i][k].at, coord'[i].at)
      <4>1. CASE k = last + 1
        BY <1>3, <1>4, <2>1, <4>1
      <4>2. CASE k \in a..last
        <5>1. k \in 1..last /\ Near(track[k].at, coord[i].at)
          BY <1>3, <1>4, <4>2 DEF AnchorAt
        <5>2. QED
          BY <1>3, <2>1, <5>1
      <4>3. QED
        BY <1>3, <1>4, <3>1, <4>1, <4>2
    <3>2. QED
      BY <3>1
  <2>4. a = 1 \/ heard'[i][a - 1].at # coord'[i].at
    <3>1. a = 1 \/ track[a - 1].at # coord[i].at
      BY DEF AnchorAt
    <3>2. a # 1 => a - 1 \in 1..last
      BY <1>3, <1>4
    <3>3. QED
      BY <1>3, <2>1, <3>1, <3>2
  <2>5. IF coord'[i].inserted THEN last + 1 - a >= Threshold ELSE last + 1 - a + 1 = coord'[i].n
    <3>1. IF coord[i].inserted THEN last - a >= Threshold ELSE last - a + 1 = coord[i].n
      BY DEF AnchorAt
    <3>2. CASE Still(i, p, d)
      <4>1. coord'[i].inserted = coord[i].inserted /\ coord'[i].n = coord[i].n + 1
        BY <1>2, <3>2 DEF Still, Entry
      <4>2. QED
        BY <1>3, <1>4, <3>1, <4>1, ThresholdPositive
    <3>3. CASE Stop(i, p, d)
      <4>1. coord'[i].inserted = TRUE /\ coord[i].n >= Threshold /\ ~coord[i].inserted
        BY <1>2, <3>3 DEF Stop, Long, Entry
      <4>2. QED
        BY <1>3, <1>4, <3>1, <4>1, ThresholdPositive
    <3>4. CASE Skip(i, p, d)
      <4>1. coord'[i] = coord[i] /\ coord[i].inserted
        BY <1>2, <3>4 DEF Skip
      <4>2. QED
        BY <1>3, <1>4, <3>1, <4>1, ThresholdPositive
    <3>5. QED
      BY <1>5, <3>2, <3>3, <3>4
  <2>6. a \in DOMAIN heard'[i]
    BY <1>3, <1>4
  <2>7. AnchorAt(i, a)'
    BY <1>3, <2>2, <2>3, <2>4, <2>5 DEF AnchorAt
  <2>8. QED
    BY <1>5, <2>6, <2>7
<1>6. CASE Move(i, p, d)
  <2>1. ~Near(coord[i].at, p) /\ coord'[i] = NewEntry(p)
    BY <1>2, <1>6 DEF Move
  <2>2. coord'[i].at = p /\ coord'[i].n = 1 /\ coord'[i].inserted = FALSE
    BY <2>1 DEF NewEntry
  <2>3. last + 1 \in DOMAIN heard'[i] /\ last + 1 # 1 /\ last \in 1..last
    BY <1>3, <1>4
  <2>4. heard'[i][last + 1].at = p /\ Near(p, p)
    BY <1>3, <1>4, NearIsSymmetric
  <2>5. Near(track[last].at, coord[i].at)
    BY <1>4, <2>3 DEF AnchorAt
  <2>6. heard'[i][last].at # p
    BY <1>3, <1>4, <2>1, <2>3, <2>5, NearIsSymmetric
  <2>7. \A k \in last + 1..last + 1 : Near(heard'[i][k].at, p)
    BY <1>3, <2>4
  <2>8. last + 1 - 1 = last /\ last + 1 - (last + 1) + 1 = 1
    BY <1>3
  <2>9. PICK b \in Nat : b = last + 1
    BY <1>3
  <2>10. b \in DOMAIN heard'[i] /\ b # 1 /\ AnchorAt(i, b)'
    <3>1. heard'[i][b].at = coord'[i].at /\ heard'[i][b - 1].at # coord'[i].at
      BY <2>2, <2>4, <2>6, <2>8, <2>9
    <3>2. \A k \in b..Len(heard'[i]) : Near(heard'[i][k].at, coord'[i].at)
      BY <1>3, <2>2, <2>7, <2>9
    <3>3. ~coord'[i].inserted /\ Len(heard'[i]) - b + 1 = coord'[i].n
      BY <1>3, <2>2, <2>8, <2>9
    <3>4. QED
      BY <2>3, <2>9, <3>1, <3>2, <3>3 DEF AnchorAt
  <2>11. QED
    BY <1>6, <2>10
<1>7. QED
  BY <1>5, <1>6 DEF Sample

\* A trip of which nothing is heard.
LEMMA AnchorStays ==
  ASSUME NEW i \in Trips, NEW a, AnchorAt(i, a), heard'[i] = heard[i], coord'[i] = coord[i]
  PROVE  AnchorAt(i, a)'
BY DEF AnchorAt

LEMMA AnchoredStep == TypeOK /\ Anchored /\ [Next]_vars => Anchored'
<1> SUFFICES ASSUME TypeOK, Anchored, [Next]_vars
             PROVE  Anchored'
  OBVIOUS
<1> DEFINE Here(j) == IF coord[j] = None THEN heard[j] = <<>> ELSE \E a \in DOMAIN heard[j] : AnchorAt(j, a)
<1>0. \A j \in Trips : Here(j)
  BY DEF Anchored
<1>1. ASSUME NEW j \in Trips, heard'[j] = heard[j], coord'[j] = coord[j]
      PROVE  Here(j)'
  BY <1>0, <1>1, AnchorStays
<1>2. ASSUME NEW i \in Trips, NEW p \in Places, NEW d \in Steps, Start(i, p, d)
      PROVE  Anchored'
  <2>1. heard[i] = <<>> /\ Hear(i, p, d)
    BY <1>0, <1>2 DEF Start
  <2>2. Here(i)'
    <3>1. 1 \in DOMAIN heard'[i] /\ AnchorAt(i, 1)' /\ coord'[i] = NewEntry(p)
      BY <1>2, <2>1, StartAnchors
    <3>2. coord'[i] # None
      BY <3>1, Made
    <3>3. QED
      BY <3>1, <3>2
  <2>3. \A j \in Trips \ {i} : heard'[j] = heard[j] /\ coord'[j] = coord[j]
    BY <1>2, <2>1, HearKeeps DEF Start, TypeOK
  <2>4. QED
    BY <1>1, <2>2, <2>3 DEF Anchored
<1>3. ASSUME NEW i \in Trips, NEW p \in Places, NEW d \in Steps, Sample(i, p, d)
      PROVE  Anchored'
  <2>1. coord[i] # None /\ Hear(i, p, d)
    BY <1>3 DEF Sample
  <2>2. PICK a \in DOMAIN heard[i] : AnchorAt(i, a)
    BY <1>0, <2>1
  <2>3. \E b \in DOMAIN heard'[i] : AnchorAt(i, b)'
    BY <1>3, <2>2, SampleAnchors
  <2>4. clock + d \in Nat
    BY <2>1, HearKeeps
  <2>5. coord'[i] \in Entry /\ \A j \in Trips \ {i} : coord'[j] = coord[j]
    BY <1>3, <2>1, <2>4, JudgeKeeps DEF Sample
  <2>6. Here(i)'
    BY <2>3, <2>5, Made
  <2>7. \A j \in Trips \ {i} : heard'[j] = heard[j]
    BY <2>1, HearKeeps
  <2>8. QED
    BY <1>1, <2>5, <2>6, <2>7 DEF Anchored
<1>4. CASE Write \/ WriteFails \/ UNCHANGED vars
  <2>1. UNCHANGED <<coord, heard>>
    BY <1>4 DEF Write, WriteFails, vars
  <2>2. QED
    BY <1>1, <2>1 DEF Anchored
<1>5. QED
  BY <1>2, <1>3, <1>4 DEF Next

LEMMA AnchoredInit == Init => Anchored
BY DEF Init, Anchored

\* What last_coordinates keeps of a trip's samples is right whatever becomes of
\* its rows: the entry is at a sample that all later ones were near and that
\* was not at the place of the one before it, and the flag is set only if
\* Threshold samples have come after that one.
THEOREM EntriesAreAnchored == Spec => []Anchored
BY TypeInit, TypeStep, AnchoredInit, AnchoredStep, PTL DEF Spec

-----------------------------------------------------------------------------
(***************************************************************************)
(* What is recorded.                                                       *)
(***************************************************************************)

\* Inserts do not fail, and a client's timestamps go up.
Undisturbed == "db" \notin Faults /\ 0 \notin Steps

\* The rows, and the one that is about to be.
Recorded == rows \cup IF pending = None THEN {} ELSE {pending.row}

\* Everything has happened by now, and a row about to be inserted is the
\* newest: its key is free.
Times == /\ \A r \in Recorded : r.ts <= clock
         /\ pending # None => pending.row.ts = clock /\ \A r \in rows : r.ts < clock
         /\ \A i \in Trips : \A k \in DOMAIN heard[i] : heard[i][k].ts <= clock
         /\ \A r, s \in rows : r.trip = s.trip /\ r.ts = s.ts => r = s

LEMMA RecordedRows == TypeOK => Recorded \subseteq Row
BY DEF TypeOK, Recorded, Decision

\* A first sample is recorded at once.
LEMMA StartRecords ==
  ASSUME TypeOK, NEW i \in Trips, NEW p \in Places, NEW d \in Steps, Start(i, p, d)
  PROVE  \E r \in Row : /\ r.trip = i /\ r.ts = clock' /\ r.at = p /\ ~r.stopped
                        /\ rows' = rows \cup {r} /\ Recorded' = Recorded \cup {r}
                        /\ pending = None /\ pending' = None
<1>1. pending = None /\ pending' = None /\ clock' = clock + d /\ clock' \in Nat
  BY HearKeeps DEF Start
<1>2. rows' = rows \cup {[trip |-> i, ts |-> clock + d, at |-> p, stopped |-> FALSE]}
  BY DEF Start
<1>3. [trip |-> i, ts |-> clock + d, at |-> p, stopped |-> FALSE] \in Row
  BY <1>1, Made
<1>4. Recorded' = Recorded \cup {[trip |-> i, ts |-> clock + d, at |-> p, stopped |-> FALSE]}
  BY <1>1, <1>2 DEF Recorded
<1>5. QED
  BY <1>1, <1>2, <1>3, <1>4

\* Any other is going to be, unless it is the rest of a pause.
LEMMA SampleRecords ==
  ASSUME TypeOK, NEW i \in Trips, NEW p \in Places, NEW d \in Steps, Sample(i, p, d)
  PROVE  /\ rows' = rows /\ pending = None /\ Recorded = rows
         /\ \/ Skip(i, p, d) /\ pending' = None /\ Recorded' = Recorded
            \/ \E r \in Row : /\ r.trip = i /\ r.ts = clock' /\ r.at = p
                              /\ r.stopped => Stop(i, p, d)
                              /\ Stop(i, p, d) => r.stopped
                              /\ pending' # None /\ pending'.row = r
                              /\ Recorded' = Recorded \cup {r}
<1>1. pending = None /\ rows' = rows /\ clock' = clock + d /\ clock' \in Nat /\ Recorded = rows
  BY HearKeeps DEF Sample, Recorded
<1>2. coord[i] \in Entry
  BY DEF Sample, TypeOK
<1>3. ASSUME NEW stopped \in BOOLEAN, NEW status \in {"stationary", "moving", None},
             Decide(i, p, d, stopped, status), stopped <=> Stop(i, p, d)
      PROVE  \E r \in Row : /\ r.trip = i /\ r.ts = clock' /\ r.at = p
                            /\ r.stopped => Stop(i, p, d)
                            /\ Stop(i, p, d) => r.stopped
                            /\ pending' # None /\ pending'.row = r
                            /\ Recorded' = Recorded \cup {r}
  <2> DEFINE r == [trip |-> i, ts |-> clock + d, at |-> p, stopped |-> stopped]
  <2>1. r \in Row
    BY <1>1, Made
  <2>2. pending' = [row |-> r, status |-> status] /\ pending' \in Decision
    BY <1>3, <2>1, Made DEF Decide
  <2>3. pending' # None /\ pending'.row = r
    BY <2>2, Made
  <2>4. Recorded' = Recorded \cup {r}
    BY <1>1, <2>3 DEF Recorded
  <2>5. r.trip = i /\ r.ts = clock' /\ r.at = p /\ r.stopped = stopped
    BY <1>1
  <2>6. QED
    BY <1>3, <2>1, <2>3, <2>4, <2>5
<1>4. CASE Skip(i, p, d)
  BY <1>1, <1>4 DEF Skip, Recorded
<1>5. CASE Still(i, p, d)
  <2>1. ~Stop(i, p, d) /\ Decide(i, p, d, FALSE, None)
    BY <1>5 DEF Still, Stop
  <2>2. QED
    BY <1>1, <1>3, <2>1
<1>6. CASE Stop(i, p, d)
  <2>1. Decide(i, p, d, TRUE, "stationary")
    BY <1>6 DEF Stop
  <2>2. QED
    BY <1>1, <1>3, <1>6, <2>1
<1>7. CASE Move(i, p, d)
  <2>1. ~Stop(i, p, d) /\ Decide(i, p, d, FALSE, "moving")
    BY <1>7 DEF Move, Stop
  <2>2. QED
    BY <1>1, <1>3, <2>1
<1>8. QED
  BY <1>4, <1>5, <1>6, <1>7 DEF Sample

\* A row that is written was decided on; nothing else happens by it.
LEMMA WriteRecords ==
  ASSUME TypeOK, Write
  PROVE  rows' = rows \cup {pending.row} /\ Recorded' = Recorded /\ pending' = None
BY DEF Write, Recorded

\* The insert of the newest row does not fail.
LEMMA NoWriteFails ==
  ASSUME TypeOK, Times, Undisturbed
  PROVE  ~WriteFails
<1> SUFFICES ASSUME WriteFails
             PROVE  FALSE
  OBVIOUS
<1>1. pending # None /\ ~KeyFree(pending.row)
  BY DEF WriteFails, Undisturbed
<1>2. PICK r \in rows : r.ts = pending.row.ts
  BY <1>1 DEF KeyFree
<1>3. r.ts \in Nat /\ clock \in Nat /\ r.ts < clock /\ pending.row.ts = clock
  BY <1>1, <1>2 DEF Times, TypeOK, Row
<1>4. QED
  BY <1>2, <1>3

\* Samples that are heard stay heard, and nothing else is.
LEMMA HeardBefore ==
  ASSUME TypeOK, NEW i \in Trips, NEW p \in Places, NEW d \in Steps, Hear(i, p, d),
         NEW j \in Trips, NEW k \in DOMAIN heard'[j]
  PROVE  \/ k \in DOMAIN heard[j] /\ heard'[j][k] = heard[j][k]
         \/ j = i /\ heard'[j][k].ts = clock' /\ heard'[j][k].at = p
<1>1. CASE j # i
  BY <1>1, HearKeeps
<1>2. CASE j = i
  <2>1. /\ heard'[i] = Append(heard[i], [ts |-> clock + d, at |-> p])
        /\ [ts |-> clock + d, at |-> p] \in Samples /\ clock' = clock + d
    BY HearKeeps
  <2>2. heard[i] \in Seq(Samples)
    BY DEF TypeOK, Samples
  <2>3. /\ Len(heard[i]) \in Nat
        /\ DOMAIN heard'[i] = 1..Len(heard[i]) + 1 /\ DOMAIN heard[i] = 1..Len(heard[i])
        /\ heard'[i][Len(heard[i]) + 1] = [ts |-> clock + d, at |-> p]
        /\ \A l \in 1..Len(heard[i]) : heard'[i][l] = heard[i][l]
    BY <2>1, <2>2, Added
  <2>4. CASE k = Len(heard[i]) + 1
    BY <1>2, <2>1, <2>3, <2>4
  <2>5. CASE k \in 1..Len(heard[i])
    BY <1>2, <2>3, <2>5
  <2>6. QED
    BY <1>2, <2>3, <2>4, <2>5
<1>3. QED
  BY <1>1, <1>2

\* Time goes on.
LEMMA ClockGoesOn ==
  ASSUME TypeOK, Undisturbed, NEW i \in Trips, NEW p \in Places, NEW d \in Steps, Hear(i, p, d)
  PROVE  clock \in Nat /\ clock' \in Nat /\ clock < clock'
<1>1. d \in Nat /\ d # 0 /\ clock \in Nat
  BY TimeGoesOn DEF Undisturbed, TypeOK
<1>2. clock' = clock + d
  BY HearKeeps
<1>3. QED
  BY <1>1, <1>2

LEMMA TimesStep == TypeOK /\ TypeOK' /\ Times /\ Undisturbed /\ [Next]_vars => Times'
<1> SUFFICES ASSUME TypeOK, TypeOK', Times, Undisturbed, [Next]_vars
             PROVE  Times'
  OBVIOUS
<1>0. /\ rows \subseteq Row /\ Recorded \subseteq Row /\ \A r \in Row : r.ts \in Nat
      /\ \A j \in Trips : heard[j] \in Seq(Samples)
      /\ \A j \in Trips : \A k \in DOMAIN heard[j] : heard[j][k].ts \in Nat
  <2>1. \A j \in Trips : heard[j] \in Seq(Samples)
    BY DEF TypeOK, Samples
  <2>2. \A m \in Samples : m.ts \in Nat
    BY DEF Samples
  <2>3. \A j \in Trips : \A k \in DOMAIN heard[j] : heard[j][k] \in Samples
    BY <2>1
  <2>4. QED
    BY <2>1, <2>2, <2>3, RecordedRows DEF TypeOK, Row
<1>1. ASSUME NEW i \in Trips, NEW p \in Places, NEW d \in Steps, Hear(i, p, d)
      PROVE  \A j \in Trips : \A k \in DOMAIN heard'[j] : heard'[j][k].ts <= clock'
  <2>1. clock \in Nat /\ clock' \in Nat /\ clock < clock'
    BY <1>1, ClockGoesOn
  <2>2. ASSUME NEW j \in Trips, NEW k \in DOMAIN heard'[j]
        PROVE  heard'[j][k].ts <= clock'
    <3>1. CASE k \in DOMAIN heard[j] /\ heard'[j][k] = heard[j][k]
      <4>1. heard[j][k].ts <= clock /\ heard[j][k].ts \in Nat
        BY <1>0, <3>1 DEF Times
      <4>2. QED
        BY <2>1, <3>1, <4>1
    <3>2. CASE heard'[j][k].ts = clock'
      BY <2>1, <3>2
    <3>3. QED
      BY <1>1, <3>1, <3>2, HeardBefore
  <2>3. QED
    BY <2>2
<1>2. ASSUME NEW i \in Trips, NEW p \in Places, NEW d \in Steps, Start(i, p, d)
      PROVE  Times'
  <2>1. clock \in Nat /\ clock' \in Nat /\ clock < clock' /\ Hear(i, p, d)
    BY <1>2, ClockGoesOn DEF Start
  <2>2. PICK r \in Row : /\ r.trip = i /\ r.ts = clock'
                         /\ rows' = rows \cup {r} /\ Recorded' = Recorded \cup {r}
                         /\ pending = None /\ pending' = None
    BY <1>2, StartRecords
  <2>3. \A s \in rows : s \in Recorded /\ s.ts <= clock /\ s.ts \in Nat
    BY <1>0 DEF Times, Recorded
  <2>4. \A s \in Recorded' : s.ts <= clock'
    BY <1>0, <2>1, <2>2 DEF Times
  <2>5. \A s, t \in rows' : s.trip = t.trip /\ s.ts = t.ts => s = t
    BY <2>1, <2>2, <2>3 DEF Times
  <2>6. QED
    BY <1>1, <2>1, <2>2, <2>4, <2>5 DEF Times
<1>3. ASSUME NEW i \in Trips, NEW p \in Places, NEW d \in Steps, Sample(i, p, d)
      PROVE  Times'
  <2>1. clock \in Nat /\ clock' \in Nat /\ clock < clock' /\ Hear(i, p, d)
    BY <1>3, ClockGoesOn DEF Sample
  <2>2. rows' = rows /\ pending = None /\ Recorded = rows
    BY <1>3, SampleRecords
  <2>3. \A s \in rows : s.ts <= clock /\ s.ts \in Nat
    BY <1>0, <2>2 DEF Times
  <2>4. CASE pending' = None /\ Recorded' = Recorded
    BY <1>1, <2>1, <2>2, <2>3, <2>4 DEF Times
  <2>5. CASE \E r \in Row : r.ts = clock' /\ pending' # None /\ pending'.row = r /\ Recorded' = Recorded \cup {r}
    <3>1. PICK r \in Row : r.ts = clock' /\ pending' # None /\ pending'.row = r /\ Recorded' = Recorded \cup {r}
      BY <2>5
    <3>2. \A s \in Recorded' : s.ts <= clock'
      BY <2>1, <2>2, <2>3, <3>1
    <3>3. \A s \in rows' : s.ts < clock'
      BY <2>1, <2>2, <2>3
    <3>4. QED
      BY <1>1, <2>1, <2>2, <3>1, <3>2, <3>3 DEF Times
  <2>6. QED
    BY <1>3, <2>4, <2>5, SampleRecords
<1>4. CASE Write
  <2>1. /\ rows' = rows \cup {pending.row} /\ Recorded' = Recorded /\ pending' = None
        /\ UNCHANGED <<clock, heard>> /\ pending # None
    BY <1>4, WriteRecords DEF Write
  <2>2. \A s \in rows : s.ts \in Nat /\ s.ts < clock
    BY <1>0, <2>1 DEF Times
  <2>3. pending.row.ts = clock /\ clock \in Nat
    BY <2>1 DEF Times, TypeOK
  <2>4. \A s, t \in rows' : s.trip = t.trip /\ s.ts = t.ts => s = t
    BY <2>1, <2>2, <2>3 DEF Times
  <2>5. QED
    BY <2>1, <2>4 DEF Times
<1>5. CASE UNCHANGED vars
  BY <1>5 DEF vars, Times, Recorded
<1>6. QED
  BY <1>2, <1>3, <1>4, <1>5, NoWriteFails DEF Next

LEMMA TimesInit == Init => Times
<1> SUFFICES ASSUME Init
             PROVE  Times
  OBVIOUS
<1>1. rows = {} /\ pending = None /\ Recorded = {} /\ \A i \in Trips : DOMAIN heard[i] = {}
  BY DEF Init, Recorded
<1>2. QED
  BY <1>1 DEF Times

\* The newest row of trip i.
LastOf(i, r) == r.trip = i /\ \A s \in Recorded : s.trip = i => s.ts <= r.ts

\* While a pause lasts, the row that marks it is the trip's newest.
PauseRow == \A i \in Trips : coord[i] # None /\ coord[i].inserted =>
  /\ Long(coord[i])
  /\ \E r \in Recorded : LastOf(i, r) /\ r.stopped /\ Near(coord[i].at, r.at)

\* Sample h is the rest of a pause: no row lies between the one that marks the
\* pause and it.
Skipped(i, h) == \E r \in Recorded :
  /\ r.trip = i /\ r.stopped /\ r.ts < h.ts /\ Distance(h.at, r.at) <= 2 * Eps
  /\ \A s \in Recorded : s.trip = i => s.ts <= r.ts \/ s.ts > h.ts

Covered == \A i \in Trips : \A k \in DOMAIN heard[i] :
  (\E r \in Recorded : r.trip = i /\ r.ts = heard[i][k].ts) \/ Skipped(i, heard[i][k])

LEMMA RowFields ==
  ASSUME NEW r \in Row
  PROVE  r.trip \in Trips /\ r.ts \in Nat /\ r.at \in Int /\ r.stopped \in BOOLEAN
BY PlacesOnLine DEF Row

\* A trip of which no row is added.
LEMMA PauseGoesOn ==
  ASSUME NEW i \in Trips, PauseRow, coord'[i] = coord[i], coord[i] # None, coord[i].inserted,
         Recorded \subseteq Recorded', \A s \in Recorded' \ Recorded : s.trip # i
  PROVE  /\ Long(coord[i])'
         /\ \E r \in Recorded' : LastOf(i, r)' /\ r.stopped /\ Near(coord'[i].at, r.at)
<1>1. PICK r \in Recorded : LastOf(i, r) /\ r.stopped /\ Near(coord[i].at, r.at)
  BY DEF PauseRow
<1>2. LastOf(i, r)'
  BY <1>1 DEF LastOf
<1>3. Long(coord[i])'
  BY DEF PauseRow, Long
<1>4. QED
  BY <1>1, <1>2, <1>3

LEMMA PauseRowStep ==
  ASSUME TypeOK, TypeOK', Times, PauseRow, Undisturbed, [Next]_vars
  PROVE  PauseRow'
<1> DEFINE Marked(j) == coord[j] # None /\ coord[j].inserted =>
             /\ Long(coord[j])
             /\ \E r \in Recorded : LastOf(j, r) /\ r.stopped /\ Near(coord[j].at, r.at)
<1>1. ASSUME NEW j \in Trips, coord'[j] = coord[j], Recorded \subseteq Recorded',
             \A s \in Recorded' \ Recorded : s.trip # j
      PROVE  Marked(j)'
  BY <1>1, PauseGoesOn
<1>2. ASSUME NEW i \in Trips, NEW p \in Places, NEW d \in Steps, Start(i, p, d)
      PROVE  PauseRow'
  <2>1. PICK r \in Row : r.trip = i /\ Recorded' = Recorded \cup {r}
    BY <1>2, StartRecords
  <2>2. coord' = [coord EXCEPT ![i] = NewEntry(p)] /\ coord \in [Trips -> Entry \cup {None}]
    BY <1>2 DEF Start, TypeOK
  <2>3. ~coord'[i].inserted
    BY <2>2 DEF NewEntry
  <2>4. \A j \in Trips \ {i} : Marked(j)'
    BY <1>1, <2>1, <2>2
  <2>5. QED
    BY <2>3, <2>4 DEF PauseRow
<1>3. ASSUME NEW i \in Trips, NEW p \in Places, NEW d \in Steps, Sample(i, p, d)
      PROVE  PauseRow'
  <2>1. Hear(i, p, d) /\ coord[i] # None /\ coord[i] \in Entry /\ coord \in [Trips -> Entry \cup {None}]
    BY <1>3 DEF Sample, TypeOK
  <2>2. clock \in Nat /\ clock' \in Nat /\ clock < clock' /\ clock + d \in Nat
    BY <2>1, ClockGoesOn, HearKeeps
  <2>3. \A j \in Trips \ {i} : coord'[j] = coord[j]
    BY <1>3, <2>1, <2>2, JudgeKeeps DEF Sample
  <2>4. Recorded \subseteq Recorded' /\ \A s \in Recorded' \ Recorded : s.trip = i
    BY <1>3, SampleRecords
  <2>5. \A j \in Trips \ {i} : Marked(j)'
    BY <1>1, <2>3, <2>4
  <2>6. Marked(i)'
    <3>1. CASE Still(i, p, d)
      <4>1. coord'[i].inserted = coord[i].inserted /\ ~Long(coord[i])
        BY <2>1, <3>1 DEF Still, Entry
      <4>2. QED
        BY <2>1, <4>1 DEF PauseRow
    <3>2. CASE Stop(i, p, d)
      <4>1. /\ coord'[i].at = coord[i].at /\ coord'[i].n = coord[i].n
            /\ Long(coord[i]) /\ Near(coord[i].at, p)
        BY <2>1, <3>2 DEF Stop, Entry
      <4>2. ~Skip(i, p, d)
        BY <3>2 DEF Stop, Skip
      <4>3. PICK r \in Row : /\ r.trip = i /\ r.ts = clock' /\ r.at = p /\ r.stopped
                             /\ Recorded' = Recorded \cup {r}
        BY <1>3, <3>2, <4>2, SampleRecords
      <4>4. \A s \in Recorded : s.ts <= clock /\ s.ts \in Nat
        BY RecordedRows, RowFields DEF Times
      <4>5. LastOf(i, r)'
        BY <2>2, <4>3, <4>4 DEF LastOf
      <4>6. Long(coord[i])'
        BY <4>1 DEF Long
      <4>7. QED
        BY <4>1, <4>3, <4>5, <4>6
    <3>3. CASE Skip(i, p, d)
      <4>1. ~Stop(i, p, d)
        BY <3>3 DEF Stop, Skip
      <4>2. pending' = None /\ rows' = rows /\ Recorded = rows /\ coord' = coord
        BY <1>3, <2>1, <3>3, SampleRecords DEF Skip, Hear
      <4>3. Recorded' = Recorded
        BY <4>2 DEF Recorded
      <4>4. QED
        BY <1>1, <4>2, <4>3
    <3>4. CASE Move(i, p, d)
      <4>1. ~coord'[i].inserted
        BY <2>1, <3>4 DEF Move, NewEntry
      <4>2. QED
        BY <4>1
    <3>5. QED
      BY <1>3, <3>1, <3>2, <3>3, <3>4 DEF Sample
  <2>7. QED
    BY <2>5, <2>6 DEF PauseRow
<1>4. CASE Write
  BY <1>1, <1>4, WriteRecords DEF Write, PauseRow
<1>5. CASE UNCHANGED vars
  <2>1. coord' = coord /\ Recorded' = Recorded
    BY <1>5 DEF vars, Recorded
  <2>2. QED
    BY <1>1, <2>1 DEF PauseRow
<1>6. QED
  BY <1>2, <1>3, <1>4, <1>5, NoWriteFails DEF Next

\* What a sample is covered by goes on covering it: rows that are added are
\* newer than it.
LEMMA StaysCovered ==
  ASSUME NEW i \in Trips, NEW h, h.ts <= clock, h.ts \in Nat, clock \in Nat,
         (\E r \in Recorded : r.trip = i /\ r.ts = h.ts) \/ Skipped(i, h),
         Recorded \subseteq Recorded',
         \A s \in Recorded' \ Recorded : s.ts \in Nat /\ s.ts > clock
  PROVE  (\E r \in Recorded' : r.trip = i /\ r.ts = h.ts) \/ Skipped(i, h)'
<1>1. CASE \E r \in Recorded : r.trip = i /\ r.ts = h.ts
  BY <1>1
<1>2. CASE Skipped(i, h)
  <2>1. PICK r \in Recorded : /\ r.trip = i /\ r.stopped /\ r.ts < h.ts /\ Distance(h.at, r.at) <= 2 * Eps
                              /\ \A s \in Recorded : s.trip = i => s.ts <= r.ts \/ s.ts > h.ts
    BY <1>2 DEF Skipped
  <2>2. \A s \in Recorded' \ Recorded : s.ts > h.ts
    OBVIOUS
  <2>3. QED
    BY <2>1, <2>2 DEF Skipped
<1>3. QED
  BY <1>1, <1>2

\* A sample that is left out is the rest of a pause.
LEMMA SkipIsCovered ==
  ASSUME TypeOK, TypeOK', Times, PauseRow, Undisturbed,
         NEW i \in Trips, NEW p \in Places, NEW d \in Steps, Sample(i, p, d), Skip(i, p, d),
         NEW h, h.ts = clock', h.at = p
  PROVE  Skipped(i, h)'
<1>1. coord[i] # None /\ coord[i].inserted /\ Near(coord[i].at, p) /\ Hear(i, p, d)
  BY DEF Sample, Skip
<1>2. PICK r \in Recorded : LastOf(i, r) /\ r.stopped /\ Near(coord[i].at, r.at)
  BY <1>1 DEF PauseRow
<1>3. Recorded' = Recorded
  BY SampleRecords DEF Stop, Skip
<1>4. r \in Row /\ r.at \in Int /\ r.ts \in Nat /\ coord[i].at \in Int /\ p \in Int
  BY <1>1, <1>2, RecordedRows, RowFields, PlacesOnLine DEF TypeOK, Entry
<1>5. Distance(p, r.at) <= 2 * Eps
  BY <1>1, <1>2, <1>4, NearIsSymmetric, NearTwice
<1>6. r.ts < clock'
  <2>1. clock \in Nat /\ clock' \in Nat /\ clock < clock'
    BY <1>1, ClockGoesOn
  <2>2. r.ts <= clock
    BY <1>2 DEF Times
  <2>3. QED
    BY <1>4, <2>1, <2>2
<1>7. r.trip = i /\ \A s \in Recorded : s.trip = i => s.ts <= r.ts
  BY <1>2 DEF LastOf
<1>8. QED
  BY <1>2, <1>3, <1>5, <1>6, <1>7 DEF Skipped

LEMMA CoveredStep ==
  ASSUME TypeOK, TypeOK', Times, PauseRow, Covered, Undisturbed, [Next]_vars
  PROVE  Covered'
<1> DEFINE Has(j, h) == (\E r \in Recorded : r.trip = j /\ r.ts = h.ts) \/ Skipped(j, h)
<1>0. \A j \in Trips : \A k \in DOMAIN heard[j] :
        heard[j][k].ts \in Nat /\ heard[j][k].ts <= clock /\ clock \in Nat /\ Has(j, heard[j][k])
  <2>1. \A j \in Trips : heard[j] \in Seq(Samples)
    BY DEF TypeOK, Samples
  <2>2. \A j \in Trips : \A k \in DOMAIN heard[j] : heard[j][k] \in Samples
    BY <2>1
  <2>3. \A m \in Samples : m.ts \in Nat
    BY DEF Samples
  <2>4. QED
    BY <2>2, <2>3 DEF Times, Covered, TypeOK
<1>1. ASSUME NEW i \in Trips, NEW p \in Places, NEW d \in Steps, Hear(i, p, d),
             Recorded \subseteq Recorded',
             \A s \in Recorded' \ Recorded : s.ts = clock',
             \A h : h.ts = clock' /\ h.at = p => (\E r \in Recorded' : r.trip = i /\ r.ts = h.ts) \/ Skipped(i, h)'
      PROVE  Covered'
  <2>1. clock \in Nat /\ clock' \in Nat /\ clock < clock'
    BY <1>1, ClockGoesOn
  <2>2. \A s \in Recorded' \ Recorded : s.ts \in Nat /\ s.ts > clock
    BY <1>1, <2>1
  <2>3. ASSUME NEW j \in Trips, NEW k \in DOMAIN heard'[j]
        PROVE  (\E r \in Recorded' : r.trip = j /\ r.ts = heard'[j][k].ts) \/ Skipped(j, heard[j][k])'
    <3>1. PICK h : h = heard'[j][k]
      OBVIOUS
    <3>2. (\E r \in Recorded' : r.trip = j /\ r.ts = h.ts) \/ Skipped(j, h)'
      <4>1. CASE k \in DOMAIN heard[j] /\ heard'[j][k] = heard[j][k]
        <5>1. h.ts \in Nat /\ h.ts <= clock /\ Has(j, h)
          BY <1>0, <3>1, <4>1
        <5>2. QED
          BY <1>1, <2>1, <2>2, <5>1, StaysCovered
      <4>2. CASE j = i /\ heard'[j][k].ts = clock' /\ heard'[j][k].at = p
        BY <1>1, <3>1, <4>2
      <4>3. QED
        BY <1>1, <4>1, <4>2, HeardBefore
    <3>3. QED
      BY <3>1, <3>2 DEF Skipped
  <2>4. QED
    BY <2>3 DEF Covered
<1>2. ASSUME NEW i \in Trips, NEW p \in Places, NEW d \in Steps, Start(i, p, d)
      PROVE  Covered'
  <2>1. PICK r \in Row : r.trip = i /\ r.ts = clock' /\ Recorded' = Recorded \cup {r}
    BY <1>2, StartRecords
  <2>2. QED
    BY <1>1, <1>2, <2>1 DEF Start
<1>3. ASSUME NEW i \in Trips, NEW p \in Places, NEW d \in Steps, Sample(i, p, d)
      PROVE  Covered'
  <2>1. Hear(i, p, d)
    BY <1>3 DEF Sample
  <2>2. CASE Skip(i, p, d) /\ Recorded' = Recorded
    <3>1. \A h : h.ts = clock' /\ h.at = p => Skipped(i, h)'
      BY <1>3, <2>2, SkipIsCovered
    <3>2. QED
      BY <1>1, <2>1, <2>2, <3>1
  <2>3. CASE \E r \in Row : r.trip = i /\ r.ts = clock' /\ Recorded' = Recorded \cup {r}
    BY <1>1, <2>1, <2>3
  <2>4. QED
    BY <1>3, <2>2, <2>3, SampleRecords
<1>4. CASE Write \/ UNCHANGED vars
  <2>1. Recorded' = Recorded /\ heard' = heard
    <3>1. CASE Write
      BY <3>1, WriteRecords DEF Write
    <3>2. CASE UNCHANGED vars
      BY <3>2 DEF vars, Recorded
    <3>3. QED
      BY <1>4, <3>1, <3>2
  <2>2. QED
    BY <2>1 DEF Covered, Skipped
<1>5. QED
  BY <1>2, <1>3, <1>4, NoWriteFails DEF Next

RecordInv == TypeOK /\ Times /\ PauseRow /\ Covered

LEMMA RecordInit == Init => RecordInv
BY TypeInit, TimesInit DEF Init, RecordInv, PauseRow, Covered

LEMMA RecordStep == Undisturbed /\ RecordInv /\ [Next]_vars => RecordInv'
BY TypeStep, TimesStep, PauseRowStep, CoveredStep DEF RecordInv

\* Two rows of a trip with none of the trip's between them.
LEMMA GapIsPause ==
  ASSUME RecordInv, NEW w \in Windows(rows), w[1].trip = w[2].trip,
         NEW k \in DOMAIN heard[w[1].trip], heard[w[1].trip][k].ts \in w[1].ts + 1..w[2].ts - 1
  PROVE  w[1].stopped /\ Distance(heard[w[1].trip][k].at, w[1].at) <= 2 * Eps
<1> DEFINE i == w[1].trip
           h == heard[i][k]
<1>1. /\ w[1] \in rows /\ w[2] \in rows /\ w[1] \in Row /\ w[2] \in Row
      /\ ~\E r \in rows : Before(w[1], r) /\ Before(r, w[2])
  BY DEF Windows, RecordInv, TypeOK
<1>2. i \in Trips /\ i \in Nat /\ w[1].ts \in Nat /\ w[2].ts \in Nat /\ w[2].trip = i
  BY <1>1, RowFields, TripsOrdered
<1>3. h.ts \in Nat /\ w[1].ts < h.ts /\ h.ts < w[2].ts
  BY <1>2
<1>4. \A r \in rows : r.trip = i => ~(w[1].ts < r.ts /\ r.ts < w[2].ts)
  BY <1>1, <1>2 DEF Before
<1>5. pending # None => pending.row.ts \in Nat /\ w[2].ts < pending.row.ts
  <2>1. pending # None => w[2].ts < clock /\ pending.row.ts = clock /\ clock \in Nat
    BY <1>1 DEF RecordInv, Times, TypeOK
  <2>2. QED
    BY <1>2, <2>1
<1>6. \A r \in Recorded : r.ts \in Nat /\ r.trip = i => r.ts <= w[1].ts \/ r.ts >= w[2].ts
  BY <1>2, <1>4, <1>5 DEF Recorded
<1>7. \A r \in Recorded : r.ts \in Nat
  BY RecordedRows, RowFields DEF RecordInv
<1>8. ~\E r \in Recorded : r.trip = i /\ r.ts = h.ts
  BY <1>2, <1>3, <1>6, <1>7
<1>9. Skipped(i, h)
  BY <1>2, <1>8 DEF RecordInv, Covered
<1>10. PICK r \in Recorded : /\ r.trip = i /\ r.stopped /\ r.ts < h.ts /\ Distance(h.at, r.at) <= 2 * Eps
                             /\ \A s \in Recorded : s.trip = i => s.ts <= r.ts \/ s.ts > h.ts
  BY <1>9 DEF Skipped
<1>11. w[1].ts <= r.ts
  BY <1>1, <1>2, <1>3, <1>7, <1>10 DEF Recorded
<1>12. r.ts = w[1].ts
  BY <1>2, <1>3, <1>6, <1>7, <1>10, <1>11
<1>13. r \in rows
  BY <1>2, <1>3, <1>5, <1>10, <1>12 DEF Recorded
<1>14. r = w[1]
  BY <1>1, <1>10, <1>12, <1>13 DEF RecordInv, Times
<1>15. QED
  BY <1>10, <1>14

\* As long as inserts succeed and a client's timestamps go up, no sample is
\* lost from the statistics unnoticed: what the rows of a trip leave out is
\* the rest of a pause.  It is so whatever the gap.
THEOREM GapsArePauses == Undisturbed => (Spec => []GapsOnlyInPauses)
<1> SUFFICES ASSUME Undisturbed
             PROVE  Spec => []GapsOnlyInPauses
  OBVIOUS
<1>1. RecordInv => GapsOnlyInPauses
  BY GapIsPause DEF GapsOnlyInPauses
<1>2. RecordInv /\ [Next]_vars => RecordInv'
  BY RecordStep
<1>3. QED
  BY <1>1, <1>2, RecordInit, PTL DEF Spec

-----------------------------------------------------------------------------
(***************************************************************************)
(* What is shown.  The status is the user's and not the trip's, and the    *)
(* trips of a user write it by turns: it is not the one of any given trip, *)
(* but there is always a trip that it is right about.                      *)
(***************************************************************************)
\* The status, once what is decided is written.
Shown == IF pending = None \/ pending.status = None THEN shown ELSE pending.status

\* The trip has not left its start, or its pause is marked.
Rests(i) == coord[i] # None /\ \E a \in DOMAIN heard[i] : /\ AnchorAt(i, a)
                                                          /\ a = 1 \/ coord[i].inserted

\* The trip has moved, and not stood since for long.
Goes(i) == coord[i] # None /\ \E a \in DOMAIN heard[i] : /\ AnchorAt(i, a)
                                                         /\ a # 1 /\ ~coord[i].inserted

AnchoredStatus ==
  /\ Shown = "stationary" /\ (\E i \in Trips : coord[i] # None) => \E i \in Trips : Rests(i)
  /\ Shown = "moving" => \E i \in Trips : Goes(i)

\* What a sample makes of the status.
LEMMA SampleShows ==
  ASSUME TypeOK, NEW i \in Trips, NEW p \in Places, NEW d \in Steps, Sample(i, p, d)
  PROVE  /\ Still(i, p, d) \/ Skip(i, p, d) => Shown' = Shown /\ coord'[i].inserted = coord[i].inserted
         /\ Stop(i, p, d) => Shown' = "stationary" /\ coord'[i].inserted
         /\ Move(i, p, d) => Shown' = "moving" /\ ~coord'[i].inserted
<1>1. /\ pending = None /\ shown' = shown /\ clock + d \in Nat
      /\ coord \in [Trips -> Entry \cup {None}] /\ coord[i] \in Entry
  BY HearKeeps DEF Sample, TypeOK
<1>2. ASSUME NEW stopped \in BOOLEAN, NEW status \in {"stationary", "moving", None},
             Decide(i, p, d, stopped, status)
      PROVE  Shown' = IF status = None THEN shown ELSE status
  <2>1. [trip |-> i, ts |-> clock + d, at |-> p, stopped |-> stopped] \in Row
    BY <1>1, Made
  <2>2. pending' # None /\ pending'.status = status
    BY <1>2, <2>1, Made DEF Decide
  <2>3. QED
    BY <1>1, <2>2 DEF Shown
<1>3. Shown = shown
  BY <1>1 DEF Shown
<1>4. Still(i, p, d) => Shown' = Shown /\ coord'[i].inserted = coord[i].inserted
  BY <1>1, <1>2, <1>3 DEF Still, Entry
<1>5. Skip(i, p, d) => Shown' = Shown /\ coord'[i].inserted = coord[i].inserted
  BY <1>1, <1>3 DEF Skip, Shown
<1>6. Stop(i, p, d) => Shown' = "stationary" /\ coord'[i].inserted
  BY <1>1, <1>2, NoneIsNothing DEF Stop, Entry
<1>7. ASSUME Move(i, p, d)
      PROVE  Shown' = "moving" /\ ~coord'[i].inserted
  <2>1. Decide(i, p, d, FALSE, "moving") /\ coord'[i] = NewEntry(p)
    BY <1>1, <1>7 DEF Move
  <2>2. Shown' = "moving"
    BY <1>2, <2>1, NoneIsNothing
  <2>3. QED
    BY <2>1, <2>2 DEF NewEntry
<1>8. QED
  BY <1>4, <1>5, <1>6, <1>7

\* What is true of a trip stays true as long as nothing happens to it.
LEMMA RestStays ==
  ASSUME NEW i \in Trips, heard'[i] = heard[i], coord'[i] = coord[i]
  PROVE  (Rests(i) => Rests(i)') /\ (Goes(i) => Goes(i)')
BY AnchorStays DEF Rests, Goes

LEMMA AnchoredStatusStep ==
  ASSUME TypeOK, TypeOK', Times, Anchored, AnchoredStatus, Undisturbed, [Next]_vars
  PROVE  AnchoredStatus'
<1>1. ASSUME NEW i \in Trips, NEW p \in Places, NEW d \in Steps, Start(i, p, d)
      PROVE  AnchoredStatus'
  <2>1. heard[i] = <<>> /\ shown' = "stationary" /\ pending' = None
    BY <1>1, StartRecords DEF Start, Anchored
  <2>2. 1 \in DOMAIN heard'[i] /\ AnchorAt(i, 1)' /\ coord'[i] = NewEntry(p)
    BY <1>1, <2>1, StartAnchors
  <2>3. coord'[i] # None
    BY <2>2, Made
  <2>4. Shown' = "stationary" /\ Rests(i)'
    BY <2>1, <2>2, <2>3 DEF Shown, Rests
  <2>5. QED
    BY <2>4 DEF AnchoredStatus
<1>2. ASSUME NEW i \in Trips, NEW p \in Places, NEW d \in Steps, Sample(i, p, d)
      PROVE  AnchoredStatus'
  <2>1. /\ coord[i] # None /\ coord'[i] # None
        /\ \A j \in Trips : j # i => heard'[j] = heard[j] /\ coord'[j] = coord[j]
    <3>1. coord[i] # None /\ Hear(i, p, d)
      BY <1>2 DEF Sample
    <3>2. clock + d \in Nat
      BY <3>1, HearKeeps
    <3>3. coord'[i] \in Entry /\ \A j \in Trips \ {i} : coord'[j] = coord[j]
      BY <1>2, <3>1, <3>2, JudgeKeeps DEF Sample
    <3>4. \A j \in Trips \ {i} : heard'[j] = heard[j]
      BY <3>1, HearKeeps
    <3>5. QED
      BY <3>1, <3>3, <3>4, Made
  <2>2. CASE Still(i, p, d) \/ Skip(i, p, d)
    <3>1. Shown' = Shown /\ coord'[i].inserted = coord[i].inserted
      BY <1>2, <2>2, SampleShows
    <3>2. ASSUME NEW a \in DOMAIN heard[i], AnchorAt(i, a)
          PROVE  a \in DOMAIN heard'[i] /\ AnchorAt(i, a)'
      <4>1. ~Move(i, p, d)
        BY <2>2 DEF Still, Skip, Move
      <4>2. QED
        BY <1>2, <3>2, <4>1, SampleAnchors
    <3>3. \A j \in Trips : (Rests(j) => Rests(j)') /\ (Goes(j) => Goes(j)')
      <4>1. (Rests(i) => Rests(i)') /\ (Goes(i) => Goes(i)')
        BY <2>1, <3>1, <3>2 DEF Rests, Goes
      <4>2. QED
        BY <2>1, <4>1, RestStays
    <3>4. QED
      BY <2>1, <3>1, <3>3 DEF AnchoredStatus
  <2>3. CASE Stop(i, p, d)
    <3>1. Shown' = "stationary" /\ coord'[i].inserted
      BY <1>2, <2>3, SampleShows
    <3>2. \E b \in DOMAIN heard'[i] : AnchorAt(i, b)'
      BY <1>2, <2>1, SampleAnchors DEF Anchored
    <3>3. Rests(i)'
      BY <2>1, <3>1, <3>2 DEF Rests
    <3>4. QED
      BY <3>1, <3>3 DEF AnchoredStatus
  <2>4. CASE Move(i, p, d)
    <3>1. Shown' = "moving" /\ ~coord'[i].inserted
      BY <1>2, <2>4, SampleShows
    <3>2. \E b \in DOMAIN heard'[i] : b # 1 /\ AnchorAt(i, b)'
      <4>1. PICK a \in DOMAIN heard[i] : AnchorAt(i, a)
        BY <2>1 DEF Anchored
      <4>2. ~(Still(i, p, d) \/ Stop(i, p, d) \/ Skip(i, p, d))
        BY <2>4 DEF Still, Stop, Skip, Move
      <4>3. QED
        BY <1>2, <4>1, <4>2, SampleAnchors
    <3>3. Goes(i)'
      BY <2>1, <3>1, <3>2 DEF Goes
    <3>4. QED
      BY <3>1, <3>3 DEF AnchoredStatus
  <2>5. QED
    BY <1>2, <2>2, <2>3, <2>4 DEF Sample
<1>3. CASE Write \/ UNCHANGED vars
  <2>1. coord' = coord /\ heard' = heard /\ Shown' = Shown
    BY <1>3 DEF Write, vars, Shown
  <2>2. \A j \in Trips : (Rests(j) => Rests(j)') /\ (Goes(j) => Goes(j)')
    BY <2>1, RestStays
  <2>3. QED
    BY <2>1, <2>2 DEF AnchoredStatus
<1>4. QED
  BY <1>1, <1>2, <1>3, NoWriteFails DEF Next

StatusInv == TypeOK /\ Times /\ Anchored /\ AnchoredStatus

LEMMA StatusInit == Init => StatusInv
BY TypeInit, TimesInit, AnchoredInit, NoneIsNothing DEF Init, StatusInv, AnchoredStatus, Shown

LEMMA StatusStep == Undisturbed /\ StatusInv /\ [Next]_vars => StatusInv'
BY TypeStep, TimesStep, AnchoredStep, AnchoredStatusStep DEF StatusInv

\* The anchor's sample is one of the trip's.
LEMMA AnchorIsHeard ==
  ASSUME TypeOK, NEW i \in Trips, coord[i] # None, NEW a \in DOMAIN heard[i]
  PROVE  /\ Len(heard[i]) \in Nat /\ DOMAIN heard[i] = 1..Len(heard[i]) /\ a \in 1..Len(heard[i])
         /\ coord[i].n \in 1..Threshold /\ coord[i].inserted \in BOOLEAN
<1>1. heard[i] \in Seq(Samples) /\ coord[i] \in Entry
  BY DEF TypeOK, Samples
<1>2. QED
  BY <1>1, LenProperties DEF Entry

LEMMA NoEarlyPauseHolds == StatusInv => NoEarlyPause
<1> SUFFICES ASSUME StatusInv, pending = None, shown = "stationary", \E i \in Trips : coord[i] # None
             PROVE  \E i \in Trips : \E k \in DOMAIN heard[i] :
                      /\ k = 1 \/ Len(heard[i]) - k >= Threshold
                      /\ StaysNear(heard[i], k)
  BY DEF NoEarlyPause
<1>1. PICK i \in Trips : Rests(i)
  BY DEF StatusInv, AnchoredStatus, Shown
<1>2. PICK a \in DOMAIN heard[i] : AnchorAt(i, a) /\ (a = 1 \/ coord[i].inserted)
  BY <1>1 DEF Rests
<1>3. a = 1 \/ Len(heard[i]) - a >= Threshold
  BY <1>2 DEF AnchorAt
<1>4. StaysNear(heard[i], a)
  BY <1>2 DEF AnchorAt, StaysNear
<1>5. QED
  BY <1>3, <1>4

\* A trip that goes has changed its place within the last Threshold + 1
\* samples.
LEMMA GoesNotStands ==
  ASSUME TypeOK, NEW i \in Trips, Goes(i)
  PROVE  ~Stands(heard[i])
<1> DEFINE track == heard[i]
           last == Len(track)
<1>1. PICK a \in DOMAIN track : AnchorAt(i, a) /\ a # 1 /\ ~coord[i].inserted
  BY DEF Goes
<1>2. /\ last \in Nat /\ DOMAIN track = 1..last /\ a \in 1..last
      /\ coord[i].n \in 1..Threshold
  BY <1>1, AnchorIsHeard DEF Goes
<1>3. last - a + 1 = coord[i].n
  BY <1>1 DEF AnchorAt
<1>4. /\ a - 1 \in DOMAIN track /\ a - 1 >= last - Threshold
      /\ a >= last - Threshold
  BY <1>1, <1>2, <1>3, ThresholdPositive
<1>5. track[a - 1].at # track[a].at
  BY <1>1 DEF AnchorAt
<1>6. QED
  BY <1>4, <1>5 DEF Stands

LEMMA PauseMarkedHolds == StatusInv => PauseMarked
<1> SUFFICES ASSUME StatusInv, pending = None, shown # "stationary"
             PROVE  \E i \in Trips : ~Stands(heard[i])
  BY DEF PauseMarked
<1>1. Shown = "moving"
  BY DEF StatusInv, TypeOK, Shown
<1>2. QED
  BY <1>1, GoesNotStands DEF StatusInv, AnchoredStatus

\* If inserts succeed and timestamps go up, a user is shown as stationary only
\* when one of the user's trips has had Threshold samples near one place, or
\* has not left its start.
THEOREM PausesAreEarned == Undisturbed => (Spec => []NoEarlyPause)
<1> SUFFICES ASSUME Undisturbed
             PROVE  Spec => []NoEarlyPause
  OBVIOUS
<1>1. StatusInv /\ [Next]_vars => StatusInv'
  BY StatusStep
<1>2. QED
  BY <1>1, StatusInit, NoEarlyPauseHolds, PTL DEF Spec

\* And the user is shown as stationary when each of the trips has had its last
\* Threshold + 1 samples at one place, whatever the anchor they were judged by.
THEOREM PausesAreMarked == Undisturbed => (Spec => []PauseMarked)
<1> SUFFICES ASSUME Undisturbed
             PROVE  Spec => []PauseMarked
  OBVIOUS
<1>1. StatusInv /\ [Next]_vars => StatusInv'
  BY StatusStep
<1>2. QED
  BY <1>1, StatusInit, PauseMarkedHolds, PTL DEF Spec

=============================================================================
