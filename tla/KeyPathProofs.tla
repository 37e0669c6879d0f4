---------------------------- MODULE KeyPathProofs ---------------------------
(***************************************************************************)
(* Theorems about the way of a key, for any number of clients and any      *)
(* capacity of the event channel: which keys a client's keyboard holds     *)
(* down.                                                                   *)
(***************************************************************************)
EXTENDS KeyPath, TLAPS

-----------------------------------------------------------------------------
(* The invariant speaks of the last event of a key on the way: the event   *)
(* with HandleInputEvent comes before those in the channel.                *)

Way == taken \o queue
KeysOf(w) == {w[i].key : i \in 1..Len(w)}

LastAt(w, k, i) == w[i].key = k /\ \A j \in 1..Len(w) : i < j => w[j].key # k
LastPressed(w, k) == \E i \in 1..Len(w) : LastAt(w, k, i) /\ w[i].pressed = TRUE
LastReleased(w, k) == \E i \in 1..Len(w) : LastAt(w, k, i) /\ w[i].pressed = FALSE

\* The target is the owner, or taken away by the timer or the chord.
TargetIsOwner == target \in {owner, Nobody}

\* A key whose last event on the way is a press is down, or its release was dropped.
PressesAreHeld == \A k \in Keys : LastPressed(Way, k) => k \in held \cup dropped

\* What the client in control holds down will be released there, or is in left already.
OwnersKeys ==
  /\ owner # Nobody /\ target = owner =>
       keys[owner] \subseteq held \cup KeysOf(Way) \cup dropped \cup left[owner]
  /\ owner # Nobody /\ target = Nobody =>
       keys[owner] \cup KeysOf(taken) \subseteq left[owner]

\* What the last event of a followed key does to the owner's keyboard when it gets there.
FollowedKeys ==
  \A k \in followed :
    /\ target = owner /\ owner # Nobody
    /\ LastPressed(Way, k) => k \in held
    /\ LastReleased(Way, k) => k \notin held
    /\ beingControlled[owner] /\ k \notin KeysOf(Way) =>
         (k \in keys[owner] <=> k \in held)

IInv ==
  /\ TypeOK
  /\ TargetIsOwner
  /\ PressesAreHeld
  /\ OwnersKeys
  /\ FollowedKeys
  /\ StuckKeysWereHeld

USE NobodyAssumption, KeysAssumption, QueueAssumption

-----------------------------------------------------------------------------
(* Lists of events.                                                        *)

LEMMA AppendLast ==
  ASSUME NEW w \in Seq(Event), NEW e \in Event, NEW k \in Keys
  PROVE  /\ Append(w, e) \in Seq(Event)
         /\ KeysOf(Append(w, e)) = KeysOf(w) \cup {e.key}
         /\ LastPressed(Append(w, e), k) <=>
              IF e.key = k THEN e.pressed = TRUE ELSE LastPressed(w, k)
         /\ LastReleased(Append(w, e), k) <=>
              IF e.key = k THEN e.pressed = FALSE ELSE LastReleased(w, k)
<1>. DEFINE v == Append(w, e)
            n == Len(w)
<1>1. /\ v \in Seq(Event) /\ n \in Nat /\ Len(v) = n + 1 /\ v[n + 1] = e
      /\ \A i \in 1..n : v[i] = w[i]
  OBVIOUS
<1>. HIDE DEF v
<1>2. KeysOf(v) = KeysOf(w) \cup {e.key}
  <2>1. \A i \in 1..(n + 1) : i \in 1..n \/ i = n + 1
    BY <1>1
  <2>2. 1..n \subseteq 1..(n + 1) /\ n + 1 \in 1..(n + 1)
    BY <1>1
  <2>3. QED
    BY <1>1, <2>1, <2>2 DEF KeysOf
<1>3. CASE e.key = k
  <2>1. LastAt(v, k, n + 1)
    BY <1>1, <1>3 DEF LastAt
  <2>2. \A i \in 1..n : ~ LastAt(v, k, i)
    BY <1>1, <1>3 DEF LastAt
  <2>3. \A i \in 1..Len(v) : LastAt(v, k, i) => i = n + 1
    BY <1>1, <2>2
  <2>4. n + 1 \in 1..Len(v)
    BY <1>1
  <2>5. QED
    BY <1>1, <1>2, <1>3, <2>1, <2>3, <2>4 DEF LastPressed, LastReleased, v
<1>4. CASE e.key # k
  <2>1. ~ LastAt(v, k, n + 1)
    BY <1>1, <1>4 DEF LastAt
  <2>2. \A i \in 1..n : LastAt(v, k, i) <=> LastAt(w, k, i)
    BY <1>1, <1>4 DEF LastAt
  <2>3. /\ \A i \in 1..Len(v) : LastAt(v, k, i) => i \in 1..n
        /\ 1..n \subseteq 1..Len(v)
    BY <1>1, <2>1
  <2>4. QED
    BY <1>1, <1>2, <1>4, <2>2, <2>3 DEF LastPressed, LastReleased, v
<1>5. QED
  BY <1>3, <1>4

LEMMA TailLast ==
  ASSUME NEW w \in Seq(Event), w # <<>>, NEW k \in Keys
  PROVE  /\ Tail(w) \in Seq(Event) /\ Head(w) \in Event
         /\ KeysOf(w) = KeysOf(Tail(w)) \cup {Head(w).key}
         /\ LastPressed(Tail(w), k) => LastPressed(w, k)
         /\ LastReleased(Tail(w), k) => LastReleased(w, k)
         /\ k \notin KeysOf(Tail(w)) /\ Head(w).key = k =>
              \/ LastPressed(w, k) /\ Head(w).pressed = TRUE
              \/ LastReleased(w, k) /\ Head(w).pressed = FALSE
<1>. DEFINE v == Tail(w)
            n == Len(v)
<1>1. /\ v \in Seq(Event) /\ n \in Nat /\ Len(w) = n + 1 /\ Head(w) = w[1] /\ w[1] \in Event
      /\ \A i \in 1..n : v[i] = w[i + 1]
  OBVIOUS
<1>. HIDE DEF v
<1>2. \A i \in 1..Len(w) : i = 1 \/ (i - 1 \in 1..n /\ v[i - 1] = w[i])
  BY <1>1
<1>3. KeysOf(w) = KeysOf(v) \cup {w[1].key}
  <2>1. \A i \in 1..n : i + 1 \in 1..Len(w)
    BY <1>1
  <2>2. 1 \in 1..Len(w)
    BY <1>1
  <2>3. KeysOf(w) \subseteq KeysOf(v) \cup {w[1].key}
    BY <1>2 DEF KeysOf
  <2>4. KeysOf(v) \cup {w[1].key} \subseteq KeysOf(w)
    BY <1>1, <2>1, <2>2 DEF KeysOf
  <2>5. QED
    BY <2>3, <2>4
<1>4. \A i \in 1..n : LastAt(v, k, i) => i + 1 \in 1..Len(w) /\ LastAt(w, k, i + 1)
  <2>1. SUFFICES ASSUME NEW i \in 1..n, LastAt(v, k, i)
                 PROVE  i + 1 \in 1..Len(w) /\ LastAt(w, k, i + 1)
    OBVIOUS
  <2>2. w[i + 1].key = k
    BY <1>1, <2>1 DEF LastAt
  <2>3. ASSUME NEW j \in 1..Len(w), i + 1 < j PROVE w[j].key # k
    <3>1. j - 1 \in 1..n /\ v[j - 1] = w[j] /\ i < j - 1
      BY <1>1, <1>2, <2>3
    <3>2. QED
      BY <2>1, <3>1 DEF LastAt
  <2>4. QED
    BY <1>1, <2>2, <2>3 DEF LastAt
<1>5. LastPressed(v, k) => LastPressed(w, k)
  BY <1>1, <1>4 DEF LastPressed
<1>6. LastReleased(v, k) => LastReleased(w, k)
  BY <1>1, <1>4 DEF LastReleased
<1>7. ASSUME k \notin KeysOf(v), w[1].key = k
      PROVE  \/ LastPressed(w, k) /\ w[1].pressed = TRUE
             \/ LastReleased(w, k) /\ w[1].pressed = FALSE
  <2>1. \A j \in 1..Len(w) : 1 < j => w[j].key # k
    BY <1>1, <1>2, <1>7 DEF KeysOf
  <2>2. LastAt(w, k, 1) /\ 1 \in 1..Len(w)
    BY <1>1, <1>7, <2>1 DEF LastAt
  <2>3. w[1].pressed \in BOOLEAN
    BY <1>1 DEF Event
  <2>4. QED
    BY <2>2, <2>3 DEF LastPressed, LastReleased
<1>8. QED
  BY <1>1, <1>3, <1>5, <1>6, <1>7 DEF v

\* The way, as it is changed by the device goroutine and by the one that empties it.
LEMMA WayType ==
  ASSUME TypeOK
  PROVE  /\ Way \in Seq(Event)
         /\ KeysOf(Way) = KeysOf(taken) \cup KeysOf(queue)
         /\ OnTheWay = KeysOf(Way)
         /\ KeysOf(Way) \subseteq Keys
         /\ Way = <<>> <=> Quiet
<1>. DEFINE m == Len(taken)
            n == Len(queue)
<1>1. /\ taken \in Seq(Event) /\ queue \in Seq(Event) /\ m \in Nat /\ n \in Nat
      /\ Way \in Seq(Event) /\ Len(Way) = m + n
      /\ \A i \in 1..m : Way[i] = taken[i]
      /\ \A i \in 1..n : Way[m + i] = queue[i]
  BY DEF TypeOK, Way
<1>2. KeysOf(Way) \subseteq KeysOf(taken) \cup KeysOf(queue)
  <2>. SUFFICES ASSUME NEW k \in KeysOf(Way)
                PROVE  k \in KeysOf(taken) \/ k \in KeysOf(queue)
    OBVIOUS
  <2>1. PICK i \in 1..(m + n) : k = Way[i].key
    BY <1>1 DEF KeysOf
  <2>2. CASE i \in 1..m
    <3>1. k = taken[i].key
      BY <1>1, <2>1, <2>2
    <3>2. QED
      BY <2>2, <3>1 DEF KeysOf
  <2>3. CASE i \notin 1..m
    <3>1. PICK j \in 1..n : i = m + j
      <4>1. i - m \in 1..n /\ i = m + (i - m)
        BY <1>1, <2>1, <2>3
      <4>2. QED
        BY <4>1
    <3>2. Way[i] = queue[j]
      BY <1>1, <3>1
    <3>3. k = queue[j].key
      BY <2>1, <3>2
    <3>4. QED
      BY <3>3 DEF KeysOf
  <2>4. QED
    BY <2>2, <2>3
<1>3. KeysOf(taken) \cup KeysOf(queue) \subseteq KeysOf(Way)
  <2>1. ASSUME NEW i \in 1..m PROVE taken[i].key \in KeysOf(Way)
    <3>1. i \in 1..Len(Way) /\ Way[i] = taken[i]
      BY <1>1
    <3>2. QED
      BY <3>1 DEF KeysOf
  <2>2. ASSUME NEW i \in 1..n PROVE queue[i].key \in KeysOf(Way)
    <3>1. m + i \in 1..Len(Way) /\ Way[m + i] = queue[i]
      BY <1>1
    <3>2. QED
      BY <3>1 DEF KeysOf
  <2>3. QED
    BY <2>1, <2>2 DEF KeysOf
<1>4. OnTheWay = KeysOf(taken) \cup KeysOf(queue)
  <2>1. DOMAIN taken = 1..m /\ DOMAIN queue = 1..n
    BY <1>1
  <2>2. KeysOf(taken) \cup KeysOf(queue) \subseteq OnTheWay
    BY <2>1 DEF OnTheWay, KeysOf
  <2>3. OnTheWay \subseteq KeysOf(taken) \cup KeysOf(queue)
    BY <2>1 DEF OnTheWay, KeysOf
  <2>4. QED
    BY <2>2, <2>3
<1>5. KeysOf(Way) \subseteq Keys
  <2>1. \A i \in 1..Len(Way) : Way[i] \in Event
    BY <1>1
  <2>2. QED
    BY <2>1 DEF KeysOf, Event
<1>6. Way = <<>> <=> Quiet
  <2>1. Way = <<>> <=> m + n = 0
    BY <1>1
  <2>2. taken = <<>> <=> m = 0
    BY <1>1
  <2>3. queue = <<>> <=> n = 0
    BY <1>1
  <2>4. QED
    BY <1>1, <2>1, <2>2, <2>3 DEF Quiet
<1>7. QED
  BY <1>1, <1>2, <1>3, <1>4, <1>5, <1>6

-----------------------------------------------------------------------------
(* The device goroutine.                                                   *)

\* What ReadKey does to the way, to dropped and to followed.
ReadsKey(key, value) ==
  \/ /\ Way' = Way /\ taken' = taken /\ value = 1
     /\ dropped' = dropped /\ followed' = followed \ {key}
  \/ /\ Way' = Append(Way, [key |-> key, pressed |-> value > 0]) /\ taken' = taken
     /\ dropped' = dropped \ {key}
     /\ \/ target # Nobody /\ target = owner /\ followed' = followed \cup {key}
        \/ followed' = {}
  \/ /\ Way' = Way /\ taken' = taken
     /\ dropped' = dropped \cup {key} /\ followed' = followed \ {key}

LEMMA ReadKeyReads ==
  ASSUME TypeOK, NEW key \in Keys, NEW value \in 0..2, held' \subseteq Keys, ReadKey(key, value)
  PROVE  TypeOK' /\ ReadsKey(key, value) /\ UNCHANGED <<target, owner, beingControlled, keys, left>>
<1>. DEFINE e == [key |-> key, pressed |-> value > 0]
<1>1. UNCHANGED <<target, owner, beingControlled, taken, keys, left>>
  BY DEF ReadKey
<1>2. e \in Event
  <2>1. (value > 0) \in BOOLEAN
    OBVIOUS
  <2>2. QED
    BY <2>1 DEF Event
<1>3. ctrlPressed' \in BOOLEAN
  <2>1. (value = 1) \in BOOLEAN /\ ctrlPressed \in BOOLEAN
    BY DEF TypeOK
  <2>2. CASE key = Ctrl
    <3>1. ctrlPressed' = (value = 1)
      BY <2>2 DEF ReadKey
    <3>2. QED
      BY <2>1, <3>1
  <2>3. CASE key # Ctrl
    <3>1. ctrlPressed' = ctrlPressed
      BY <2>3 DEF ReadKey
    <3>2. QED
      BY <2>1, <3>1
  <2>4. QED
    BY <2>2, <2>3
<1>4. CASE IsChord(key, value)
  <2>1. chord' = "started" /\ followed' = followed \ {key} /\ UNCHANGED <<queue, dropped>>
    BY <1>4 DEF ReadKey
  <2>2. TypeOK'
    BY <1>1, <1>3, <2>1 DEF TypeOK
  <2>3. value = 1
    BY <1>4 DEF IsChord
  <2>4. QED
    BY <1>1, <2>1, <2>2, <2>3 DEF ReadsKey, Way
<1>5. CASE ~ IsChord(key, value) /\ HasRoom
  <2>1. SendEvent(key, value) /\ chord' = chord
    BY <1>5 DEF ReadKey
  <2>2. /\ queue' = Append(queue, e)
        /\ followed' = IF target # Nobody /\ target = owner THEN followed \cup {key} ELSE {}
        /\ dropped' = dropped \ {key}
    BY <1>5, <2>1 DEF SendEvent, Pressed, ReportsPressed
  <2>3. /\ queue' \in Seq(Event) /\ Len(queue') <= QueueSize
        /\ taken \o Append(queue, e) = Append(taken \o queue, e)
    <3>. HIDE DEF e
    <3>1. QED
      BY <1>2, <1>5, <2>2 DEF TypeOK, HasRoom
  <2>4. Way' = Append(Way, e)
    BY <1>1, <2>2, <2>3 DEF Way
  <2>5. TypeOK'
    BY <1>1, <1>3, <2>1, <2>2, <2>3 DEF TypeOK
  <2>6. QED
    BY <1>1, <2>2, <2>4, <2>5 DEF ReadsKey
<1>6. CASE ~ IsChord(key, value) /\ ~ HasRoom
  <2>1. SendEvent(key, value) /\ chord' = chord
    BY <1>6 DEF ReadKey
  <2>2. followed' = followed \ {key} /\ dropped' = dropped \cup {key} /\ queue' = queue
    BY <1>6, <2>1 DEF SendEvent
  <2>3. TypeOK'
    BY <1>1, <1>3, <2>1, <2>2 DEF TypeOK
  <2>4. QED
    BY <1>1, <2>2, <2>3 DEF ReadsKey, Way
<1>7. QED
  BY <1>4, <1>5, <1>6

LEMMA DeviceKeeps ==
  ASSUME IInv, NEW key \in Keys, NEW value \in 0..2,
         held' = IF value = 0 THEN held \ {key} ELSE held \cup {key},
         ReadKey(key, value)
  PROVE  IInv'
<1>. DEFINE e == [key |-> key, pressed |-> value > 0]
<1>1. TypeOK' /\ ReadsKey(key, value) /\ UNCHANGED <<target, owner, beingControlled, keys, left>>
  BY ReadKeyReads DEF IInv, TypeOK
<1>2. Way \in Seq(Event) /\ followed \subseteq Keys
  BY WayType DEF IInv, TypeOK
<1>3. e \in Event /\ e.key = key
      /\ (value # 0 => e.pressed = TRUE) /\ (value = 0 => e.pressed = FALSE)
  <2>1. (value > 0) \in BOOLEAN
    OBVIOUS
  <2>2. (value # 0 => (value > 0) = TRUE) /\ (value = 0 => (value > 0) = FALSE)
    OBVIOUS
  <2>3. e.key = key /\ e.pressed = (value > 0)
    OBVIOUS
  <2>4. e \in Event
    BY <2>1 DEF Event
  <2>. HIDE DEF e
  <2>5. QED
    BY <2>2, <2>3, <2>4, Zenon
<1>. HIDE DEF e
<1>4. TargetIsOwner' /\ StuckKeysWereHeld'
  BY <1>1 DEF IInv, TargetIsOwner, StuckKeysWereHeld
<1>5. ASSUME Way' = Way, taken' = taken, dropped' \in {dropped, dropped \cup {key}},
             value = 0 => dropped' = dropped \cup {key}, followed' = followed \ {key}
      PROVE  PressesAreHeld' /\ OwnersKeys' /\ FollowedKeys'
  <2>1. \A k \in Keys \ {key} : k \in held' <=> k \in held
    OBVIOUS
  <2>2. held \cup dropped \subseteq held' \cup dropped'
    BY <1>5
  <2>3. PressesAreHeld'
    BY <1>5, <2>2 DEF IInv, PressesAreHeld
  <2>4. OwnersKeys'
    BY <1>1, <1>5, <2>2 DEF IInv, OwnersKeys
  <2>5. FollowedKeys'
    BY <1>1, <1>2, <1>5, <2>1 DEF IInv, FollowedKeys
  <2>6. QED
    BY <2>3, <2>4, <2>5
<1>6. ASSUME Way' = Append(Way, e), taken' = taken, dropped' = dropped \ {key},
             \/ target # Nobody /\ target = owner /\ followed' = followed \cup {key}
             \/ followed' = {}
      PROVE  PressesAreHeld' /\ OwnersKeys' /\ FollowedKeys'
  <2>1. KeysOf(Way') = KeysOf(Way) \cup {key}
    BY <1>2, <1>3, <1>6, AppendLast
  <2>2. \A k \in Keys \ {key} : /\ k \in held' <=> k \in held
                                /\ k \in dropped' <=> k \in dropped
                                /\ LastPressed(Way', k) <=> LastPressed(Way, k)
                                /\ LastReleased(Way', k) <=> LastReleased(Way, k)
    BY <1>2, <1>3, <1>6, AppendLast
  <2>3. /\ LastPressed(Way', key) => value # 0
        /\ LastReleased(Way', key) => value = 0
    <3>1. /\ LastPressed(Way', key) <=> e.pressed = TRUE
          /\ LastReleased(Way', key) <=> e.pressed = FALSE
      BY <1>2, <1>3, <1>6, AppendLast
    <3>2. QED
      BY <1>3, <3>1
  <2>4. PressesAreHeld'
    <3>1. ASSUME NEW k \in Keys, LastPressed(Way', k) PROVE k \in held' \cup dropped'
      <4>1. CASE k = key
        BY <2>3, <3>1, <4>1
      <4>2. CASE k # key
        BY <2>2, <3>1, <4>2 DEF IInv, PressesAreHeld
      <4>3. QED
        BY <4>1, <4>2
    <3>2. QED
      BY <3>1 DEF PressesAreHeld
  <2>5. OwnersKeys'
    <3>1. held \cup dropped \cup KeysOf(Way) \subseteq held' \cup dropped' \cup KeysOf(Way')
      BY <1>6, <2>1
    <3>2. QED
      BY <1>1, <1>6, <3>1 DEF IInv, OwnersKeys
  <2>6. FollowedKeys'
    <3>1. ASSUME NEW k \in followed' 
          PROVE  /\ target' = owner' /\ owner' # Nobody
                 /\ LastPressed(Way', k) => k \in held'
                 /\ LastReleased(Way', k) => k \notin held'
                 /\ beingControlled'[owner'] /\ k \notin KeysOf(Way') =>
                      (k \in keys'[owner'] <=> k \in held')
      <4>1. target = owner /\ owner # Nobody /\ k \in Keys
        BY <1>2, <1>6, <3>1
      <4>2. CASE k = key
        BY <1>1, <2>1, <2>3, <4>1, <4>2
      <4>3. CASE k # key
        <5>1. k \in followed
          BY <1>6, <3>1, <4>3
        <5>2. QED
          BY <1>1, <2>1, <2>2, <4>1, <4>3, <5>1 DEF IInv, FollowedKeys
      <4>4. QED
        BY <4>2, <4>3
    <3>2. QED
      BY <3>1 DEF FollowedKeys
  <2>7. QED
    BY <2>4, <2>5, <2>6
<1>7. PressesAreHeld' /\ OwnersKeys' /\ FollowedKeys'
  BY <1>1, <1>5, <1>6 DEF ReadsKey, e
<1>8. QED
  BY <1>1, <1>4, <1>7 DEF IInv

-----------------------------------------------------------------------------
(* Control moves.                                                          *)

\* Leaves: what is left on the client covers what its keyboard holds down, and what is
\* with HandleInputEvent.
LEMMA LeavesAll ==
  ASSUME IInv, owner # Nobody, Leaves(owner)
  PROVE  /\ left' \in [Clients -> SUBSET Keys]
         /\ keys[owner] \cup KeysOf(taken) \subseteq left'[owner]
         /\ \A d \in Clients \ {owner} : left'[d] = left[d]
<1>1. /\ owner \in Clients /\ held \subseteq Keys /\ dropped \subseteq Keys
      /\ left \in [Clients -> SUBSET Keys]
  BY DEF IInv, TypeOK
<1>2. OnTheWay = KeysOf(Way) /\ KeysOf(Way) \subseteq Keys /\ KeysOf(taken) \subseteq KeysOf(Way)
  BY WayType DEF IInv
<1>3. left' = [left EXCEPT ![owner] =
                held \cup OnTheWay \cup dropped \cup (left[owner] \cap keys[owner])]
  BY DEF Leaves
<1>4. keys[owner] \subseteq held \cup OnTheWay \cup dropped \cup left[owner]
  BY <1>2 DEF IInv, TargetIsOwner, OwnersKeys
<1>5. QED
  BY <1>1, <1>2, <1>3, <1>4

LEMMA MoveKeeps ==
  ASSUME IInv, NEW c \in Clients \cup {Nobody}, c # owner, MoveControl(c),
         UNCHANGED <<deviceVars, queue, taken, keys>>,
         beingControlled' \in [Clients -> BOOLEAN],
         \A d \in Clients \ {c, owner} : beingControlled'[d] = beingControlled[d],
         chord' \in {"none", "started", "cleared"}
  PROVE  IInv'
<1>1. /\ owner' = c /\ target' = c /\ followed' = {} /\ Leaves(owner)
      /\ UNCHANGED <<held, ctrlPressed, dropped, queue, taken, keys>>
  BY DEF MoveControl, deviceVars
<1>2. /\ left' \in [Clients -> SUBSET Keys]
      /\ owner # Nobody => keys[owner] \subseteq left'[owner]
      /\ \A d \in Clients \ {owner} : left'[d] = left[d]
  <2>1. CASE owner = Nobody
    BY <1>1, <2>1 DEF Leaves, IInv, TypeOK
  <2>2. CASE owner # Nobody
    BY <1>1, <2>2, LeavesAll
  <2>3. QED
    BY <2>1, <2>2
<1>3. TypeOK'
  BY <1>1, <1>2 DEF IInv, TypeOK
<1>4. Way' = Way
  BY <1>1 DEF Way
<1>5. PressesAreHeld' /\ TargetIsOwner' /\ FollowedKeys'
  BY <1>1, <1>4 DEF IInv, PressesAreHeld, TargetIsOwner, FollowedKeys
<1>6. StuckKeysWereHeld'
  BY <1>1, <1>2 DEF IInv, TypeOK, StuckKeysWereHeld
<1>7. OwnersKeys'
  <2>1. c # Nobody => keys[c] \subseteq left'[c]
    BY <1>2 DEF IInv, StuckKeysWereHeld
  <2>2. QED
    BY <1>1, <2>1 DEF OwnersKeys
<1>8. QED
  BY <1>3, <1>5, <1>6, <1>7 DEF IInv

LEMMA DropKeeps ==
  ASSUME IInv, DropTarget, UNCHANGED <<deviceVars, owner, beingControlled, queue, taken, keys>>,
         chord' \in {"none", "started", "cleared"}
  PROVE  IInv'
<1>1. /\ target' = Nobody /\ followed' = {} /\ Leaves(owner)
      /\ UNCHANGED <<held, ctrlPressed, owner, beingControlled, dropped, queue, taken, keys>>
      /\ owner # Nobody
  BY DEF DropTarget, deviceVars, IInv, TargetIsOwner
<1>2. /\ left' \in [Clients -> SUBSET Keys]
      /\ keys[owner] \cup KeysOf(taken) \subseteq left'[owner]
      /\ \A d \in Clients \ {owner} : left'[d] = left[d]
  BY <1>1, LeavesAll
<1>3. TypeOK'
  BY <1>1, <1>2 DEF IInv, TypeOK
<1>4. Way' = Way
  BY <1>1 DEF Way
<1>5. PressesAreHeld' /\ TargetIsOwner' /\ FollowedKeys' /\ OwnersKeys'
  BY <1>1, <1>2, <1>4 DEF IInv, PressesAreHeld, TargetIsOwner, FollowedKeys, OwnersKeys
<1>6. StuckKeysWereHeld'
  BY <1>1, <1>2 DEF IInv, TypeOK, StuckKeysWereHeld
<1>7. QED
  BY <1>3, <1>5, <1>6 DEF IInv

\* The user of a client takes control back: if it is the one in control, the keys that its
\* keyboard holds down are left there.
LEMMA UserReleaseKeeps ==
  ASSUME IInv, NEW c \in Clients, UserReleases(c)
  PROVE  IInv'
<1>1. /\ beingControlled' = [beingControlled EXCEPT ![c] = FALSE]
      /\ c = owner => Leaves(owner)
      /\ c # owner => left' = left
      /\ UNCHANGED <<held, ctrlPressed, target, owner, chord, queue, taken, keys, followed, dropped>>
  BY DEF UserReleases, deviceVars
<1>2. c # Nobody
  OBVIOUS
<1>3. /\ left' \in [Clients -> SUBSET Keys]
      /\ c = owner => keys[owner] \cup KeysOf(taken) \subseteq left'[owner]
      /\ c # owner => left' = left
      /\ \A d \in Clients \ {c} : left'[d] = left[d]
  <2>1. CASE c = owner
    BY <1>1, <1>2, <2>1, LeavesAll
  <2>2. CASE c # owner
    BY <1>1, <2>2 DEF IInv, TypeOK
  <2>3. QED
    BY <2>1, <2>2
<1>4. /\ beingControlled' \in [Clients -> BOOLEAN] /\ ~beingControlled'[c]
      /\ \A d \in Clients \ {c} : beingControlled'[d] = beingControlled[d]
  <2>1. beingControlled \in [Clients -> BOOLEAN]
    BY DEF IInv, TypeOK
  <2>2. QED
    BY <1>1, <2>1
<1>5. TypeOK'
  BY <1>1, <1>3, <1>4 DEF IInv, TypeOK
<1>6. Way' = Way
  BY <1>1 DEF Way
<1>7. TargetIsOwner' /\ PressesAreHeld'
  BY <1>1, <1>6 DEF IInv, TargetIsOwner, PressesAreHeld
<1>8. OwnersKeys'
  <2>1. CASE c = owner
    BY <1>1, <1>3, <2>1 DEF OwnersKeys
  <2>2. CASE c # owner
    BY <1>1, <1>3, <1>6, <2>2 DEF IInv, OwnersKeys
  <2>3. QED
    BY <2>1, <2>2
<1>9. FollowedKeys'
  <2>1. ASSUME NEW k \in followed, beingControlled'[owner], k \notin KeysOf(Way)
        PROVE  k \in keys[owner] <=> k \in held
    <3>1. owner # c /\ owner \in Clients
      BY <1>4, <2>1 DEF IInv, TypeOK, FollowedKeys
    <3>2. QED
      BY <1>4, <2>1, <3>1 DEF IInv, FollowedKeys
  <2>2. QED
    BY <1>1, <1>6, <2>1 DEF IInv, FollowedKeys
<1>10. StuckKeysWereHeld'
  <2>1. ASSUME NEW d \in Clients, d # owner \/ ~beingControlled'[d]
        PROVE  keys[d] \subseteq left'[d]
    <3>1. CASE d = c
      BY <1>3, <3>1 DEF IInv, StuckKeysWereHeld
    <3>2. CASE d # c
      BY <1>3, <1>4, <2>1, <3>2 DEF IInv, StuckKeysWereHeld
    <3>3. QED
      BY <3>1, <3>2
  <2>2. QED
    BY <1>1, <2>1 DEF StuckKeysWereHeld
<1>11. QED
  BY <1>5, <1>7, <1>8, <1>9, <1>10 DEF IInv

\* The invariant does not look at the chord.
LEMMA ChordFrame ==
  ASSUME IInv, UNCHANGED <<deviceVars, target, owner, beingControlled, queue, taken, keys, historyVars>>,
         chord' \in {"none", "started", "cleared"}
  PROVE  IInv'
BY DEF IInv, TypeOK, TargetIsOwner, PressesAreHeld, OwnersKeys, FollowedKeys, StuckKeysWereHeld,
       Way, deviceVars, historyVars

-----------------------------------------------------------------------------
(* processEvents and HandleInputEvent.                                     *)

LEMMA TakeKeeps ==
  ASSUME IInv, Take
  PROVE  IInv'
<1>1. /\ queue \in Seq(Event) /\ queue # <<>> /\ taken = <<>>
      /\ queue' = Tail(queue)
      /\ UNCHANGED <<held, ctrlPressed, target, owner, chord, beingControlled, keys, followed, dropped,
                    left>>
  BY DEF Take, Rest, deviceVars, controlVars, historyVars, IInv, TypeOK
<1>2. /\ queue' \in Seq(Event) /\ Len(queue') <= QueueSize
      /\ Head(queue) \in Event /\ Way = queue
  BY <1>1 DEF IInv, TypeOK, Way
<1>3. TargetIsOwner' /\ StuckKeysWereHeld'
  BY <1>1 DEF IInv, TargetIsOwner, StuckKeysWereHeld
<1>4. CASE target = Nobody
  <2>1. taken' = <<>>
    BY <1>4 DEF Take
  <2>2. Way' = Tail(Way)
    BY <1>1, <1>2, <2>1 DEF Way
  <2>3. TypeOK'
    BY <1>1, <1>2, <2>1 DEF IInv, TypeOK
  <2>4. PressesAreHeld'
    BY <1>1, <1>2, <2>2, TailLast DEF IInv, PressesAreHeld
  <2>5. followed = {}
    BY <1>4 DEF IInv, FollowedKeys
  <2>6. KeysOf(taken') = {}
    BY <2>1 DEF KeysOf
  <2>7. OwnersKeys' /\ FollowedKeys'
    BY <1>1, <1>4, <2>5, <2>6 DEF IInv, OwnersKeys, FollowedKeys
  <2>8. QED
    BY <1>3, <2>3, <2>4, <2>7 DEF IInv
<1>5. CASE target # Nobody
  <2>1. taken' = <<Head(queue)>>
    BY <1>5 DEF Take
  <2>2. Way' = Way
    BY <1>1, <1>2, <2>1 DEF Way
  <2>3. TypeOK'
    BY <1>1, <1>2, <2>1 DEF IInv, TypeOK
  <2>4. PressesAreHeld' /\ OwnersKeys' /\ FollowedKeys'
    BY <1>1, <1>5, <2>2 DEF IInv, PressesAreHeld, OwnersKeys, FollowedKeys
  <2>5. QED
    BY <1>3, <2>3, <2>4 DEF IInv
<1>6. QED
  BY <1>4, <1>5

LEMMA HandleKeeps ==
  ASSUME IInv, HandleInputEvent
  PROVE  IInv'
<1>. DEFINE e == Head(taken)
<1>1. /\ taken' = <<>>
      /\ UNCHANGED <<held, ctrlPressed, target, owner, chord, beingControlled, queue, followed,
                    dropped, left>>
  BY DEF HandleInputEvent, deviceVars, controlVars, historyVars
<1>2. /\ Way \in Seq(Event) /\ Way # <<>> /\ e \in Event
      /\ Way' = Tail(Way) /\ Head(Way) = e /\ taken = <<e>>
  <2>1. taken \in Seq(Event) /\ Len(taken) <= 1 /\ taken # <<>> /\ queue \in Seq(Event)
    BY DEF IInv, TypeOK, HandleInputEvent
  <2>2. Len(taken) = 1 /\ taken = <<e>> /\ e \in Event
    <3>1. Len(taken) = 1
      <4>1. Len(taken) \in Nat /\ (taken = <<>> <=> Len(taken) = 0)
        BY <2>1
      <4>2. Len(taken) # 0 /\ Len(taken) <= 1
        BY <2>1, <4>1, Zenon
      <4>3. \A n \in Nat : n # 0 /\ n <= 1 => n = 1
        OBVIOUS
      <4>4. QED
        BY <4>1, <4>2, <4>3, Zenon
    <3>2. e = taken[1] /\ taken[1] \in Event
      BY <2>1, <3>1
    <3>. HIDE DEF e
    <3>3. taken = <<e>>
      BY <2>1, <3>1, <3>2
    <3>4. QED
      BY <3>1, <3>2, <3>3
  <2>. HIDE DEF e
  <2>3. Way = <<e>> \o queue /\ Way' = <<>> \o queue
    BY <1>1, <2>2 DEF Way
  <2>4. QED
    BY <2>1, <2>2, <2>3
<1>3. e.key \in KeysOf(taken) /\ KeysOf(taken') = {}
  <2>. HIDE DEF e
  <2>1. Len(taken) = 1 /\ taken[1] = e /\ Len(taken') = 0
    BY <1>1, <1>2
  <2>2. 1 \in 1..Len(taken) /\ 1..Len(taken') = {}
    BY <2>1
  <2>3. QED
    BY <2>1, <2>2 DEF KeysOf
<1>. HIDE DEF e
<1>4. /\ KeysOf(Way) = KeysOf(Way') \cup {e.key}
      /\ \A k \in Keys :
           /\ LastPressed(Way', k) => LastPressed(Way, k)
           /\ LastReleased(Way', k) => LastReleased(Way, k)
           /\ k \notin KeysOf(Way') /\ e.key = k =>
                \/ LastPressed(Way, k) /\ e.pressed = TRUE
                \/ LastReleased(Way, k) /\ e.pressed = FALSE
  BY <1>2, TailLast DEF Keys
<1>5. e.key \in Keys
  BY <1>2 DEF Event
<1>6. TargetIsOwner' /\ PressesAreHeld'
  BY <1>1, <1>4 DEF IInv, TargetIsOwner, PressesAreHeld
<1>7. CASE owner = Nobody
  <2>1. keys' = keys
    BY <1>7 DEF HandleInputEvent
  <2>2. TypeOK'
    BY <1>1, <2>1 DEF IInv, TypeOK
  <2>3. QED
    BY <1>1, <1>6, <1>7, <2>1, <2>2
    DEF IInv, OwnersKeys, FollowedKeys, StuckKeysWereHeld
<1>ignored. CASE owner # Nobody /\ ~beingControlled[owner]
  <2>1. keys' = keys /\ owner \in Clients
    BY <1>ignored DEF HandleInputEvent, ProcessInputEvent, IInv, TypeOK
  <2>2. TypeOK'
    BY <1>1, <2>1 DEF IInv, TypeOK
  <2>3. keys[owner] \subseteq left[owner]
    BY <1>ignored, <2>1 DEF IInv, StuckKeysWereHeld
  <2>4. OwnersKeys'
    BY <1>1, <1>3, <2>1, <2>3 DEF OwnersKeys
  <2>5. FollowedKeys'
    BY <1>1, <1>4, <1>ignored, <2>1 DEF IInv, TypeOK, FollowedKeys
  <2>6. StuckKeysWereHeld'
    BY <1>1, <2>1 DEF IInv, StuckKeysWereHeld
  <2>7. QED
    BY <1>6, <2>2, <2>4, <2>5, <2>6 DEF IInv
<1>8. CASE owner # Nobody /\ beingControlled[owner]
  <2>1. /\ owner \in Clients
        /\ keys' = [keys EXCEPT ![owner] =
                     IF e.pressed THEN keys[owner] \cup {e.key} ELSE keys[owner] \ {e.key}]
        /\ keys \in [Clients -> SUBSET Keys]
    BY <1>8 DEF HandleInputEvent, ProcessInputEvent, InjectKeyEvent, IInv, TypeOK, e
  <2>2. /\ keys' \in [Clients -> SUBSET Keys]
        /\ \A d \in Clients \ {owner} : keys'[d] = keys[d]
        /\ \A k \in keys'[owner] : k = e.key \/ k \in keys[owner]
        /\ \A k \in keys[owner] : k = e.key \/ k \in keys'[owner]
    BY <1>5, <2>1
  <2>3. /\ e.pressed = TRUE => e.key \in keys'[owner]
        /\ e.pressed = FALSE => e.key \notin keys'[owner]
    BY <2>1
  <2>4. TypeOK'
    BY <1>1, <2>2 DEF IInv, TypeOK
  <2>5. StuckKeysWereHeld'
    BY <1>1, <1>8, <2>2 DEF IInv, StuckKeysWereHeld
  <2>6. OwnersKeys'
    <3>1. ASSUME target = owner, NEW k \in keys'[owner]
          PROVE  k \in held \cup KeysOf(Way') \cup dropped \cup left[owner]
      <4>1. CASE k = e.key /\ k \notin KeysOf(Way')
        <5>1. e.pressed # FALSE
          BY <2>3, <3>1, <4>1
        <5>2. LastPressed(Way, k)
          BY <1>4, <1>5, <4>1, <5>1
        <5>3. QED
          BY <1>5, <4>1, <5>2 DEF IInv, PressesAreHeld
      <4>2. CASE k # e.key
        BY <1>4, <1>8, <2>2, <3>1, <4>2 DEF IInv, OwnersKeys
      <4>3. QED
        BY <4>1, <4>2
    <3>2. target = Nobody => keys'[owner] \subseteq left[owner]
      BY <1>3, <1>8, <2>2 DEF IInv, OwnersKeys
    <3>3. QED
      BY <1>1, <1>3, <3>1, <3>2 DEF OwnersKeys
  <2>7. FollowedKeys'
    <3>1. ASSUME NEW k \in followed
          PROVE  /\ target = owner
                 /\ LastPressed(Way', k) => k \in held
                 /\ LastReleased(Way', k) => k \notin held
                 /\ k \notin KeysOf(Way') => (k \in keys'[owner] <=> k \in held)
      <4>1. /\ target = owner /\ k \in Keys
            /\ LastPressed(Way, k) => k \in held
            /\ LastReleased(Way, k) => k \notin held
            /\ k \notin KeysOf(Way) => (k \in keys[owner] <=> k \in held)
        BY <1>8 DEF IInv, TypeOK, FollowedKeys
      <4>2. ASSUME k \notin KeysOf(Way') PROVE k \in keys'[owner] <=> k \in held
        <5>1. CASE k = e.key
          BY <1>4, <2>3, <4>1, <4>2, <5>1
        <5>2. CASE k # e.key
          BY <1>4, <2>2, <4>1, <4>2, <5>2
        <5>3. QED
          BY <5>1, <5>2
      <4>3. QED
        BY <1>4, <4>1, <4>2
    <3>2. QED
      BY <1>1, <1>8, <3>1 DEF FollowedKeys
  <2>8. QED
    BY <1>6, <2>4, <2>5, <2>6, <2>7 DEF IInv
<1>9. QED
  BY <1>7, <1>ignored, <1>8

-----------------------------------------------------------------------------

LEMMA IInvInit == Init => IInv
<1>. SUFFICES ASSUME Init PROVE IInv
  OBVIOUS
<1>1. TypeOK
  <2>1. <<>> \in Seq(Event) /\ Len(<<>>) = 0 /\ 0 <= QueueSize /\ 0 <= 1
    OBVIOUS
  <2>2. ctrlPressed \in BOOLEAN
    BY DEF Init
  <2>3. QED
    BY <2>1, <2>2 DEF Init, TypeOK
<1>2. Way = <<>>
  BY DEF Init, Way
<1>3. \A k \in Keys : ~ LastPressed(Way, k)
  BY <1>2 DEF LastPressed
<1>4. QED
  BY <1>1, <1>3 DEF Init, IInv, TargetIsOwner, PressesAreHeld, OwnersKeys, FollowedKeys,
                    StuckKeysWereHeld

LEMMA IInvNext == IInv /\ [Next]_vars => IInv'
<1>. SUFFICES ASSUME IInv, [Next]_vars PROVE IInv'
  OBVIOUS
<1>1. ASSUME NEW key \in Keys, Press(key) PROVE IInv'
  BY <1>1, DeviceKeeps DEF Press
<1>2. ASSUME NEW key \in Keys, Repeat(key) PROVE IInv'
  <2>1. held' = held \cup {key} /\ ReadKey(key, 2)
    BY <1>2 DEF Repeat
  <2>2. QED
    BY <2>1, DeviceKeeps
<1>3. ASSUME NEW key \in Keys, Release(key) PROVE IInv'
  BY <1>3, DeviceKeeps DEF Release
<1>4. chord \in {"none", "started", "cleared"}
  BY DEF IInv, TypeOK
<1>status. beingControlled \in [Clients -> BOOLEAN]
  BY DEF IInv, TypeOK
<1>5. ASSUME NEW c \in Clients, SwitchToClient(c) PROVE IInv'
  <2>1. /\ beingControlled' \in [Clients -> BOOLEAN]
        /\ \A d \in Clients \ {c, owner} : beingControlled'[d] = beingControlled[d]
    BY <1>5, <1>status DEF SwitchToClient
  <2>2. QED
    BY <1>4, <1>5, <2>1, MoveKeeps DEF SwitchToClient
<1>returned. ASSUME Return
             PROVE  /\ beingControlled' \in [Clients -> BOOLEAN]
                    /\ \A d \in Clients \ {Nobody, owner} : beingControlled'[d] = beingControlled[d]
  BY <1>returned, <1>status DEF Return
<1>6. CASE SwitchToLocal
  BY <1>4, <1>6, <1>returned, MoveKeeps DEF SwitchToLocal, Return
<1>user. ASSUME NEW c \in Clients, UserReleases(c) PROVE IInv'
  BY <1>user, UserReleaseKeeps
<1>7. CASE TimerCallback
  BY <1>4, <1>7, DropKeeps DEF TimerCallback
<1>8. CASE ChordClears
  BY <1>8, DropKeeps, ChordFrame DEF ChordClears
<1>9. CASE ChordEnds
  BY <1>9, <1>returned, MoveKeeps, ChordFrame DEF ChordEnds, Return
<1>10. CASE Take
  BY <1>10, TakeKeeps
<1>11. CASE HandleInputEvent
  BY <1>11, HandleKeeps
<1>12. CASE UNCHANGED vars
  BY <1>4, <1>12, ChordFrame DEF vars, controlVars
<1>13. QED
  BY <1>1, <1>2, <1>3, <1>5, <1>6, <1>user, <1>7, <1>8, <1>9, <1>10, <1>11, <1>12 DEF Next

\* The inductive invariant: types, and what the events on the way mean for the keys that
\* are held, followed, dropped and left.
THEOREM KeyPathInvariant == Spec => []IInv
<1>1. QED
  BY IInvInit, IInvNext, PTL DEF Spec

\* processEvents, HandleInputEvent and processInputEvent: the keyboard of the client in
\* control, whose user has not taken it back, follows the real one, whatever the capacity of
\* eventChan and however often control moved or was taken back before.
THEOREM OwnersKeyboardFollows == Spec => []KeyboardFollows
<1>1. IInv => KeyboardFollows
  <2>1. SUFFICES ASSUME IInv, NEW c \in Clients, owner = c, target = c, beingControlled[c], Quiet,
                        NEW key \in followed
                 PROVE  key \in keys[c] <=> key \in held
    BY DEF KeyboardFollows
  <2>2. Way = <<>>
    BY <2>1, WayType DEF IInv
  <2>3. KeysOf(Way) = {}
    BY <2>2 DEF KeysOf
  <2>4. QED
    BY <2>1, <2>3 DEF IInv, FollowedKeys
<1>2. QED
  BY <1>1, KeyPathInvariant, PTL

\* SwitchToClient, SwitchToLocal, the safety timer, the chord and the client's own
\* RequestControlRelease: a key that is stuck on a client was held or on the way when control
\* left it or was taken back, or its event was dropped by the full channel.
THEOREM OnlyHeldKeysStick == Spec => []StuckKeysWereHeld
<1>1. IInv => StuckKeysWereHeld
  BY DEF IInv
<1>2. QED
  BY <1>1, KeyPathInvariant, PTL
=============================================================================
