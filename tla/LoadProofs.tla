------------------------------ MODULE LoadProofs ------------------------------
(***************************************************************************)
(* The safety of the load generator (backend/loadgen/app.py) for any       *)
(* number of runs, callers, permits and requests, any limits and rates.    *)
(***************************************************************************)
EXTENDS LoadGenerator, FiniteSetTheorems, TLAPS

Granted == {p \in Runs : producer[p].pc = "granted"}
Dead(p) == producer[p].pc \in {"none", "done"}

\* The shape of the state without the bound on the free permits, which follows
\* from SlotsAccounted.
Shape ==
  /\ run \in 0 .. MaxRuns /\ running \in BOOLEAN /\ client \in BOOLEAN
  /\ overlap \in BOOLEAN
  /\ cap \in Caps \union {NoCap} /\ rate \in Rates \union {0}
  /\ wake \in [Runs -> BOOLEAN]
  /\ count \in Counters
  /\ producer \in [Runs -> ProducerState]
  /\ slots \in Nat /\ updates \in 0 .. MaxUpdates
  /\ inflight \subseteq Request /\ IsFiniteSet(inflight)
  /\ stopper \in [Callers -> [pc : {"idle", "join", "drain"}, run : 0 .. MaxRuns,
                              waits : SUBSET (Runs \X (Nat \ {0}))]]
  /\ running => run \in Runs

\* A request in flight belongs to the run and was counted: its number is not used
\* again as long as it is there.
Numbered == \A q \in inflight : q.run = run /\ q.sequence <= count.attempted

\* The producers of later runs do not exist yet.
Unstarted == \A p \in Runs : p > run => producer[p].pc = "none"

\* Whoever is suspended finds a run that has not reached its limit.
RoomWhenSuspended == running /\ LoopFree => ~CapReached

\* Without overlapping calls: a stop() that is pending has stopped the run that is
\* current, nobody but that run's producer is alive, and once the run is stopped
\* somebody waits for it.
Solo ==
  ~overlap =>
    /\ \A p \in Runs : ~Dead(p) => p = run
    /\ Pending # {} => ~running
    /\ \A s \in Callers : stopper[s].pc = "join" => stopper[s].run = run
    /\ \A p \in Runs : ~Dead(p) /\ ~running => \E s \in Callers : stopper[s].pc = "join"

\* Without overlapping calls: wherever the producer is, it will not go to sleep on
\* an old rate: a send is due first, or the wake event is still set.
Fresh ==
  ~overlap => \A p \in Runs :
    LET P == producer[p] IN
    /\ P.pc \in {"new", "loop"} => P.due \/ P.pace = rate \/ wake[run]
    /\ P.pc \in {"slot", "granted"} => P.pace = rate \/ wake[run]
    /\ P.pc = "sleep" => P.pace = rate /\ P.rate = rate /\ P.event = run
    /\ P.pc = "woken" => wake[run]

\* Without overlapping calls: what a stop() waits for is all there is, and the
\* shutdown waits for the producers before it waits for the requests.
Draining ==
  ~overlap =>
    /\ \A s \in Callers : stopper[s].pc = "drain" =>
         \A q \in inflight : <<q.run, q.sequence>> \in stopper[s].waits
    /\ stopper[Closer].pc = "drain" => \A p \in Runs : Dead(p)
    /\ stopper[Closer].pc # "idle" => Pending = {Closer}
    /\ ~client => inflight = {} /\ ~running /\ \A p \in Runs : Dead(p)

LoadInv == /\ Shape /\ SlotsAccounted /\ CountersAddUp /\ Numbered
           /\ CapRespected /\ RoomWhenSuspended /\ Unstarted
           /\ Solo /\ Fresh /\ Draining

--------------------------------------------------------------------------------
\* Records and counts.

Places == {"none", "new", "loop", "sleep", "woken", "slot", "granted", "done"}

\* The fields of a producer's record.
Is(r, pc, due, pace, rate_per_second, event) ==
  /\ r \in ProducerState
  /\ r.pc = pc /\ r.due = due /\ r.pace = pace /\ r.rate = rate_per_second /\ r.event = event

\* Updates of a producer's record.
LEMMA RecordPc ==
  ASSUME NEW r \in ProducerState, NEW pc \in Places
  PROVE  Is([r EXCEPT !.pc = pc], pc, r.due, r.pace, r.rate, r.event)
  BY DEF ProducerState, Places, Is

LEMMA RecordDue ==
  ASSUME NEW r \in ProducerState, NEW pc \in Places, NEW due \in BOOLEAN
  PROVE  Is([r EXCEPT !.pc = pc, !.due = due], pc, due, r.pace, r.rate, r.event)
  BY DEF ProducerState, Places, Is

LEMMA RecordPace ==
  ASSUME NEW r \in ProducerState, NEW k \in Rates \union {0}
  PROVE  Is([r EXCEPT !.pace = k, !.rate = k], r.pc, r.due, k, k, r.event)
  BY DEF ProducerState, Is

LEMMA RecordSleep ==
  ASSUME NEW r \in ProducerState, NEW pc \in Places, NEW k \in Rates \union {0},
         NEW e \in 0 .. MaxRuns
  PROVE  Is([r EXCEPT !.pc = pc, !.rate = k, !.event = e], pc, r.due, r.pace, k, e)
  BY DEF ProducerState, Places, Is

\* Producers with the permit in hand, for a given state of the producers.
Holders(prod) == {p \in Runs : prod[p].pc = "granted"}

LEMMA HoldersFinite ==
  ASSUME NEW prod
  PROVE  IsFiniteSet(Holders(prod)) /\ Cardinality(Holders(prod)) \in Nat
<1>1. IsFiniteSet(Runs)
  BY FS_Interval, LoadAssumption DEF Runs
<1>. QED  BY <1>1, FS_Subset, FS_CardinalityType DEF Holders

\* One producer changes: the number of holders with it.
LEMMA HoldersChange ==
  ASSUME NEW a, NEW b, NEW p \in Runs,
         \A r \in Runs \ {p} : a[r].pc = "granted" <=> b[r].pc = "granted"
  PROVE  /\ a[p].pc = "granted" /\ b[p].pc # "granted" =>
              Cardinality(Holders(b)) = Cardinality(Holders(a)) - 1
         /\ a[p].pc # "granted" /\ b[p].pc = "granted" =>
              Cardinality(Holders(b)) = Cardinality(Holders(a)) + 1
         /\ (a[p].pc = "granted" <=> b[p].pc = "granted") => Holders(b) = Holders(a)
<1>1. CASE a[p].pc = "granted" /\ b[p].pc # "granted"
  <2>1. Holders(b) = Holders(a) \ {p} /\ p \in Holders(a)
    BY <1>1 DEF Holders
  <2>2. Cardinality(Holders(b)) = Cardinality(Holders(a)) - 1
    BY <2>1, HoldersFinite, FS_RemoveElement
  <2>. QED  BY <1>1, <2>2
<1>2. CASE a[p].pc # "granted" /\ b[p].pc = "granted"
  <2>1. Holders(b) = Holders(a) \union {p} /\ p \notin Holders(a)
    BY <1>2 DEF Holders
  <2>2. Cardinality(Holders(b)) = Cardinality(Holders(a)) + 1
    BY <2>1, HoldersFinite, FS_AddElement
  <2>. QED  BY <1>2, <2>2
<1>3. CASE a[p].pc = "granted" <=> b[p].pc = "granted"
  <2>1. Holders(b) = Holders(a)
    BY <1>3 DEF Holders
  <2>. QED  BY <1>3, <2>1
<1>. QED  BY <1>1, <1>2, <1>3

\* The same producer, but for a permit it was waiting for and has been handed.
Kin(a, b) ==
  /\ b.pc = a.pc \/ (a.pc = "slot" /\ b.pc = "granted")
  /\ b.due = a.due /\ b.pace = a.pace /\ b.rate = a.rate /\ b.event = a.event

\* Semaphore.release(): one permit more, free or in the hands of a producer.
LEMMA ReleaseSlot ==
  ASSUME NEW free \in Nat, NEW prod \in [Runs -> ProducerState], release_slot(free, prod)
  PROVE  /\ producer' \in [Runs -> ProducerState] /\ slots' \in Nat
         /\ \A r \in Runs : Kin(prod[r], producer'[r])
         /\ slots' + Cardinality(Holders(producer')) = free + 1 + Cardinality(Holders(prod))
<1>1. Cardinality(Holders(prod)) \in Nat
  BY HoldersFinite
<1>2. ASSUME NEW p \in Runs, prod[p].pc = "slot", slots' = free,
             producer' = [prod EXCEPT ![p].pc = "granted"]
      PROVE  /\ producer' \in [Runs -> ProducerState] /\ slots' \in Nat
             /\ \A r \in Runs : Kin(prod[r], producer'[r])
             /\ slots' + Cardinality(Holders(producer')) = free + 1 + Cardinality(Holders(prod))
  <2>. DEFINE P == [prod[p] EXCEPT !.pc = "granted"]
  <2>1. Is(P, "granted", prod[p].due, prod[p].pace, prod[p].rate, prod[p].event)
    BY RecordPc DEF Places
  <2>2. producer' = [prod EXCEPT ![p] = P]
    BY <1>2
  <2>. HIDE DEF P
  <2>3. producer' \in [Runs -> ProducerState] /\ producer'[p] = P
        /\ \A r \in Runs \ {p} : producer'[r] = prod[r]
    BY <2>1, <2>2 DEF Is
  <2>4. Cardinality(Holders(producer')) = Cardinality(Holders(prod)) + 1
    <3>1. prod[p].pc # "granted" /\ producer'[p].pc = "granted"
      BY <1>2, <2>1, <2>3 DEF Is
    <3>. QED  BY <2>3, <3>1, HoldersChange
  <2>5. \A r \in Runs : Kin(prod[r], producer'[r])
    BY <1>2, <2>1, <2>3 DEF Kin, Is
  <2>. QED  BY <1>1, <1>2, <2>3, <2>4, <2>5
<1>3. CASE producer' = prod /\ slots' = free + 1
  BY <1>1, <1>3 DEF Kin
<1>. QED  BY <1>2, <1>3 DEF release_slot

\* A request more in flight, and one that is answered.
LEMMA SendingChange ==
  ASSUME NEW F, F \subseteq Request, IsFiniteSet(F), NEW q \in Request,
         NEW d, d = [q EXCEPT !.done = TRUE]
  PROVE  LET Open(S) == {x \in S : ~x.done} IN
         /\ Cardinality(Open(F)) \in Nat
         /\ q \notin F /\ ~q.done => Cardinality(Open(F \union {q})) = Cardinality(Open(F)) + 1
         /\ q \in F /\ ~q.done =>
              Cardinality(Open((F \ {q}) \union {d})) = Cardinality(Open(F)) - 1
         /\ q \in F /\ q.done => Open(F \ {q}) = Open(F)
         /\ d \in Request /\ d.run = q.run /\ d.sequence = q.sequence /\ d.done
         /\ IsFiniteSet(F \union {q}) /\ IsFiniteSet((F \ {q}) \union {d}) /\ IsFiniteSet(F \ {q})
<1>. DEFINE Open(S) == {x \in S : ~x.done}
<1>1. d \in Request /\ d.run = q.run /\ d.sequence = q.sequence /\ d.done
  BY DEF Request
<1>2. IsFiniteSet(Open(F)) /\ Cardinality(Open(F)) \in Nat
  BY FS_Subset, FS_CardinalityType
<1>3. ASSUME q \notin F, ~q.done PROVE Cardinality(Open(F \union {q})) = Cardinality(Open(F)) + 1
  <2>1. Open(F \union {q}) = Open(F) \union {q} /\ q \notin Open(F)
    BY <1>3
  <2>. QED  BY <1>2, <2>1, FS_AddElement
<1>4. ASSUME q \in F, ~q.done
      PROVE  Cardinality(Open((F \ {q}) \union {d})) = Cardinality(Open(F)) - 1
  <2>1. Open((F \ {q}) \union {d}) = Open(F) \ {q} /\ q \in Open(F)
    BY <1>1, <1>4
  <2>. QED  BY <1>2, <2>1, FS_RemoveElement
<1>5. q \in F /\ q.done => Open(F \ {q}) = Open(F)
  OBVIOUS
<1>6. /\ IsFiniteSet(F \union {q}) /\ IsFiniteSet(F \ {q})
      /\ IsFiniteSet((F \ {q}) \union {d})
  <2>1. IsFiniteSet(F \ {q})
    BY FS_RemoveElement, FS_Subset
  <2>. QED  BY <2>1, FS_AddElement
<1>. QED  BY <1>1, <1>2, <1>3, <1>4, <1>5, <1>6

--------------------------------------------------------------------------------
\* The producers.

\* The part of the invariant that counts.
Book == Shape /\ SlotsAccounted /\ CountersAddUp /\ Numbered

LEMMA CountTypes ==
  ASSUME Shape
  PROVE  /\ count.attempted \in Nat /\ count.created \in Nat /\ count.reused \in Nat
         /\ count.failed \in Nat /\ Cardinality(Sending) \in Nat
         /\ Cardinality(Holders(producer)) \in Nat
         /\ IsFiniteSet(Sending)
<1>1. IsFiniteSet(Sending)
  BY FS_Subset DEF Shape, Sending
<1>. QED  BY <1>1, FS_CardinalityType, HoldersFinite DEF Shape, Counters

\* The permits in the hands of other producers than p.
OtherHolders(p) == {r \in Runs \ {p} : producer[r].pc = "granted"}

LEMMA OthersHold ==
  ASSUME Shape, NEW p \in Runs
  PROVE  /\ Cardinality(OtherHolders(p)) \in Nat
         /\ Cardinality(Holders(producer)) =
              Cardinality(OtherHolders(p)) + (IF producer[p].pc = "granted" THEN 1 ELSE 0)
<1>1. OtherHolders(p) = Holders(producer) \ {p} /\ (p \in Holders(producer) <=> producer[p].pc = "granted")
  BY DEF OtherHolders, Holders
<1>2. IsFiniteSet(Holders(producer)) /\ Cardinality(Holders(producer)) \in Nat
  BY HoldersFinite
<1>3. /\ IsFiniteSet(OtherHolders(p))
      /\ Cardinality(OtherHolders(p)) = IF p \in Holders(producer)
           THEN Cardinality(Holders(producer)) - 1 ELSE Cardinality(Holders(producer))
  BY <1>1, <1>2, FS_RemoveElement
<1>4. Cardinality(OtherHolders(p)) \in Nat
  BY <1>3, FS_CardinalityType
<1>. QED  BY <1>1, <1>2, <1>3, <1>4

\* What launch does, for a producer p that has one of the permits that are not free:
\* it counts and sends one request, or gives the permit back.
LEMMA LaunchStep ==
  ASSUME Book, UNCHANGED <<run, cap, rate, stopper, client, updates, overlap, running, wake>>,
         NEW p \in Runs, NEW free \in Nat, NEW paced \in ProducerState,
         launch(p, free, paced),
         free + Cardinality(Sending) + Cardinality(OtherHolders(p)) + 1 = MaxInflight
  PROVE  /\ Book'
         /\ producer'[p].pc = "loop" /\ producer'[p].pace = paced.pace
         /\ \A r \in Runs \ {p} : Kin(producer[r], producer'[r])
         /\ running => count'.attempted = count.attempted + 1
         /\ ~running => UNCHANGED <<count, inflight>>
<1>1. CASE ~running
  <2>. DEFINE P == [paced EXCEPT !.pc = "loop", !.due = FALSE]
              prod == [producer EXCEPT ![p] = P]
  <2>1. Is(P, "loop", FALSE, paced.pace, paced.rate, paced.event)
    BY RecordDue DEF Places
  <2>2. prod \in [Runs -> ProducerState] /\ prod[p] = P
        /\ \A r \in Runs \ {p} : prod[r] = producer[r]
    BY <2>1 DEF Is, Book, Shape
  <2>3. release_slot(free, prod) /\ UNCHANGED <<count, inflight>>
    BY <1>1 DEF launch
  <2>. HIDE DEF P, prod
  <2>4. /\ producer' \in [Runs -> ProducerState] /\ slots' \in Nat
        /\ \A r \in Runs : Kin(prod[r], producer'[r])
        /\ slots' + Cardinality(Holders(producer')) = free + 1 + Cardinality(OtherHolders(p))
    <3>1. Holders(prod) = OtherHolders(p)
      BY <2>1, <2>2 DEF Is, Holders, OtherHolders
    <3>. QED  BY <2>2, <2>3, <3>1, ReleaseSlot
  <2>5. /\ producer'[p].pc = "loop" /\ producer'[p].pace = paced.pace
        /\ \A r \in Runs \ {p} : Kin(producer[r], producer'[r])
    BY <2>1, <2>2, <2>4 DEF Kin, Is
  <2>6. SlotsAccounted'
    <3>1. Cardinality(Sending)' = Cardinality(Sending)
      BY <2>3 DEF Sending
    <3>2. Cardinality(Holders(producer')) \in Nat /\ Cardinality(Sending) \in Nat
      BY HoldersFinite, CountTypes DEF Book
    <3>3. slots' + Cardinality(Sending)' + Cardinality(Holders(producer')) = MaxInflight
      BY <2>4, <3>1, <3>2, OthersHold DEF Book, Shape
    <3>. QED  BY <3>3 DEF SlotsAccounted, Holders
  <2>7. Shape' /\ CountersAddUp' /\ Numbered'
    BY <2>3, <2>4 DEF Book, Shape, CountersAddUp, Numbered, Sending
  <2>. QED  BY <1>1, <2>3, <2>5, <2>6, <2>7 DEF Book
<1>2. CASE running
  <2>. DEFINE sequence == count.attempted + 1
              q == [run |-> run, sequence |-> sequence, done |-> FALSE]
  <2>1. Send(p, free, paced)
    BY <1>2 DEF launch
  <2>2. PICK due \in BOOLEAN :
          producer' = [producer EXCEPT ![p] = [paced EXCEPT !.pc = "loop", !.due = due]]
    BY <2>1 DEF Send, TimerMayFire
  <2>. DEFINE P == [paced EXCEPT !.pc = "loop", !.due = due]
  <2>3. Is(P, "loop", due, paced.pace, paced.rate, paced.event)
    BY RecordDue DEF Places
  <2>4. producer' = [producer EXCEPT ![p] = P]
    BY <2>2
  <2>. HIDE DEF P
  <2>5. producer' \in [Runs -> ProducerState] /\ producer'[p] = P
        /\ \A r \in Runs \ {p} : producer'[r] = producer[r]
    BY <2>3, <2>4 DEF Is, Book, Shape
  <2>6. /\ count' \in Counters /\ count'.attempted = sequence /\ count'.created = count.created
        /\ count'.reused = count.reused /\ count'.failed = count.failed
        /\ inflight' = inflight \union {q} /\ slots' = free
    BY <2>1 DEF Send, Book, Shape, Counters
  <2>7. q \in Request /\ q \notin inflight /\ ~q.done
    <3>1. run \in Runs /\ sequence \in Nat \ {0} /\ sequence > count.attempted
      BY <1>2, CountTypes DEF Book, Shape
    <3>. QED  BY <3>1, CountTypes DEF Book, Request, Numbered
  <2>8. Cardinality(Sending') = Cardinality(Sending) + 1 /\ IsFiniteSet(inflight')
    <3>1. inflight \subseteq Request /\ IsFiniteSet(inflight)
      BY DEF Book, Shape
    <3>2. Sending' = Sending \union {q} /\ q \notin Sending
      BY <2>6, <2>7 DEF Sending
    <3>. HIDE DEF q
    <3>. QED  BY <2>6, <3>1, <3>2, CountTypes, FS_AddElement DEF Book
  <2>9. Shape'
    BY <2>5, <2>6, <2>7, <2>8 DEF Book, Shape
  <2>10. SlotsAccounted'
    <3>1. Holders(producer') = OtherHolders(p)
      BY <2>3, <2>5 DEF Is, Holders, OtherHolders
    <3>2. slots' + Cardinality(Sending') + Cardinality(Holders(producer')) = MaxInflight
      BY <2>6, <2>8, <3>1, CountTypes, OthersHold DEF Book, Shape
    <3>. QED  BY <3>2 DEF SlotsAccounted, Holders
  <2>11. CountersAddUp' /\ Numbered'
    <3>1. count'.attempted = count'.created + count'.reused + count'.failed + Cardinality(Sending')
      <4>1. count.attempted = count.created + count.reused + count.failed + Cardinality(Sending)
        BY DEF Book, CountersAddUp
      <4>2. /\ count.attempted \in Nat /\ count.created \in Nat /\ count.reused \in Nat
            /\ count.failed \in Nat /\ Cardinality(Sending) \in Nat
        BY CountTypes DEF Book
      <4>. QED  BY <2>6, <2>8, <4>1, <4>2
    <3>2. \A x \in inflight' : x.run = run /\ x.sequence <= sequence
      BY <2>6, <2>7, CountTypes DEF Book, Shape, Numbered, Request
    <3>. QED  BY <2>6, <3>1, <3>2 DEF CountersAddUp, Numbered
  <2>12. \A r \in Runs \ {p} : Kin(producer[r], producer'[r])
    BY <2>5 DEF Kin
  <2>. QED  BY <1>2, <2>3, <2>5, <2>6, <2>9, <2>10, <2>11, <2>12 DEF Book, Is
<1>. QED  BY <1>1, <1>2

\* What Fresh says of one producer.
FreshAt(P, set) ==
  /\ P.pc \in {"new", "loop"} => P.due \/ P.pace = rate \/ set
  /\ P.pc \in {"slot", "granted"} => P.pace = rate \/ set
  /\ P.pc = "sleep" => P.pace = rate /\ P.rate = rate /\ P.event = run
  /\ P.pc = "woken" => set

\* What every step of producer p comes to: it sends at most one request, and only
\* in a run that is on and below its limit; it ends the run only with itself; of the
\* other producers one may be handed a permit.
ProducerEffect(p) ==
  /\ UNCHANGED <<run, cap, rate, stopper, client, updates, overlap>>
  /\ Book'
  /\ ~Dead(p) /\ \A r \in Runs \ {p} : Kin(producer[r], producer'[r])
  /\ running' = running \/ (~running' /\ producer'[p].pc = "done")
  /\ \/ UNCHANGED <<count, inflight>>
     \/ running /\ ~CapReached /\ count'.attempted = count.attempted + 1
  /\ \/ producer'[p].pc = "loop"
     \/ UNCHANGED count /\ (~running' \/ ~CapReached)
  /\ ~overlap => FreshAt(producer'[p], wake'[run])

LEMMA EffectKeepsInv ==
  ASSUME LoadInv, NEW p \in Runs, ProducerEffect(p)
  PROVE  LoadInv'
<1>1. \A r \in Runs \ {p} : Dead(r)' <=> Dead(r)
  BY DEF ProducerEffect, Kin, Dead
<1>2. CapRespected'
  <2>1. CASE UNCHANGED count
    BY <2>1 DEF LoadInv, CapRespected, ProducerEffect
  <2>2. CASE ~CapReached /\ count'.attempted = count.attempted + 1
    <3>. SUFFICES ASSUME cap # NoCap PROVE count'.attempted <= cap
      BY DEF CapRespected, ProducerEffect
    <3>1. cap \in Nat /\ count.attempted \in Nat
      BY LoadAssumption, CountTypes DEF LoadInv, Shape
    <3>. QED  BY <2>2, <3>1 DEF CapReached
  <2>. QED  BY <2>1, <2>2 DEF ProducerEffect
<1>3. RoomWhenSuspended'
  BY DEF RoomWhenSuspended, LoopFree, CapReached, ProducerEffect
<1>4. ASSUME ~overlap PROVE p = run /\ \A r \in Runs \ {p} : Dead(r) /\ Dead(r)'
  BY <1>1, <1>4 DEF LoadInv, Solo, ProducerEffect
<1>5. Solo'
  BY <1>1, <1>4 DEF LoadInv, Solo, ProducerEffect, Pending, Dead
<1>6. Fresh'
  <2>. SUFFICES ASSUME ~overlap, NEW r \in Runs
                PROVE  FreshAt(producer'[r], wake'[run])
    BY DEF Fresh, FreshAt, ProducerEffect
  <2>1. CASE r = p
    BY <2>1 DEF ProducerEffect
  <2>2. CASE r # p
    BY <1>4, <2>2 DEF Dead, FreshAt
  <2>. QED  BY <2>1, <2>2
<1>7. Draining'
  <2>. SUFFICES ASSUME ~overlap PROVE Draining'
    BY DEF Draining, ProducerEffect
  <2>1. stopper[Closer].pc # "drain" /\ client
    BY DEF LoadInv, Draining, ProducerEffect
  <2>2. CASE running
    <3>1. Pending = {}
      BY <2>2 DEF LoadInv, Solo
    <3>. QED  BY <2>1, <3>1 DEF Draining, ProducerEffect, Pending, Callers
  <2>3. CASE ~running
    <3>1. inflight' = inflight
      BY <2>3 DEF ProducerEffect
    <3>. QED  BY <2>1, <3>1 DEF LoadInv, Draining, ProducerEffect, Pending
  <2>. QED  BY <2>2, <2>3
<1>8. Unstarted'
  BY DEF LoadInv, Unstarted, ProducerEffect, Dead, Kin
<1>. QED  BY <1>2, <1>3, <1>5, <1>6, <1>7, <1>8 DEF LoadInv, ProducerEffect, Book

\* A step that moves producer p and no permit.
LEMMA QuietMove ==
  ASSUME Book, NEW p \in Runs, NEW P \in ProducerState,
         producer' = [producer EXCEPT ![p] = P],
         producer[p].pc # "granted", P.pc # "granted",
         UNCHANGED <<run, cap, rate, stopper, client, updates, overlap, count, slots, inflight>>,
         running' \in BOOLEAN, running' => running, wake' \in [Runs -> BOOLEAN]
  PROVE  /\ Book' /\ producer'[p] = P
         /\ \A r \in Runs \ {p} : producer'[r] = producer[r] /\ Kin(producer[r], producer'[r])
<1>1. /\ producer' \in [Runs -> ProducerState] /\ producer'[p] = P
      /\ \A r \in Runs \ {p} : producer'[r] = producer[r]
  BY DEF Book, Shape
<1>2. Granted' = Granted
  BY <1>1 DEF Granted
<1>3. Shape' /\ CountersAddUp' /\ Numbered'
  BY <1>1 DEF Book, Shape, CountersAddUp, Numbered, Sending
<1>4. SlotsAccounted'
  BY <1>2 DEF Book, SlotsAccounted, Sending, Granted
<1>. QED  BY <1>1, <1>3, <1>4 DEF Book, Kin

\* _launch_order_request by a producer that has no permit yet.
LEMMA LaunchRequest ==
  ASSUME Book, NEW p \in Runs, NEW k \in Rates \union {0},
         UNCHANGED <<run, cap, rate, stopper, client, updates, overlap, running, wake>>,
         producer[p].pc # "granted", _launch_order_request(p, k)
  PROVE  /\ Book' /\ producer'[p].pace = k
         /\ \A r \in Runs \ {p} : Kin(producer[r], producer'[r])
         /\ \/ /\ producer'[p].pc = "loop"
               /\ running => count'.attempted = count.attempted + 1
               /\ ~running => UNCHANGED <<count, inflight>>
            \/ producer'[p].pc = "slot" /\ UNCHANGED <<count, inflight>>
<1>. DEFINE paced == [producer[p] EXCEPT !.pace = k, !.rate = k]
<1>1. Is(paced, producer[p].pc, producer[p].due, k, k, producer[p].event)
  BY RecordPace DEF Book, Shape
<1>2. \/ slots > 0 /\ launch(p, slots - 1, paced)
      \/ /\ producer' = [producer EXCEPT ![p] = [paced EXCEPT !.pc = "slot"]]
         /\ UNCHANGED <<count, slots, inflight>>
  BY DEF _launch_order_request
<1>. HIDE DEF paced
<1>3. CASE slots > 0 /\ launch(p, slots - 1, paced)
  <2>1. /\ slots - 1 \in Nat
        /\ slots - 1 + Cardinality(Sending) + Cardinality(OtherHolders(p)) + 1 = MaxInflight
    <3>1. slots + Cardinality(Sending) + Cardinality(Holders(producer)) = MaxInflight
      BY DEF Book, SlotsAccounted, Holders
    <3>. QED  BY <1>3, <3>1, OthersHold, CountTypes DEF Book, Shape
  <2>. QED  BY <1>1, <1>3, <2>1, LaunchStep DEF Is
<1>4. CASE /\ producer' = [producer EXCEPT ![p] = [paced EXCEPT !.pc = "slot"]]
           /\ UNCHANGED <<count, slots, inflight>>
  <2>. DEFINE P == [paced EXCEPT !.pc = "slot"]
  <2>1. P \in ProducerState /\ P.pc = "slot" /\ P.pace = k
    BY <1>1, RecordPc DEF Is, Places
  <2>2. producer' = [producer EXCEPT ![p] = P]
    BY <1>4
  <2>. HIDE DEF P
  <2>3. running' \in BOOLEAN /\ wake' \in [Runs -> BOOLEAN]
    BY DEF Book, Shape
  <2>. QED  BY <1>4, <2>1, <2>2, <2>3, QuietMove
<1>. QED  BY <1>2, <1>3, <1>4

\* FreshAt of the run's own producer.
LEMMA FreshNow ==
  ASSUME LoadInv, ~overlap, NEW p \in Runs
  PROVE  FreshAt(producer[p], wake[run]) /\ (~Dead(p) => p = run)
  BY DEF LoadInv, Fresh, FreshAt, Solo

LEMMA LoopEffect ==
  ASSUME LoadInv, NEW p \in Runs, _producer_loop(p)
  PROVE  ProducerEffect(p)
<1>1. /\ producer[p] \in ProducerState /\ ~Dead(p) /\ producer[p].pc \in {"loop", "new"}
      /\ UNCHANGED <<run, cap, rate, stopper, client, updates, overlap>>
      /\ Book /\ wake \in [Runs -> BOOLEAN] /\ running \in BOOLEAN
  BY DEF _producer_loop, Dead, LoadInv, Shape, Book
<1>2. CASE /\ ~running' /\ producer' = [producer EXCEPT ![p].pc = "done"]
           /\ running' \in BOOLEAN /\ UNCHANGED <<wake, count, slots, inflight>>
  <2>. DEFINE P == [producer[p] EXCEPT !.pc = "done"]
  <2>1. P \in ProducerState /\ P.pc = "done"
    BY <1>1, RecordPc DEF Is, Places
  <2>2. producer' = [producer EXCEPT ![p] = P]
    BY <1>2
  <2>. HIDE DEF P
  <2>3. /\ Book' /\ producer'[p] = P
        /\ \A r \in Runs \ {p} : Kin(producer[r], producer'[r])
    BY <1>1, <1>2, <2>1, <2>2, QuietMove
  <2>. QED  BY <1>1, <1>2, <2>1, <2>3 DEF ProducerEffect, FreshAt
<1>3. CASE /\ running /\ ~CapReached /\ UNCHANGED <<running, wake>>
           /\ _launch_order_request(p, rate)
  <2>1. rate \in Rates \union {0}
    BY DEF LoadInv, Shape
  <2>. QED  BY <1>1, <1>3, <2>1, LaunchRequest DEF ProducerEffect, FreshAt
<1>4. CASE /\ running /\ ~CapReached /\ UNCHANGED running /\ ~producer[p].due /\ wake[run]
           /\ wake' = [wake EXCEPT ![run] = FALSE]
           /\ producer' = [producer EXCEPT ![p].pc = "loop", ![p].due = TRUE]
           /\ UNCHANGED <<count, slots, inflight>>
  <2>. DEFINE P == [producer[p] EXCEPT !.pc = "loop", !.due = TRUE]
  <2>1. P \in ProducerState /\ P.pc = "loop" /\ P.due
    BY <1>1, RecordDue DEF Is, Places
  <2>2. producer' = [producer EXCEPT ![p] = P]
    BY <1>1, <1>4 DEF Book, Shape
  <2>. HIDE DEF P
  <2>3. /\ Book' /\ producer'[p] = P
        /\ \A r \in Runs \ {p} : Kin(producer[r], producer'[r])
    BY <1>1, <1>4, <2>1, <2>2, QuietMove
  <2>. QED  BY <1>1, <1>4, <2>1, <2>3 DEF ProducerEffect, FreshAt
<1>5. CASE /\ running /\ ~CapReached /\ UNCHANGED running /\ ~producer[p].due /\ ~wake[run]
           /\ producer' = [producer EXCEPT ![p].pc = "sleep", ![p].rate = rate,
                                           ![p].event = run]
           /\ UNCHANGED <<wake, count, slots, inflight>>
  <2>. DEFINE P == [producer[p] EXCEPT !.pc = "sleep", !.rate = rate, !.event = run]
  <2>1. P \in ProducerState /\ P.pc = "sleep" /\ P.pace = producer[p].pace
        /\ P.rate = rate /\ P.event = run
    <3>1. run \in 0 .. MaxRuns /\ rate \in Rates \union {0}
      BY DEF LoadInv, Shape
    <3>2. Is(P, "sleep", producer[p].due, producer[p].pace, rate, run)
      BY <1>1, <3>1, RecordSleep DEF Places
    <3>. QED  BY <3>2 DEF Is
  <2>2. producer' = [producer EXCEPT ![p] = P]
    BY <1>1, <1>5 DEF Book, Shape
  <2>. HIDE DEF P
  <2>3. /\ Book' /\ producer'[p] = P
        /\ \A r \in Runs \ {p} : Kin(producer[r], producer'[r])
    BY <1>1, <1>5, <2>1, <2>2, QuietMove
  <2>4. ~overlap => producer[p].pace = rate
    BY <1>1, <1>5, FreshNow DEF FreshAt
  <2>5. ~overlap => FreshAt(producer'[p], wake'[run])
    BY <2>1, <2>3, <2>4 DEF FreshAt
  <2>6. running' = running /\ UNCHANGED <<count, inflight>> /\ ~CapReached
    BY <1>5
  <2>. QED  BY <1>1, <2>3, <2>5, <2>6 DEF ProducerEffect
<1>6. CASE ~running \/ CapReached
  <2>1. /\ ~running' /\ producer' = [producer EXCEPT ![p].pc = "done"]
        /\ UNCHANGED <<wake, count, slots, inflight>>
    BY <1>6 DEF _producer_loop
  <2>2. running' \in BOOLEAN
    BY <1>1, <1>6 DEF _producer_loop
  <2>. QED  BY <1>2, <2>1, <2>2
<1>7. CASE running /\ ~CapReached
  <2>1. UNCHANGED running
        /\ \/ _launch_order_request(p, rate) /\ UNCHANGED wake
           \/ /\ ~producer[p].due /\ wake[run]
              /\ wake' = [wake EXCEPT ![run] = FALSE]
              /\ producer' = [producer EXCEPT ![p].pc = "loop", ![p].due = TRUE]
              /\ UNCHANGED <<count, slots, inflight>>
           \/ /\ ~producer[p].due /\ ~wake[run]
              /\ producer' = [producer EXCEPT ![p].pc = "sleep", ![p].rate = rate,
                                              ![p].event = run]
              /\ UNCHANGED <<wake, count, slots, inflight>>
    BY <1>7 DEF _producer_loop
  <2>. QED  BY <1>3, <1>4, <1>5, <1>7, <2>1
<1>. QED  BY <1>6, <1>7

LEMMA WakeEffect ==
  ASSUME LoadInv, NEW p \in Runs, wake_up(p)
  PROVE  ProducerEffect(p)
<1>1. /\ producer[p] \in ProducerState /\ ~Dead(p) /\ producer[p].pc = "woken"
      /\ UNCHANGED <<run, running, cap, rate, count, slots, inflight, stopper, client,
                     updates, overlap>>
      /\ Book /\ wake' \in [Runs -> BOOLEAN] /\ running' \in BOOLEAN
  BY DEF wake_up, Dead, LoadInv, Shape, Book
<1>. DEFINE P == [producer[p] EXCEPT !.pc = "loop", !.due = TRUE]
<1>2. P \in ProducerState /\ P.pc = "loop" /\ P.due
  BY <1>1, RecordDue DEF Is, Places
<1>3. producer' = [producer EXCEPT ![p] = P]
  BY <1>1 DEF Book, Shape, wake_up
<1>. HIDE DEF P
<1>4. /\ Book' /\ producer'[p] = P
      /\ \A r \in Runs \ {p} : Kin(producer[r], producer'[r])
  BY <1>1, <1>2, <1>3, QuietMove
<1>. QED  BY <1>1, <1>2, <1>4 DEF ProducerEffect, FreshAt

LEMMA TimeoutEffect ==
  ASSUME LoadInv, NEW p \in Runs, time_out(p)
  PROVE  ProducerEffect(p)
<1>1. /\ producer[p] \in ProducerState /\ ~Dead(p) /\ producer[p].pc \in {"sleep", "woken"}
      /\ UNCHANGED <<run, running, cap, rate, wake, stopper, client, updates, overlap>>
      /\ Book /\ _launch_order_request(p, producer[p].rate) /\ LoopFree
  BY DEF time_out, Dead, LoadInv, Shape, Book
<1>2. producer[p].rate \in Rates \union {0}
  BY <1>1 DEF ProducerState
<1>3. running => ~CapReached
  BY <1>1 DEF LoadInv, RoomWhenSuspended
<1>4. ~overlap => producer[p].rate = rate \/ wake[run]
  BY <1>1, FreshNow DEF FreshAt
<1>. QED  BY <1>1, <1>2, <1>3, <1>4, LaunchRequest DEF ProducerEffect, FreshAt

LEMMA AcquireEffect ==
  ASSUME LoadInv, NEW p \in Runs, acquire(p)
  PROVE  ProducerEffect(p)
<1>1. /\ producer[p] \in ProducerState /\ ~Dead(p) /\ producer[p].pc = "granted"
      /\ UNCHANGED <<run, running, cap, rate, wake, stopper, client, updates, overlap>>
      /\ Book /\ launch(p, slots, producer[p]) /\ LoopFree
  BY DEF acquire, Dead, LoadInv, Shape, Book
<1>2. /\ slots \in Nat
      /\ slots + Cardinality(Sending) + Cardinality(OtherHolders(p)) + 1 = MaxInflight
  <2>1. slots + Cardinality(Sending) + Cardinality(Holders(producer)) = MaxInflight
    BY <1>1 DEF Book, SlotsAccounted, Holders
  <2>. QED  BY <1>1, <2>1, OthersHold, CountTypes DEF Book, Shape
<1>3. running => ~CapReached
  BY <1>1 DEF LoadInv, RoomWhenSuspended
<1>4. ~overlap => producer[p].pace = rate \/ wake[run]
  BY <1>1, FreshNow DEF FreshAt
<1>. QED  BY <1>1, <1>2, <1>3, <1>4, LaunchStep DEF ProducerEffect, FreshAt

LEMMA ProduceStep ==
  ASSUME LoadInv, NEW p \in Runs, Produce(p)
  PROVE  LoadInv'
  BY LoopEffect, WakeEffect, TimeoutEffect, AcquireEffect, EffectKeepsInv DEF Produce

--------------------------------------------------------------------------------
\* The requests.

LEMMA SendOrderStep ==
  ASSUME LoadInv, NEW q \in inflight, _send_order(q)
  PROVE  LoadInv'
<1>. DEFINE d == [q EXCEPT !.done = TRUE]
<1>1. /\ Book /\ ~q.done /\ q \in Request /\ inflight \subseteq Request /\ IsFiniteSet(inflight)
      /\ UNCHANGED <<run, running, cap, rate, wake, stopper, client, updates, overlap>>
      /\ inflight' = (inflight \ {q}) \union {d}
      /\ producer \in [Runs -> ProducerState] /\ slots \in Nat /\ release_slot(slots, producer)
  BY DEF _send_order, Sending, LoadInv, Book, Shape
<1>2. /\ d \in Request /\ d.run = q.run /\ d.sequence = q.sequence /\ d.done
      /\ IsFiniteSet(inflight')
      /\ Cardinality(Sending') = Cardinality(Sending) - 1
  BY <1>1, SendingChange DEF Sending
<1>. HIDE DEF d
<1>3. /\ producer' \in [Runs -> ProducerState] /\ slots' \in Nat
      /\ \A r \in Runs : Kin(producer[r], producer'[r])
      /\ slots' + Cardinality(Holders(producer')) = slots + 1 + Cardinality(Holders(producer))
  BY <1>1, ReleaseSlot
<1>4. /\ count' \in Counters /\ count'.attempted = count.attempted
      /\ count'.created + count'.reused + count'.failed = count.created + count.reused + count.failed + 1
  <2>1. PICK outcome \in {"created", "reused", "failed"} :
          count' = [count EXCEPT ![outcome] = @ + 1]
    BY DEF _send_order
  <2>2. count \in Counters
    BY DEF LoadInv, Shape
  <2>3. CASE outcome = "created"
    BY <2>1, <2>2, <2>3 DEF Counters
  <2>4. CASE outcome = "reused"
    BY <2>1, <2>2, <2>4 DEF Counters
  <2>5. CASE outcome = "failed"
    BY <2>1, <2>2, <2>5 DEF Counters
  <2>. QED  BY <2>1, <2>3, <2>4, <2>5
<1>5. Shape'
  BY <1>1, <1>2, <1>3, <1>4 DEF LoadInv, Shape
<1>6. SlotsAccounted'
  <2>1. slots + Cardinality(Sending) + Cardinality(Holders(producer)) = MaxInflight
    BY <1>1 DEF Book, SlotsAccounted, Holders
  <2>2. slots' + Cardinality(Sending') + Cardinality(Holders(producer')) = MaxInflight
    BY <1>1, <1>2, <1>3, <2>1, CountTypes, HoldersFinite DEF Book
  <2>. QED  BY <2>2 DEF SlotsAccounted, Holders
<1>7. CountersAddUp' /\ Numbered'
  <2>1. \A x \in inflight' : x.run = run /\ x.sequence <= count.attempted
    BY <1>1, <1>2 DEF Book, Numbered
  <2>2. count'.attempted = count'.created + count'.reused + count'.failed + Cardinality(Sending')
    <3>1. count.attempted = count.created + count.reused + count.failed + Cardinality(Sending)
      BY <1>1 DEF Book, CountersAddUp
    <3>2. /\ count'.attempted \in Nat /\ count'.created \in Nat /\ count'.reused \in Nat
          /\ count'.failed \in Nat
      BY <1>4 DEF Counters
    <3>. QED  BY <1>1, <1>2, <1>4, <3>1, <3>2, CountTypes DEF Book
  <2>. QED  BY <1>1, <1>4, <2>1, <2>2 DEF CountersAddUp, Numbered
<1>8. CapRespected' /\ RoomWhenSuspended' /\ Unstarted'
  BY <1>1, <1>3, <1>4 DEF LoadInv, CapRespected, RoomWhenSuspended, CapReached, LoopFree, Kin,
                          Unstarted
<1>9. \A r \in Runs : Dead(r)' <=> Dead(r)
  BY <1>3 DEF Dead, Kin
<1>10. Solo'
  BY <1>1, <1>9 DEF LoadInv, Solo, Pending
<1>11. Fresh'
  BY <1>1, <1>3 DEF LoadInv, Fresh, Kin
<1>12. Draining'
  <2>1. \A x \in inflight' : \E y \in inflight : x.run = y.run /\ x.sequence = y.sequence
    BY <1>1, <1>2
  <2>. QED  BY <1>1, <1>9, <2>1 DEF LoadInv, Draining, Pending
<1>. QED  BY <1>5, <1>6, <1>7, <1>8, <1>10, <1>11, <1>12 DEF LoadInv

LEMMA DiscardStep ==
  ASSUME LoadInv, NEW q \in inflight, discard(q)
  PROVE  LoadInv'
<1>1. /\ q.done /\ inflight' = inflight \ {q} /\ IsFiniteSet(inflight) /\ inflight \subseteq Request
      /\ UNCHANGED <<run, running, cap, rate, wake, count, producer, slots, stopper,
                     client, updates, overlap>>
  BY DEF discard, LoadInv, Shape
<1>2. Sending' = Sending /\ IsFiniteSet(inflight')
  BY <1>1, FS_RemoveElement DEF Sending
<1>3. Shape'
  BY <1>1, <1>2 DEF LoadInv, Shape
<1>4. SlotsAccounted' /\ CountersAddUp' /\ Numbered'
  BY <1>1, <1>2 DEF LoadInv, SlotsAccounted, CountersAddUp, Numbered
<1>5. CapRespected' /\ RoomWhenSuspended' /\ Unstarted' /\ Solo' /\ Fresh'
  BY <1>1 DEF LoadInv, Unstarted, CapRespected, RoomWhenSuspended, CapReached, LoopFree, Solo, Fresh,
              Dead, Pending
<1>6. Draining'
  BY <1>1 DEF LoadInv, Draining, Dead, Pending
<1>. QED  BY <1>3, <1>4, <1>5, <1>6 DEF LoadInv

--------------------------------------------------------------------------------
\* The operators' calls.

\* start() finds nobody alive, unless a stop() is pending.
LEMMA StartStep ==
  ASSUME LoadInv, NEW max_orders \in Caps, NEW k \in Rates, start(max_orders, k)
  PROVE  LoadInv'
<1>. DEFINE P == [pc |-> "new", due |-> TRUE, pace |-> k, rate |-> k, event |-> 0]
<1>1. /\ run' = run + 1 /\ run + 1 \in Runs /\ running' = TRUE /\ cap' = max_orders /\ rate' = k
      /\ count' = ZeroCounters /\ wake' = [wake EXCEPT ![run + 1] = FALSE]
      /\ producer' = [producer EXCEPT ![run + 1] = P]
      /\ overlap' = (overlap \/ Pending # {})
      /\ UNCHANGED <<slots, inflight, stopper, client, updates>>
      /\ LoopFree /\ ~Shutdown /\ ~running /\ inflight = {}
  BY LoadAssumption DEF start, MayCall, LoadInv, Shape, Runs
<1>2. P \in ProducerState /\ P.pc = "new" /\ P.due /\ P.pace = k
  BY LoadAssumption DEF ProducerState
<1>. HIDE DEF P
<1>3. /\ producer' \in [Runs -> ProducerState] /\ producer'[run + 1] = P
      /\ \A r \in Runs \ {run + 1} : producer'[r] = producer[r]
  BY <1>1, <1>2 DEF LoadInv, Shape
<1>4. producer[run + 1].pc = "none" /\ Sending = {} /\ Sending' = {}
  BY <1>1, LoadAssumption DEF LoadInv, Unstarted, Sending, Runs, Shape
<1>5. Shape'
  <2>1. run' \in 0 .. MaxRuns /\ cap' \in Caps \union {NoCap} /\ rate' \in Rates \union {0}
        /\ overlap' \in BOOLEAN /\ running' \in BOOLEAN /\ run' \in Runs
    BY <1>1, LoadAssumption DEF LoadInv, Shape, Runs
  <2>2. count' \in Counters
    BY <1>1 DEF ZeroCounters, Counters
  <2>. QED  BY <1>1, <1>3, <2>1, <2>2 DEF LoadInv, Shape
<1>6. SlotsAccounted'
  <2>1. Holders(producer') = Holders(producer)
    BY <1>2, <1>3, <1>4, <1>1 DEF Holders
  <2>. QED  BY <1>1, <1>4, <2>1 DEF LoadInv, SlotsAccounted, Holders
<1>7. CountersAddUp' /\ Numbered'
  BY <1>1, <1>4, FS_EmptySet DEF CountersAddUp, Numbered, ZeroCounters
<1>8. CapRespected' /\ RoomWhenSuspended'
  <2>1. cap' # NoCap => cap' \in Nat \ {0}
    BY <1>1, LoadAssumption
  <2>. QED  BY <1>1, <2>1 DEF CapRespected, RoomWhenSuspended, CapReached, ZeroCounters
<1>9. Unstarted'
  BY <1>1, <1>3, LoadAssumption DEF LoadInv, Unstarted, Runs, Shape
<1>10. ASSUME ~overlap' PROVE ~overlap /\ Pending = {} /\ \A r \in Runs : Dead(r)
  BY <1>1, <1>10 DEF LoadInv, Solo, Pending
<1>11. Solo'
  BY <1>1, <1>3, <1>10 DEF Solo, Dead, Pending
<1>12. Fresh'
  BY <1>1, <1>2, <1>3, <1>10 DEF Fresh, Dead
<1>13. Draining'
  <2>1. client /\ stopper[Closer].pc = "idle"
    BY <1>1 DEF Shutdown
  <2>. QED  BY <1>1, <2>1 DEF Draining
<1>. QED
  BY <1>5, <1>6, <1>7, <1>8, <1>9, <1>11, <1>12, <1>13 DEF LoadInv

\* Event.set() of the current run: sleepers on it are woken, and nothing else.
LEMMA SetEvent ==
  ASSUME Shape, UNCHANGED <<slots, inflight>>, producer' = set_event(run, producer)
  PROVE  /\ producer' \in [Runs -> ProducerState]
         /\ \A r \in Runs : IF producer[r].pc = "sleep" /\ producer[r].event = run
              THEN Is(producer'[r], "woken", producer[r].due, producer[r].pace,
                      producer[r].rate, producer[r].event)
              ELSE producer'[r] = producer[r]
         /\ \A r \in Runs : Dead(r)' <=> Dead(r)
         /\ LoopFree' <=> LoopFree
         /\ SlotsAccounted' <=> SlotsAccounted
<1>1. \A r \in Runs : IF producer[r].pc = "sleep" /\ producer[r].event = run
        THEN Is(producer'[r], "woken", producer[r].due, producer[r].pace,
                producer[r].rate, producer[r].event)
        ELSE producer'[r] = producer[r]
  <2>. SUFFICES ASSUME NEW r \in Runs, producer[r].pc = "sleep", producer[r].event = run
                PROVE  Is(producer'[r], "woken", producer[r].due, producer[r].pace,
                          producer[r].rate, producer[r].event)
    BY DEF set_event
  <2>1. producer'[r] = [producer[r] EXCEPT !.pc = "woken"] /\ producer[r] \in ProducerState
    BY DEF set_event, Shape
  <2>. QED  BY <2>1, RecordPc DEF Places
<1>2. producer' \in [Runs -> ProducerState]
  BY <1>1 DEF Is, set_event, Shape
<1>3. \A r \in Runs : Dead(r)' <=> Dead(r)
  BY <1>1 DEF Is, Dead
<1>4. LoopFree' <=> LoopFree
  BY <1>1 DEF Is, LoopFree
<1>5. Granted' = Granted
  BY <1>1 DEF Is, Granted
<1>6. SlotsAccounted' <=> SlotsAccounted
  BY <1>5 DEF SlotsAccounted, Granted, Sending
<1>. QED  BY <1>1, <1>2, <1>3, <1>4, <1>6

LEMMA UpdateRateStep ==
  ASSUME LoadInv, NEW k \in Rates, update_rate(k)
  PROVE  LoadInv'
<1>1. /\ running /\ updates < MaxUpdates /\ rate' = k /\ wake' = [wake EXCEPT ![run] = TRUE]
      /\ producer' = set_event(run, producer) /\ updates' = updates + 1
      /\ UNCHANGED <<run, running, cap, count, slots, inflight, stopper, client, overlap>>
  BY DEF update_rate
<1>2. Shape /\ SlotsAccounted /\ run \in Runs
  BY <1>1 DEF LoadInv, Shape
<1>3. /\ producer' \in [Runs -> ProducerState]
      /\ \A r \in Runs : IF producer[r].pc = "sleep" /\ producer[r].event = run
           THEN Is(producer'[r], "woken", producer[r].due, producer[r].pace,
                   producer[r].rate, producer[r].event)
           ELSE producer'[r] = producer[r]
      /\ \A r \in Runs : Dead(r)' <=> Dead(r)
      /\ LoopFree' <=> LoopFree
      /\ SlotsAccounted'
  BY <1>1, <1>2, SetEvent
<1>4. wake' \in [Runs -> BOOLEAN] /\ wake'[run]
  BY <1>1, <1>2 DEF Shape
<1>5. Shape'
  BY <1>1, <1>2, <1>3, <1>4, LoadAssumption DEF Shape
<1>6. CountersAddUp' /\ Numbered' /\ CapRespected' /\ RoomWhenSuspended'
  BY <1>1, <1>3 DEF LoadInv, CountersAddUp, Numbered, CapRespected, RoomWhenSuspended,
                    CapReached, Sending
<1>7. Unstarted'
  BY <1>1, <1>3 DEF LoadInv, Unstarted, Is
<1>8. Solo' /\ Draining'
  BY <1>1, <1>3 DEF LoadInv, Solo, Draining, Pending
<1>9. Fresh'
  <2>. SUFFICES ASSUME ~overlap, NEW p \in Runs
                PROVE  producer'[p].pc # "sleep"
    BY <1>1, <1>4 DEF Fresh
  <2>1. producer[p].pc = "sleep" => producer[p].event = run
    BY FreshNow DEF FreshAt
  <2>. QED  BY <1>3, <2>1 DEF Is
<1>. QED  BY <1>3, <1>5, <1>6, <1>7, <1>8, <1>9 DEF LoadInv

\* The second part of stop(): what await_inflight leaves behind.  A shutdown gets
\* there when the producers have ended, and no operator's stop() is called during one.
LEMMA AwaitStep ==
  ASSUME LoadInv, NEW s \in Callers, await_inflight(s),
         UNCHANGED <<run, running, cap, rate, wake, count, producer, slots, inflight,
                     updates, overlap>>,
         ~overlap => /\ ~running
                     /\ stopper[s].pc = "join" => \A p \in Runs : Dead(p)
                     /\ s = Closer => \A p \in Runs : Dead(p)
                     /\ s = Closer => Pending \subseteq {Closer}
                     /\ stopper[Closer].pc # "idle" => s = Closer
  PROVE  LoadInv'
<1>. DEFINE waits == {<<q.run, q.sequence>> : q \in inflight}
            S == [pc |-> IF waits = {} THEN "idle" ELSE "drain", run |-> 0, waits |-> waits]
<1>1. /\ stopper' = [stopper EXCEPT ![s] = S]
      /\ client' = (client /\ ~(s = Closer /\ waits = {}))
  BY DEF await_inflight
<1>2. S \in [pc : {"idle", "join", "drain"}, run : 0 .. MaxRuns,
             waits : SUBSET (Runs \X (Nat \ {0}))]
  <2>1. waits \subseteq Runs \X (Nat \ {0})
    BY DEF LoadInv, Shape, Request
  <2>. HIDE DEF waits
  <2>. QED  BY <2>1, LoadAssumption
<1>3. /\ S.pc \in {"idle", "drain"} /\ (S.pc = "idle" <=> inflight = {})
      /\ \A q \in inflight : <<q.run, q.sequence>> \in S.waits
  OBVIOUS
<1>4. client' \in BOOLEAN /\ (client' <=> client /\ ~(s = Closer /\ inflight = {}))
  <2>1. waits = {} <=> inflight = {}
    OBVIOUS
  <2>. QED  BY <1>1, <2>1
<1>. HIDE DEF S
<1>5. /\ stopper'[s] = S /\ \A t \in Callers \ {s} : stopper'[t] = stopper[t]
      /\ stopper' \in [Callers -> [pc : {"idle", "join", "drain"}, run : 0 .. MaxRuns,
                                   waits : SUBSET (Runs \X (Nat \ {0}))]]
  BY <1>1, <1>2 DEF LoadInv, Shape
<1>6. Shape'
  BY <1>4, <1>5 DEF LoadInv, Shape
<1>7. /\ SlotsAccounted' /\ CountersAddUp' /\ Numbered' /\ CapRespected'
      /\ RoomWhenSuspended' /\ Unstarted'
  BY DEF LoadInv, SlotsAccounted, CountersAddUp, Numbered, CapRespected, RoomWhenSuspended,
         Unstarted, CapReached, LoopFree, Sending
<1>8. Fresh'
  BY DEF LoadInv, Fresh
<1>9. Solo'
  <2>. SUFFICES ASSUME ~overlap PROVE Solo'
    BY DEF Solo
  <2>1. \A t \in Callers : stopper'[t].pc = "join" => stopper[t].pc = "join" /\ stopper'[t] = stopper[t]
    BY <1>3, <1>5
  <2>2. ASSUME NEW p \in Runs, ~Dead(p) PROVE \E t \in Callers : stopper'[t].pc = "join"
    <3>1. PICK t \in Callers : stopper[t].pc = "join"
      BY <2>2 DEF LoadInv, Solo
    <3>2. t # s
      BY <2>2, <3>1
    <3>. QED  BY <1>5, <3>1, <3>2
  <2>. QED  BY <2>1, <2>2 DEF LoadInv, Solo, Dead
<1>10. Draining'
  <2>. SUFFICES ASSUME ~overlap PROVE Draining'
    BY DEF Draining
  <2>1. \A t \in Callers : stopper'[t].pc = "drain" =>
          \A q \in inflight : <<q.run, q.sequence>> \in stopper'[t].waits
    BY <1>3, <1>5 DEF LoadInv, Draining
  <2>2. Closer \in Callers
    BY DEF Callers
  <2>3. stopper'[Closer].pc = "drain" => \A p \in Runs : Dead(p)
    BY <1>5, <2>2 DEF LoadInv, Draining
  <2>4. stopper'[Closer].pc # "idle" => Pending' = {Closer}
    BY <1>5, <2>2 DEF LoadInv, Draining, Pending
  <2>5. ~client' => inflight = {} /\ ~running /\ \A p \in Runs : Dead(p)
    BY <1>4 DEF LoadInv, Draining
  <2>. QED  BY <2>1, <2>3, <2>4, <2>5 DEF Draining, Dead
<1>. QED  BY <1>6, <1>7, <1>8, <1>9, <1>10 DEF LoadInv

LEMMA StopStep ==
  ASSUME LoadInv, NEW s \in Callers, stop(s)
  PROVE  LoadInv'
<1>1. /\ stopper[s].pc = "idle" /\ LoopFree
      /\ stopper[Closer].pc = "idle" /\ client
      /\ s = Closer => Pending = {}
      /\ UNCHANGED <<run, cap, rate, count, slots, inflight, updates, overlap>>
  BY DEF stop, MayCall, Shutdown
<1>2. CASE running
  <2>. DEFINE S == [pc |-> "join", run |-> run, waits |-> {}]
  <2>1. /\ running' = FALSE /\ wake' = [wake EXCEPT ![run] = TRUE]
        /\ producer' = set_event(run, producer) /\ UNCHANGED client
        /\ stopper' = [stopper EXCEPT ![s] = S]
    BY <1>2 DEF stop
  <2>2. Shape /\ SlotsAccounted /\ run \in Runs
    BY <1>2 DEF LoadInv, Shape
  <2>3. /\ producer' \in [Runs -> ProducerState]
        /\ \A r \in Runs : IF producer[r].pc = "sleep" /\ producer[r].event = run
             THEN Is(producer'[r], "woken", producer[r].due, producer[r].pace,
                     producer[r].rate, producer[r].event)
             ELSE producer'[r] = producer[r]
        /\ \A r \in Runs : Dead(r)' <=> Dead(r)
        /\ SlotsAccounted'
    BY <1>1, <2>1, <2>2, SetEvent
  <2>4. wake' \in [Runs -> BOOLEAN] /\ wake'[run]
    BY <2>1, <2>2 DEF Shape
  <2>5. S \in [pc : {"idle", "join", "drain"}, run : 0 .. MaxRuns,
               waits : SUBSET (Runs \X (Nat \ {0}))] /\ S.pc = "join" /\ S.run = run
    BY <2>2 DEF Shape
  <2>. HIDE DEF S
  <2>6. /\ stopper'[s] = S /\ \A t \in Callers \ {s} : stopper'[t] = stopper[t]
        /\ stopper' \in [Callers -> [pc : {"idle", "join", "drain"}, run : 0 .. MaxRuns,
                                     waits : SUBSET (Runs \X (Nat \ {0}))]]
    BY <2>1, <2>2, <2>5 DEF Shape
  <2>7. Shape'
    BY <1>1, <2>1, <2>2, <2>3, <2>4, <2>6 DEF Shape
  <2>8. CountersAddUp' /\ Numbered' /\ CapRespected' /\ RoomWhenSuspended'
    BY <1>1, <2>1 DEF LoadInv, CountersAddUp, Numbered, CapRespected, RoomWhenSuspended,
                      CapReached, Sending
  <2>9. Unstarted'
    BY <1>1, <2>3 DEF LoadInv, Unstarted, Is
  <2>10. Fresh'
    <3>. SUFFICES ASSUME ~overlap, NEW p \in Runs
                  PROVE  producer'[p].pc # "sleep"
      BY <1>1, <2>4 DEF Fresh
    <3>1. producer[p].pc = "sleep" => producer[p].event = run
      BY FreshNow DEF FreshAt
    <3>. QED  BY <2>3, <3>1 DEF Is
  <2>11. Solo'
    <3>. SUFFICES ASSUME ~overlap PROVE Solo'
      BY <1>1 DEF Solo
    <3>1. \A t \in Callers : stopper'[t].pc = "join" => stopper'[t].run = run
      BY <2>5, <2>6 DEF LoadInv, Solo
    <3>. QED  BY <1>1, <2>1, <2>3, <2>5, <2>6, <3>1 DEF LoadInv, Solo
  <2>12. Draining'
    <3>. SUFFICES ASSUME ~overlap PROVE Draining'
      BY <1>1 DEF Draining
    <3>1. Pending = {} /\ Closer \in Callers
      BY <1>2 DEF LoadInv, Solo, Callers
    <3>2. \A t \in Callers : stopper'[t].pc # "drain"
      BY <2>5, <2>6, <3>1 DEF Pending
    <3>3. Pending' = {s}
      BY <2>5, <2>6, <3>1 DEF Pending
    <3>4. stopper'[Closer].pc # "idle" => s = Closer
      BY <1>1, <2>6, <3>1
    <3>. QED  BY <1>1, <2>1, <3>1, <3>2, <3>3, <3>4 DEF Draining
  <2>. QED  BY <2>3, <2>7, <2>8, <2>9, <2>10, <2>11, <2>12 DEF LoadInv
<1>3. CASE ~running
  <2>1. await_inflight(s) /\ UNCHANGED <<running, wake, producer>>
    BY <1>3 DEF stop
  <2>2. ~overlap /\ s = Closer => \A p \in Runs : Dead(p)
    BY <1>1, <1>3 DEF LoadInv, Solo, Pending
  <2>. QED  BY <1>1, <1>3, <2>1, <2>2, AwaitStep
<1>. QED  BY <1>2, <1>3

LEMMA JoinedStep ==
  ASSUME LoadInv, NEW s \in Callers, stop_joined(s)
  PROVE  LoadInv'
<1>1. /\ stopper[s].pc = "join" /\ producer[stopper[s].run].pc = "done" /\ await_inflight(s)
      /\ UNCHANGED <<run, running, cap, rate, wake, count, producer, slots, inflight,
                     updates, overlap>>
  BY DEF stop_joined
<1>2. s \in Pending /\ Closer \in Callers
  BY <1>1 DEF Pending, Callers
<1>3. ASSUME ~overlap
      PROVE  ~running /\ (\A p \in Runs : Dead(p)) /\ (stopper[Closer].pc # "idle" => s = Closer)
             /\ (s = Closer => Pending \subseteq {Closer})
  BY <1>1, <1>2, <1>3 DEF LoadInv, Solo, Dead, Draining
<1>. QED  BY <1>1, <1>3, AwaitStep

LEMMA DrainedStep ==
  ASSUME LoadInv, NEW s \in Callers, stop_drained(s)
  PROVE  LoadInv'
<1>. DEFINE S == [pc |-> "idle", run |-> 0, waits |-> {}]
<1>1. /\ stopper[s].pc = "drain" /\ stopper' = [stopper EXCEPT ![s] = S]
      /\ \A q \in inflight : <<q.run, q.sequence>> \notin stopper[s].waits
      /\ client' = (client /\ s # Closer)
      /\ UNCHANGED <<run, running, cap, rate, wake, count, producer, slots, inflight,
                     updates, overlap>>
  BY DEF stop_drained
<1>2. S \in [pc : {"idle", "join", "drain"}, run : 0 .. MaxRuns,
             waits : SUBSET (Runs \X (Nat \ {0}))] /\ S.pc = "idle"
  BY LoadAssumption
<1>. HIDE DEF S
<1>3. /\ stopper'[s] = S /\ \A t \in Callers \ {s} : stopper'[t] = stopper[t]
      /\ stopper' \in [Callers -> [pc : {"idle", "join", "drain"}, run : 0 .. MaxRuns,
                                   waits : SUBSET (Runs \X (Nat \ {0}))]]
  BY <1>1, <1>2 DEF LoadInv, Shape
<1>4. Shape'
  BY <1>1, <1>3 DEF LoadInv, Shape
<1>5. /\ SlotsAccounted' /\ CountersAddUp' /\ Numbered' /\ CapRespected'
      /\ RoomWhenSuspended' /\ Unstarted' /\ Fresh'
  BY <1>1 DEF LoadInv, SlotsAccounted, CountersAddUp, Numbered, CapRespected,
              RoomWhenSuspended, Unstarted, CapReached, LoopFree, Sending, Fresh
<1>6. s \in Pending /\ Closer \in Callers
  BY <1>1 DEF Pending, Callers
<1>7. Solo'
  <2>. SUFFICES ASSUME ~overlap PROVE Solo'
    BY <1>1 DEF Solo
  <2>1. \A t \in Callers : stopper'[t].pc = "join" <=> stopper[t].pc = "join"
    BY <1>1, <1>2, <1>3
  <2>2. \A t \in Callers : stopper'[t].pc = "join" => stopper'[t] = stopper[t]
    BY <1>2, <1>3
  <2>3. ~running
    BY <1>6 DEF LoadInv, Solo
  <2>. QED  BY <1>1, <2>1, <2>2, <2>3 DEF LoadInv, Solo, Dead
<1>8. Draining'
  <2>. SUFFICES ASSUME ~overlap PROVE Draining'
    BY <1>1 DEF Draining
  <2>1. inflight = {} /\ ~running
    BY <1>1, <1>6 DEF LoadInv, Draining, Solo
  <2>2. stopper'[Closer].pc # "idle" => FALSE
    BY <1>1, <1>2, <1>3, <1>6 DEF LoadInv, Draining
  <2>3. ~client' => \A p \in Runs : Dead(p)
    BY <1>1 DEF LoadInv, Draining
  <2>. QED  BY <1>1, <2>1, <2>2, <2>3 DEF Draining, Dead
<1>. QED  BY <1>4, <1>5, <1>7, <1>8 DEF LoadInv

--------------------------------------------------------------------------------
LEMMA LoadInit == Init => LoadInv
<1>. SUFFICES ASSUME Init PROVE LoadInv
  OBVIOUS
<1>1. \A p \in Runs : producer[p].pc = "none"
  BY DEF Init
<1>2. Shape
  <2>1. producer \in [Runs -> ProducerState]
    BY LoadAssumption DEF Init, ProducerState
  <2>2. count \in Counters
    BY DEF Init, ZeroCounters, Counters
  <2>3. stopper \in [Callers -> [pc : {"idle", "join", "drain"}, run : 0 .. MaxRuns,
                                 waits : SUBSET (Runs \X (Nat \ {0}))]]
    BY LoadAssumption DEF Init
  <2>4. run \in 0 .. MaxRuns /\ updates \in 0 .. MaxUpdates
    BY LoadAssumption DEF Init
  <2>5. wake \in [Runs -> BOOLEAN] /\ cap \in Caps \union {NoCap} /\ rate \in Rates \union {0}
    BY DEF Init
  <2>6. inflight \subseteq Request /\ IsFiniteSet(inflight) /\ slots \in Nat
    BY FS_EmptySet, LoadAssumption DEF Init
  <2>7. running = FALSE /\ client \in BOOLEAN /\ overlap \in BOOLEAN
    BY DEF Init
  <2>. QED  BY <2>1, <2>2, <2>3, <2>4, <2>5, <2>6, <2>7 DEF Shape
<1>3. SlotsAccounted /\ CountersAddUp
  <2>1. Cardinality(Sending) = 0
    <3>1. Sending = {}
      BY DEF Init, Sending
    <3>. QED  BY <3>1, FS_EmptySet
  <2>2. Cardinality({p \in Runs : producer[p].pc = "granted"}) = 0
    <3>1. {p \in Runs : producer[p].pc = "granted"} = {}
      BY <1>1
    <3>. QED  BY <3>1, FS_EmptySet
  <2>3. SlotsAccounted
    BY <2>1, <2>2, LoadAssumption DEF Init, SlotsAccounted
  <2>4. CountersAddUp
    BY <2>1 DEF Init, CountersAddUp, ZeroCounters
  <2>. QED  BY <2>3, <2>4
<1>4. Numbered /\ CapRespected /\ RoomWhenSuspended /\ Unstarted
  BY <1>1 DEF Init, Numbered, CapRespected, RoomWhenSuspended, Unstarted
<1>5. Solo /\ Fresh /\ Draining
  BY <1>1 DEF Init, Solo, Fresh, Draining, Dead, Pending, Callers
<1>. QED  BY <1>2, <1>3, <1>4, <1>5 DEF LoadInv

LEMMA LoadStep == LoadInv /\ [Next]_vars => LoadInv'
<1>. SUFFICES ASSUME LoadInv, [Next]_vars PROVE LoadInv'
  OBVIOUS
<1>1. CASE UNCHANGED vars
  BY <1>1 DEF vars, LoadInv, Shape, SlotsAccounted, CountersAddUp, Numbered, CapRespected,
              RoomWhenSuspended, Unstarted, Solo, Fresh, Draining, CapReached, LoopFree,
              Sending, Pending, Dead
<1>2. CASE Next
  BY <1>2, ProduceStep, SendOrderStep, DiscardStep, StartStep, UpdateRateStep, StopStep,
     JoinedStep, DrainedStep DEF Next, FinishStop
<1>. QED  BY <1>1, <1>2

\* The controller keeps its invariant, overlapping start() and stop() included.
THEOREM LoadInvariant == Spec => []LoadInv
  BY LoadInit, LoadStep, PTL DEF Spec

--------------------------------------------------------------------------------
\* The controller's state keeps its shape, and the semaphore never has more free
\* permits than it began with.
THEOREM LoadTypes == Spec => []TypeOK
<1>1. LoadInv => TypeOK
  <2>. SUFFICES ASSUME LoadInv PROVE TypeOK
    OBVIOUS
  <2>1. slots + Cardinality(Sending) + Cardinality(Holders(producer)) = MaxInflight
    BY DEF LoadInv, SlotsAccounted, Holders
  <2>2. slots \in 0 .. MaxInflight
    BY <2>1, CountTypes, LoadAssumption DEF LoadInv, Shape
  <2>. QED  BY <2>2 DEF LoadInv, Shape, TypeOK
<1>. QED  BY <1>1, LoadInvariant, PTL

\* _inflight_semaphore loses no permit and hands out none twice, whatever stops,
\* failures and overlapping runs happen.
THEOREM NoPermitIsLost == Spec => []SlotsAccounted
<1>1. LoadInv => SlotsAccounted
  BY DEF LoadInv
<1>. QED  BY <1>1, LoadInvariant, PTL

\* The counters of a run add up to its attempts and are about no other run.
THEOREM CountersAreExact == Spec => []CountersAddUp
<1>1. LoadInv => CountersAddUp
  BY DEF LoadInv
<1>. QED  BY <1>1, LoadInvariant, PTL

\* max_orders is never exceeded, with two producers on one run too.
THEOREM LimitHolds == Spec => []CapRespected
<1>1. LoadInv => CapRespected
  BY DEF LoadInv
<1>. QED  BY <1>1, LoadInvariant, PTL

\* Without overlapping calls, update_rate reaches every producer that sleeps.
THEOREM RateReachesSleepers == Spec => []NoStaleSleep
<1>1. LoadInv => NoStaleSleep
  BY DEF LoadInv, Fresh, NoStaleSleep
<1>. QED  BY <1>1, LoadInvariant, PTL

\* Without overlapping calls, the shutdown closes the client after the last request.
THEOREM ClientClosedLast == Spec => []ClientOutlivesRequests
<1>1. LoadInv => ClientOutlivesRequests
  BY DEF LoadInv, Draining, ClientOutlivesRequests, Sending, Dead
<1>. QED  BY <1>1, LoadInvariant, PTL

\* What StopReturnsFinalCounters says of a step.
FinalStep ==
  \A s \in Callers :
    /\ stopper[s].pc # "idle" /\ stopper'[s].pc = "idle"
    /\ ~running' /\ ~overlap
    => count'.attempted = count'.created + count'.reused + count'.failed

LEMMA ReturnIsFinal == ASSUME LoadInv, [Next]_vars PROVE FinalStep
<1>. SUFFICES ASSUME NEW s \in Callers, stopper[s].pc # "idle", stopper'[s].pc = "idle",
                     ~running', ~overlap
              PROVE  count'.attempted = count'.created + count'.reused + count'.failed
  BY DEF FinalStep
<1>1. FinishStop(s)
  <2>1. stopper' # stopper
    OBVIOUS
  <2>2. PICK t \in Callers : stop(t) \/ FinishStop(t)
    BY <2>1 DEF Next, vars, Produce, _producer_loop, wake_up, time_out, acquire, _send_order,
                discard, start, update_rate
  <2>3. \E S : stopper' = [stopper EXCEPT ![t] = S]
    BY <2>2 DEF stop, FinishStop, stop_joined, stop_drained, await_inflight
  <2>4. t = s
    BY <2>3 DEF LoadInv, Shape
  <2>5. ~stop(s)
    BY DEF stop
  <2>. QED  BY <2>2, <2>4, <2>5
<1>2. inflight = {} /\ UNCHANGED <<count, inflight>>
  <2>1. CASE stop_joined(s)
    <3>. DEFINE waits == {<<q.run, q.sequence>> : q \in inflight}
    <3>1. /\ stopper' = [stopper EXCEPT ![s] =
               [pc |-> IF waits = {} THEN "idle" ELSE "drain", run |-> 0, waits |-> waits]]
          /\ UNCHANGED <<count, inflight>>
      BY <2>1 DEF stop_joined, await_inflight
    <3>2. waits = {} => inflight = {}
      OBVIOUS
    <3>. HIDE DEF waits
    <3>3. waits = {}
      BY <3>1 DEF LoadInv, Shape
    <3>. QED  BY <3>1, <3>2, <3>3
  <2>2. CASE stop_drained(s)
    BY <2>2 DEF stop_drained, LoadInv, Draining
  <2>. QED  BY <1>1, <2>1, <2>2 DEF FinishStop
<1>3. Sending = {} /\ Cardinality(Sending) = 0
  BY <1>2, FS_EmptySet DEF Sending
<1>4. count.attempted = count.created + count.reused + count.failed
  BY <1>3, CountTypes DEF LoadInv, CountersAddUp
<1>. QED  BY <1>2, <1>4

\* Without overlapping calls, the counters that stop() returns are final.
THEOREM StopIsFinal == Spec => StopReturnsFinalCounters
<1>1. LoadInv /\ [Next]_vars => [FinalStep]_vars
  BY ReturnIsFinal
<1>. QED  BY <1>1, LoadInvariant, PTL DEF Spec, StopReturnsFinalCounters, FinalStep
================================================================================
