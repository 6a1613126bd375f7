-------------------------- MODULE InstrumentProofs --------------------------
(***************************************************************************)
(* Proofs about an instrument and the modules that send it notes, for any  *)
(* number of voices and samples, any tracks and any sequences.             *)
(***************************************************************************)
EXTENDS InstrumentPath, SequenceLemmas, FiniteSetTheorems

-----------------------------------------------------------------------------
(***************************************************************************)
(* The stages that an envelope can come to in one buffer.                  *)
(***************************************************************************)
LEMMA SampleType ==
  ASSUME NEW stages \in SUBSET Stage, NEW on \in BOOLEAN
  PROVE  AfterSample(stages, on) \in SUBSET Stage
<1>1. \A s \in Stage : Begun(s, on) \in Stage
    BY DEF Begun, Stage
<1>2. \A s \in Stage : Following[s] \in Stage
    BY DEF Following, Stage
<1> QED BY <1>1, <1>2 DEF AfterSample

Samplings(a, stage, on) ==
  a[0] = {stage} /\ \A i \in 1 .. Samples : a[i] = AfterSample(a[i - 1], on)

LEMMA BufferSteps ==
  ASSUME NEW stage \in Stage, NEW on \in BOOLEAN
  PROVE  \E a \in [0 .. Samples -> SUBSET Stage] :
           Samplings(a, stage, on) /\ AfterBuffer(stage, on) = a[Samples]
<1> DEFINE n == Samples
           Step(f, i) == IF i = 0 THEN {stage} ELSE AfterSample(f[i - 1], on)
           after == CHOOSE f : f = [i \in 0 .. n |-> Step(f, i)]
           step == [i \in 1 .. n |-> [x \in SUBSET Stage |-> AfterSample(x, on)]]
<1>1. n \in Nat
    BY InstrumentAssumption
<1>2. AfterBuffer(stage, on) = after[n]
    BY DEF AfterBuffer
<1> HIDE DEF n
<1>3. \A i \in 1 .. n, x \in SUBSET Stage : step[i][x] = AfterSample(x, on)
    OBVIOUS
<1>4. \A i \in 1 .. n, x \in SUBSET Stage : step[i][x] \in SUBSET Stage
    BY <1>3, SampleType
<1> HIDE DEF step
<1>5. PICK a \in [0 .. n -> SUBSET Stage] : Runs(a, {stage}, step, n)
    BY <1>1, <1>4, StepByStep
<1>6. \A i \in 1 .. n : i - 1 \in 0 .. n /\ i # 0 /\ a[i - 1] \in SUBSET Stage
    BY <1>1, <1>5
<1>7. \A i \in 1 .. n : a[i] = AfterSample(a[i - 1], on)
    BY <1>3, <1>5, <1>6 DEF Runs
<1>8. a = [i \in 0 .. n |-> Step(a, i)]
  <2>1. ASSUME NEW i \in 0 .. n PROVE a[i] = Step(a, i)
    <3>1. CASE i = 0
        BY <1>5, <3>1 DEF Runs
    <3>2. CASE i # 0
      <4>1. i \in 1 .. n
          BY <1>1, <3>2
      <4> QED BY <1>7, <3>2, <4>1
    <3> QED BY <3>1, <3>2
  <2>2. a = [i \in 0 .. n |-> a[i]]
      BY <1>5
  <2> HIDE DEF Step
  <2> QED BY <2>1, <2>2
<1>9. after = [i \in 0 .. n |-> Step(after, i)]
  <2> HIDE DEF Step
  <2> QED BY <1>8
<1> HIDE DEF after
<1>10. ASSUME NEW i \in 0 .. n PROVE after[i] = Step(after, i)
  <2> HIDE DEF Step
  <2> QED BY <1>9
<1> DEFINE T == {i \in 0 .. n : after[i] = a[i]}
<1>11. 0 \in T
  <2>1. 0 \in 0 .. n
      BY <1>1
  <2>2. after[0] = {stage}
      BY <1>10, <2>1
  <2> QED BY <1>5, <2>1, <2>2 DEF Runs
<1>12. ASSUME NEW k \in 0 .. n - 1, k \in T PROVE k + 1 \in T
  <2>1. k + 1 \in 1 .. n /\ k + 1 \in 0 .. n /\ k + 1 # 0 /\ (k + 1) - 1 = k
      BY <1>1
  <2>2. after[k + 1] = AfterSample(after[k], on)
      BY <1>10, <2>1
  <2> QED BY <1>7, <1>12, <2>1, <2>2
<1> HIDE DEF T
<1>13. \A k \in 0 .. n : k \in T
    BY <1>1, <1>11, <1>12, UpTo
<1>14. after[n] = a[n]
    BY <1>1, <1>13 DEF T
<1>15. a[0] = {stage}
    BY <1>5 DEF Runs
<1> QED BY <1>2, <1>5, <1>7, <1>14, <1>15 DEF n, Samplings

(* While the note is held the envelope goes on, and has begun.             *)
LEMMA EnvelopeGoesOn ==
  ASSUME NEW stage \in Stage \ {"RELEASE"}
  PROVE  \A s \in AfterBuffer(stage, TRUE) : Rank[s] > 0 /\ Rank[stage] <= Rank[s]
<1> DEFINE Good == {s \in Stage : Rank[s] > 0 /\ Rank[stage] <= Rank[s]}
           n == Samples
<1>1. n \in Nat /\ n > 0
    BY InstrumentAssumption
<1>2. PICK a \in [0 .. n -> SUBSET Stage] :
        Samplings(a, stage, TRUE) /\ AfterBuffer(stage, TRUE) = a[n]
    BY BufferSteps
<1>3. /\ Rank["OFF"] = 0 /\ Rank["ATTACK"] = 1 /\ Rank["DECAY"] = 2 /\ Rank["SUSTAIN"] = 3
      /\ Rank["RELEASE"] = 0
    BY DEF Rank, Stage
<1>4. \A s \in Stage : Rank[s] > 0 <=> s \in {"ATTACK", "DECAY", "SUSTAIN"}
    BY <1>3 DEF Stage
<1>5. \A s \in Good \cup {stage} : Begun(s, TRUE) \in Good
    BY <1>3 DEF Begun, Stage
<1>6. \A s \in Good : Following[s] \in Good
  <2>1. /\ Following["ATTACK"] = "DECAY" /\ Following["DECAY"] = "SUSTAIN"
        /\ Following["SUSTAIN"] = "SUSTAIN"
      BY DEF Following, Stage
  <2> QED BY <1>3, <1>4, <2>1 DEF Stage
<1>7. \A x \in SUBSET (Good \cup {stage}) : AfterSample(x, TRUE) \subseteq Good
  <2> HIDE DEF Good
  <2> QED BY <1>5, <1>6 DEF AfterSample
<1> HIDE DEF Good, n
<1> DEFINE T == {k \in 0 .. n : a[k] \subseteq Good \cup {stage} /\ (k > 0 => a[k] \subseteq Good)}
<1>8. 0 \in T
    BY <1>1, <1>2 DEF Samplings
<1>9. ASSUME NEW k \in 0 .. n - 1, k \in T PROVE k + 1 \in T
  <2>1. k + 1 \in 1 .. n /\ k + 1 \in 0 .. n /\ (k + 1) - 1 = k
      BY <1>1
  <2>2. a[k + 1] = AfterSample(a[k], TRUE)
      BY <1>2, <2>1 DEF Samplings, n
  <2>3. a[k + 1] \subseteq Good
      BY <1>7, <1>9, <2>2
  <2> QED BY <2>1, <2>3
<1> HIDE DEF T
<1>10. \A k \in 0 .. n : k \in T
    BY <1>1, <1>8, <1>9, UpTo
<1>11. a[n] \subseteq Good
    BY <1>1, <1>10 DEF T
<1> QED BY <1>2, <1>11 DEF Good

-----------------------------------------------------------------------------
(***************************************************************************)
(* The pool: a voice is played or free, and the list of active voices.     *)
(***************************************************************************)
Event == [kind : {"NOTE_ON", "NOTE_OFF"}, note : Notes]
Voice == {Free} \cup [state : {"ACTIVE", "RELEASED"}, noteNumber : Notes, stage : Stage]
Pool == [voices : [VoiceIndex -> Voice], active : Seq(VoiceIndex)]

Playing(p) == VoiceIndex \ FreeVoices(p)

(* Every voice that plays is listed, none twice; in between, no other is.  *)
Listed(p) == Distinct(p.active) /\ Playing(p) \subseteq ToSet(p.active)
ListedOnly(p) == Distinct(p.active) /\ Playing(p) = ToSet(p.active)

Sounding(p, n) == {v \in VoiceIndex : Holds(p.voices[v], n)}

LEMMA PoolType ==
  ASSUME NEW p \in Pool
  PROVE  /\ p.voices \in [VoiceIndex -> Voice] /\ p.active \in Seq(VoiceIndex)
         /\ p = [voices |-> p.voices, active |-> p.active]
         /\ \A v \in VoiceIndex : p.voices[v] \in Voice
BY DEF Pool

LEMMA PoolMade ==
  ASSUME NEW f \in [VoiceIndex -> Voice], NEW s \in Seq(VoiceIndex)
  PROVE  /\ [voices |-> f, active |-> s] \in Pool
         /\ [voices |-> f, active |-> s].voices = f /\ [voices |-> f, active |-> s].active = s
BY DEF Pool

LEMMA VoicesOf ==
  /\ Free.state = "INACTIVE" /\ Free.stage = "OFF"
  /\ \A voice \in Voice :
       /\ voice.state \in VoiceState /\ voice.stage \in Stage
       /\ voice.state = "INACTIVE" <=> voice = Free
       /\ voice # Free => voice.noteNumber \in Notes
  /\ \A n \in Notes :
       /\ Started(n) \in Voice /\ Started(n).state = "ACTIVE" /\ Started(n).stage = "OFF"
       /\ Started(n).noteNumber = n
BY DEF Free, Voice, VoiceState, Stage, Started

LEMMA FreeVoice ==
  ASSUME NEW p, FreeVoices(p) # {}
  PROVE  FindFreeVoice(p) \in FreeVoices(p)
<1>1. FreeVoices(p) \in SUBSET Nat
    BY DEF FreeVoices, VoiceIndex
<1>2. \E v \in FreeVoices(p) : \A w \in FreeVoices(p) : v <= w
    BY <1>1, LeastNumber
<1> QED BY <1>2 DEF FindFreeVoice

LEMMA NoteOnKeeps ==
  ASSUME NEW p \in Pool, NEW n \in Notes
  PROVE  /\ NoteOnVoice(p, n) \in Pool
         /\ ListedOnly(p) => ListedOnly(NoteOnVoice(p, n))
         /\ FreeVoices(p) # {} => NoteOnVoice(p, n).voices[FindFreeVoice(p)] = Started(n)
         /\ \A v \in VoiceIndex :
              NoteOnVoice(p, n).voices[v] # p.voices[v] =>
                /\ p.voices[v].state = "INACTIVE" /\ v = FindFreeVoice(p)
                /\ NoteOnVoice(p, n).voices[v] = Started(n)
<1>1. CASE FreeVoices(p) = {}
    BY <1>1 DEF NoteOnVoice
<1>2. CASE FreeVoices(p) # {}
  <2> DEFINE u == FindFreeVoice(p)
             f == [p.voices EXCEPT ![u] = Started(n)]
             s == Append(p.active, u)
             q == NoteOnVoice(p, n)
  <2>1. u \in VoiceIndex /\ p.voices[u].state = "INACTIVE"
      BY <1>2, FreeVoice DEF FreeVoices
  <2>2. Started(n) \in Voice /\ Started(n).state = "ACTIVE"
      BY VoicesOf
  <2>3. p.voices \in [VoiceIndex -> Voice] /\ p.active \in Seq(VoiceIndex)
      BY PoolType
  <2>4. q = [voices |-> f, active |-> s]
      BY <1>2 DEF NoteOnVoice
  <2> HIDE DEF u, q
  <2>5. /\ f \in [VoiceIndex -> Voice] /\ f[u] = Started(n)
        /\ \A v \in VoiceIndex : v # u => f[v] = p.voices[v]
      BY <2>1, <2>2, <2>3
  <2>6. /\ s \in Seq(VoiceIndex) /\ ToSet(s) = ToSet(p.active) \cup {u}
        /\ Distinct(p.active) /\ u \notin ToSet(p.active) => Distinct(s)
      BY <2>1, <2>3, Appended
  <2> HIDE DEF f, s
  <2>7. q \in Pool /\ q.voices = f /\ q.active = s
      BY <2>4, <2>5, <2>6, PoolMade
  <2>8. Playing(q) = Playing(p) \cup {u} /\ u \notin Playing(p)
      BY <2>1, <2>2, <2>5, <2>7 DEF Playing, FreeVoices
  <2>9. ListedOnly(p) => ListedOnly(q)
      BY <2>6, <2>7, <2>8 DEF ListedOnly
  <2> QED BY <2>1, <2>5, <2>7, <2>9 DEF u, q
<1> QED BY <1>1, <1>2

Released(voice) == [voice EXCEPT !.state = "RELEASED"]

LEMMA NoteOffKeeps ==
  ASSUME NEW p \in Pool, NEW n \in Notes, ListedOnly(p)
  PROVE  /\ NoteOffVoice(p, n) \in Pool
         /\ ListedOnly(NoteOffVoice(p, n))
         /\ \A v \in VoiceIndex :
              NoteOffVoice(p, n).voices[v] =
                IF Holds(p.voices[v], n) THEN Released(p.voices[v]) ELSE p.voices[v]
<1> DEFINE f == [v \in VoiceIndex |->
                   IF v \in Ended(p, n) THEN Released(p.voices[v]) ELSE p.voices[v]]
           q == NoteOffVoice(p, n)
<1>1. p.voices \in [VoiceIndex -> Voice] /\ p.active \in Seq(VoiceIndex)
    BY PoolType
<1>2. q = [voices |-> f, active |-> p.active]
    BY PoolType DEF NoteOffVoice, Released
<1>3. \A v \in VoiceIndex : v \in Ended(p, n) <=> Holds(p.voices[v], n)
    BY DEF Ended, ListedOnly, Playing, FreeVoices, Holds
<1>4. \A v \in VoiceIndex : f[v] = IF Holds(p.voices[v], n) THEN Released(p.voices[v]) ELSE p.voices[v]
    BY <1>3
<1>5. \A voice \in Voice : Holds(voice, n) => Released(voice) \in Voice
    BY VoicesOf DEF Voice, Holds, Released
<1> HIDE DEF q
<1>6. f \in [VoiceIndex -> Voice]
    BY <1>1, <1>4, <1>5
<1> HIDE DEF f
<1>7. q \in Pool /\ q.voices = f /\ q.active = p.active
    BY <1>1, <1>2, <1>6, PoolMade
<1>8. ASSUME NEW v \in VoiceIndex PROVE f[v].state = "INACTIVE" <=> p.voices[v].state = "INACTIVE"
  <2>1. p.voices[v] \in Voice
      BY <1>1
  <2>2. CASE Holds(p.voices[v], n)
    <3>1. p.voices[v].state = "ACTIVE"
        BY <2>2 DEF Holds
    <3>2. p.voices[v] # Free
        BY <3>1, VoicesOf
    <3>3. Released(p.voices[v]).state = "RELEASED"
        BY <2>1, <3>2 DEF Released, Voice
    <3> QED BY <1>4, <2>2, <3>1, <3>3
  <2>3. CASE ~ Holds(p.voices[v], n)
      BY <1>4, <2>3
  <2> QED BY <2>2, <2>3
<1>9. Playing(q) = Playing(p)
    BY <1>7, <1>8 DEF Playing, FreeVoices
<1>10. ListedOnly(q)
    BY <1>7, <1>9 DEF ListedOnly
<1> QED BY <1>4, <1>7, <1>10 DEF q

LEMMA RemoveKeeps ==
  ASSUME NEW p \in Pool, Listed(p)
  PROVE  /\ RemoveInactiveVoices(p) \in Pool
         /\ ListedOnly(RemoveInactiveVoices(p))
         /\ RemoveInactiveVoices(p).voices = p.voices
<1> DEFINE s == Keep(p.active, VoiceIndex \ FreeVoices(p))
           q == RemoveInactiveVoices(p)
<1>1. p.voices \in [VoiceIndex -> Voice] /\ p.active \in Seq(VoiceIndex)
    BY PoolType
<1>2. q = [voices |-> p.voices, active |-> s]
    BY PoolType DEF RemoveInactiveVoices
<1>3. /\ s \in Seq(VoiceIndex) /\ ToSet(s) = ToSet(p.active) \cap (VoiceIndex \ FreeVoices(p))
      /\ Distinct(p.active) => Distinct(s)
    BY <1>1, KeepKeeps
<1> HIDE DEF s, q
<1>4. q \in Pool /\ q.voices = p.voices /\ q.active = s
    BY <1>1, <1>2, <1>3, PoolMade
<1>5. Playing(q) = Playing(p)
    BY <1>4 DEF Playing, FreeVoices
<1>6. ListedOnly(q)
    BY <1>3, <1>4, <1>5 DEF ListedOnly, Listed, Playing
<1> QED BY <1>4, <1>6 DEF q

-----------------------------------------------------------------------------
(***************************************************************************)
(* The instrument handles the events one by one.                           *)
(***************************************************************************)
LEMMA EventHandled ==
  ASSUME NEW p \in Pool, ListedOnly(p), NEW e \in Event
  PROVE  HandleEvent(p, e) \in Pool /\ ListedOnly(HandleEvent(p, e))
<1>1. e.note \in Notes
    BY DEF Event
<1> QED BY <1>1, NoteOnKeeps, NoteOffKeeps DEF HandleEvent

Handling(a, p, events) ==
  a[0] = p /\ \A i \in 1 .. Len(events) : a[i] = HandleEvent(a[i - 1], events[i])

ListedPool == {p \in Pool : ListedOnly(p)}

LEMMA EventSteps ==
  ASSUME NEW p \in ListedPool, NEW events \in Seq(Event)
  PROVE  \E a \in [0 .. Len(events) -> ListedPool] :
           Handling(a, p, events) /\ EventsHandled(p, events) = a[Len(events)]
<1> DEFINE n == Len(events)
           Step(f, i) == IF i = 0 THEN p ELSE HandleEvent(f[i - 1], events[i])
           after == CHOOSE f : f = [i \in 0 .. n |-> Step(f, i)]
           step == [i \in 1 .. n |-> [x \in ListedPool |-> HandleEvent(x, events[i])]]
<1>1. n \in Nat /\ \A i \in 1 .. n : events[i] \in Event
    OBVIOUS
<1>2. EventsHandled(p, events) = after[n]
    BY DEF EventsHandled
<1> HIDE DEF n
<1>3. \A i \in 1 .. n, x \in ListedPool : step[i][x] = HandleEvent(x, events[i])
    OBVIOUS
<1>4. \A i \in 1 .. n, x \in ListedPool : step[i][x] \in ListedPool
  <2> HIDE DEF step
  <2> QED BY <1>1, <1>3, EventHandled DEF ListedPool
<1> HIDE DEF step
<1>5. PICK a \in [0 .. n -> ListedPool] : Runs(a, p, step, n)
    BY <1>1, <1>4, StepByStep
<1>6. \A i \in 1 .. n : i - 1 \in 0 .. n /\ i # 0 /\ a[i - 1] \in ListedPool
    BY <1>1, <1>5
<1>7. \A i \in 1 .. n : a[i] = HandleEvent(a[i - 1], events[i])
    BY <1>3, <1>5, <1>6 DEF Runs
<1>8. a = [i \in 0 .. n |-> Step(a, i)]
  <2>1. ASSUME NEW i \in 0 .. n PROVE a[i] = Step(a, i)
    <3>1. CASE i = 0
        BY <1>5, <3>1 DEF Runs
    <3>2. CASE i # 0
      <4>1. i \in 1 .. n
          BY <1>1, <3>2
      <4> QED BY <1>7, <3>2, <4>1
    <3> QED BY <3>1, <3>2
  <2>2. a = [i \in 0 .. n |-> a[i]]
      BY <1>5
  <2> HIDE DEF Step
  <2> QED BY <2>1, <2>2
<1>9. after = [i \in 0 .. n |-> Step(after, i)]
  <2> HIDE DEF Step
  <2> QED BY <1>8
<1> HIDE DEF after
<1>10. ASSUME NEW i \in 0 .. n PROVE after[i] = Step(after, i)
  <2> HIDE DEF Step
  <2> QED BY <1>9
<1> DEFINE T == {i \in 0 .. n : after[i] = a[i]}
<1>11. 0 \in T
  <2>1. 0 \in 0 .. n
      BY <1>1
  <2>2. after[0] = p
      BY <1>10, <2>1
  <2> QED BY <1>5, <2>1, <2>2 DEF Runs
<1>12. ASSUME NEW k \in 0 .. n - 1, k \in T PROVE k + 1 \in T
  <2>1. k + 1 \in 1 .. n /\ k + 1 \in 0 .. n /\ k + 1 # 0 /\ (k + 1) - 1 = k
      BY <1>1
  <2>2. after[k + 1] = HandleEvent(after[k], events[k + 1])
      BY <1>10, <2>1
  <2> QED BY <1>7, <1>12, <2>1, <2>2
<1> HIDE DEF T
<1>13. \A k \in 0 .. n : k \in T
    BY <1>1, <1>11, <1>12, UpTo
<1>14. after[n] = a[n]
    BY <1>1, <1>13 DEF T
<1>15. a[0] = p
    BY <1>5 DEF Runs
<1> QED BY <1>2, <1>5, <1>7, <1>14, <1>15 DEF n, Handling

(* A voice changes hands only when it is free; the rest of what it holds   *)
(* stays while its note is held.                                           *)
Follows(p, q) ==
  \A v \in VoiceIndex :
    /\ q.voices[v].state = "INACTIVE" => p.voices[v].state = "INACTIVE"
    /\ q.voices[v].state = "ACTIVE" =>
         \/ q.voices[v] = p.voices[v]
         \/ p.voices[v].state = "INACTIVE" /\ q.voices[v].stage = "OFF"

LEMMA EventFollows ==
  ASSUME NEW p \in Pool, ListedOnly(p), NEW e \in Event
  PROVE  Follows(p, HandleEvent(p, e))
<1> DEFINE q == HandleEvent(p, e)
<1> SUFFICES ASSUME NEW v \in VoiceIndex, q.voices[v] # p.voices[v]
             PROVE  /\ q.voices[v].state # "INACTIVE"
                    /\ q.voices[v].state = "ACTIVE" =>
                         p.voices[v].state = "INACTIVE" /\ q.voices[v].stage = "OFF"
    BY DEF Follows
<1>1. e.note \in Notes /\ p.voices[v] \in Voice
    BY PoolType DEF Event
<1>2. CASE e.kind = "NOTE_ON"
  <2>1. q = NoteOnVoice(p, e.note)
      BY <1>2 DEF HandleEvent
  <2> HIDE DEF q
  <2>2. p.voices[v].state = "INACTIVE" /\ q.voices[v] = Started(e.note)
      BY <1>1, <2>1, NoteOnKeeps
  <2> QED BY <1>1, <2>2, VoicesOf
<1>3. CASE e.kind # "NOTE_ON"
  <2>1. q = NoteOffVoice(p, e.note)
      BY <1>3 DEF HandleEvent
  <2> HIDE DEF q
  <2>2. Holds(p.voices[v], e.note) /\ q.voices[v] = Released(p.voices[v])
      BY <1>1, <2>1, NoteOffKeeps
  <2>3. p.voices[v] # Free
      BY <2>2, VoicesOf DEF Holds
  <2>4. Released(p.voices[v]).state = "RELEASED"
      BY <1>1, <2>3 DEF Released, Voice
  <2> QED BY <2>2, <2>4
<1> QED BY <1>2, <1>3

LEMMA EventsFollow ==
  ASSUME NEW p \in ListedPool, NEW events \in Seq(Event)
  PROVE  EventsHandled(p, events) \in ListedPool /\ Follows(p, EventsHandled(p, events))
<1> DEFINE n == Len(events)
<1>1. n \in Nat /\ \A i \in 1 .. n : events[i] \in Event
    OBVIOUS
<1>2. PICK a \in [0 .. n -> ListedPool] : Handling(a, p, events) /\ EventsHandled(p, events) = a[n]
    BY EventSteps
<1> DEFINE T == {k \in 0 .. n : Follows(p, a[k])}
<1> HIDE DEF n
<1>3. 0 \in T
    BY <1>1, <1>2 DEF Handling, Follows
<1>4. ASSUME NEW k \in 0 .. n - 1, k \in T PROVE k + 1 \in T
  <2>1. k + 1 \in 1 .. n /\ k + 1 \in 0 .. n /\ (k + 1) - 1 = k /\ k \in 0 .. n
      BY <1>1
  <2>2. a[k + 1] = HandleEvent(a[k], events[k + 1])
      BY <1>2, <2>1 DEF Handling, n
  <2>3. a[k] \in Pool /\ ListedOnly(a[k]) /\ events[k + 1] \in Event
      BY <1>1, <1>2, <2>1 DEF ListedPool
  <2>4. Follows(a[k], a[k + 1])
      BY <2>2, <2>3, EventFollows
  <2>5. Follows(p, a[k])
      BY <1>4
  <2>6. Follows(p, a[k + 1])
      BY <2>4, <2>5 DEF Follows
  <2> QED BY <2>1, <2>6
<1> HIDE DEF T
<1>5. \A k \in 0 .. n : k \in T
    BY <1>1, <1>3, <1>4, UpTo
<1>6. n \in 0 .. n /\ n \in T
    BY <1>1, <1>5
<1> QED BY <1>2, <1>6 DEF T

-----------------------------------------------------------------------------
(***************************************************************************)
(* The graphs of the listed voices are processed one by one.               *)
(***************************************************************************)
AnyVoice == [state : VoiceState, noteNumber : Notes \cup {-1}, stage : Stage]
AnyPool == [voices : [VoiceIndex -> AnyVoice], active : Seq(VoiceIndex)]

Outcomes(voice) == {Plays(voice, s) : s \in AfterBuffer(voice.stage, voice.state = "ACTIVE")}

(* What may come of p when the voices of L have been processed.            *)
Outcome(p, L, q) ==
  /\ q \in AnyPool /\ q.active = p.active
  /\ \A v \in VoiceIndex : IF v \in L THEN q.voices[v] \in Outcomes(p.voices[v])
                           ELSE q.voices[v] = p.voices[v]

LEMMA BufferType ==
  ASSUME NEW stage \in Stage, NEW on \in BOOLEAN
  PROVE  AfterBuffer(stage, on) \in SUBSET Stage
<1>1. Samples \in Nat
    BY InstrumentAssumption
<1>2. PICK a \in [0 .. Samples -> SUBSET Stage] : AfterBuffer(stage, on) = a[Samples]
    BY BufferSteps
<1> QED BY <1>1, <1>2

LEMMA PlaysType ==
  ASSUME NEW voice \in AnyVoice
  PROVE  Outcomes(voice) \in SUBSET AnyVoice
<1>1. voice.stage \in Stage /\ (voice.state = "ACTIVE") \in BOOLEAN
    BY DEF AnyVoice
<1>2. AfterBuffer(voice.stage, voice.state = "ACTIVE") \in SUBSET Stage
    BY <1>1, BufferType
<1>3. Free \in AnyVoice
    BY DEF Free, AnyVoice, VoiceState, Stage
<1>4. ASSUME NEW s \in Stage PROVE Plays(voice, s) \in AnyVoice
  <2>1. [voice EXCEPT !.stage = s] \in AnyVoice
      BY DEF AnyVoice
  <2> QED BY <1>3, <2>1 DEF Plays, AfterSignal
<1> QED BY <1>2, <1>4 DEF Outcomes

LEMMA VoiceProcessed ==
  ASSUME NEW pools, pools \subseteq AnyPool, NEW v \in VoiceIndex
  PROVE  \A q \in ProcessVoice(pools, v) : \E p \in pools : Outcome(p, {v}, q)
<1> SUFFICES ASSUME NEW q \in ProcessVoice(pools, v)
             PROVE  \E p \in pools : Outcome(p, {v}, q)
    OBVIOUS
<1> DEFINE Of(p) == {[p EXCEPT !.voices = [w \in VoiceIndex |->
                        IF w = v THEN Plays(p.voices[v], s) ELSE p.voices[w]]] :
                      s \in AfterBuffer(p.voices[v].stage, IsNoteOn(p, v))}
<1>10. PICK p \in pools : q \in Of(p)
  <2>1. q \in UNION {Of(p) : p \in pools}
      BY DEF ProcessVoice
  <2> HIDE DEF Of
  <2> QED BY <2>1
<1>1. PICK s \in AfterBuffer(p.voices[v].stage, IsNoteOn(p, v)) :
        q = [p EXCEPT !.voices = [w \in VoiceIndex |->
               IF w = v THEN Plays(p.voices[v], s) ELSE p.voices[w]]]
    BY <1>10
<1> HIDE DEF Of
<1> DEFINE f == [w \in VoiceIndex |-> IF w = v THEN Plays(p.voices[v], s) ELSE p.voices[w]]
<1>2. p \in AnyPool /\ p.voices \in [VoiceIndex -> AnyVoice] /\ p.voices[v] \in AnyVoice
    BY <1>1 DEF AnyPool
<1>3. Plays(p.voices[v], s) \in Outcomes(p.voices[v])
    BY <1>1 DEF Outcomes, IsNoteOn
<1>4. Plays(p.voices[v], s) \in AnyVoice
    BY <1>2, <1>3, PlaysType
<1>5. f \in [VoiceIndex -> AnyVoice]
    BY <1>2, <1>4
<1>6. q = [voices |-> f, active |-> p.active]
    BY <1>1, <1>2 DEF AnyPool
<1>7. f[v] = Plays(p.voices[v], s) /\ \A w \in VoiceIndex : w # v => f[w] = p.voices[w]
    OBVIOUS
<1> HIDE DEF f
<1>8. q \in AnyPool /\ q.voices = f /\ q.active = p.active
    BY <1>2, <1>5, <1>6 DEF AnyPool
<1>9. Outcome(p, {v}, q)
    BY <1>3, <1>7, <1>8 DEF Outcome
<1> QED BY <1>9

Processing(a, p) ==
  a[0] = {p} /\ \A i \in 1 .. Len(p.active) : a[i] = ProcessVoice(a[i - 1], p.active[i])

LEMMA VoiceSteps ==
  ASSUME NEW p \in AnyPool
  PROVE  \E a \in [0 .. Len(p.active) -> SUBSET AnyPool] :
           Processing(a, p) /\ VoicesProcessed(p) = a[Len(p.active)]
<1> DEFINE n == Len(p.active)
           Step(f, i) == IF i = 0 THEN {p} ELSE ProcessVoice(f[i - 1], p.active[i])
           after == CHOOSE f : f = [i \in 0 .. n |-> Step(f, i)]
           step == [i \in 1 .. n |-> [x \in SUBSET AnyPool |-> ProcessVoice(x, p.active[i])]]
<1>1. n \in Nat /\ \A i \in 1 .. n : p.active[i] \in VoiceIndex
    BY DEF AnyPool
<1>2. VoicesProcessed(p) = after[n]
    BY DEF VoicesProcessed
<1> HIDE DEF n
<1>3. \A i \in 1 .. n, x \in SUBSET AnyPool : step[i][x] = ProcessVoice(x, p.active[i])
    OBVIOUS
<1>4. \A i \in 1 .. n, x \in SUBSET AnyPool : step[i][x] \in SUBSET AnyPool
  <2> HIDE DEF step
  <2>1. \A v \in VoiceIndex, x \in SUBSET AnyPool : ProcessVoice(x, v) \in SUBSET AnyPool
      BY VoiceProcessed DEF Outcome
  <2> QED BY <1>1, <1>3, <2>1
<1> HIDE DEF step
<1>5. PICK a \in [0 .. n -> SUBSET AnyPool] : Runs(a, {p}, step, n)
    BY <1>1, <1>4, StepByStep
<1>6. \A i \in 1 .. n : i - 1 \in 0 .. n /\ i # 0 /\ a[i - 1] \in SUBSET AnyPool
    BY <1>1, <1>5
<1>7. \A i \in 1 .. n : a[i] = ProcessVoice(a[i - 1], p.active[i])
    BY <1>3, <1>5, <1>6 DEF Runs
<1>8. a = [i \in 0 .. n |-> Step(a, i)]
  <2>1. ASSUME NEW i \in 0 .. n PROVE a[i] = Step(a, i)
    <3>1. CASE i = 0
        BY <1>5, <3>1 DEF Runs
    <3>2. CASE i # 0
      <4>1. i \in 1 .. n
          BY <1>1, <3>2
      <4> QED BY <1>7, <3>2, <4>1
    <3> QED BY <3>1, <3>2
  <2>2. a = [i \in 0 .. n |-> a[i]]
      BY <1>5
  <2> HIDE DEF Step
  <2> QED BY <2>1, <2>2
<1>9. after = [i \in 0 .. n |-> Step(after, i)]
  <2> HIDE DEF Step
  <2> QED BY <1>8
<1> HIDE DEF after
<1>10. ASSUME NEW i \in 0 .. n PROVE after[i] = Step(after, i)
  <2> HIDE DEF Step
  <2> QED BY <1>9
<1> DEFINE T == {i \in 0 .. n : after[i] = a[i]}
<1>11. 0 \in T
  <2>1. 0 \in 0 .. n
      BY <1>1
  <2>2. after[0] = {p}
      BY <1>10, <2>1
  <2> QED BY <1>5, <2>1, <2>2 DEF Runs
<1>12. ASSUME NEW k \in 0 .. n - 1, k \in T PROVE k + 1 \in T
  <2>1. k + 1 \in 1 .. n /\ k + 1 \in 0 .. n /\ k + 1 # 0 /\ (k + 1) - 1 = k
      BY <1>1
  <2>2. after[k + 1] = ProcessVoice(after[k], p.active[k + 1])
      BY <1>10, <2>1
  <2> QED BY <1>7, <1>12, <2>1, <2>2
<1> HIDE DEF T
<1>13. \A k \in 0 .. n : k \in T
    BY <1>1, <1>11, <1>12, UpTo
<1>14. after[n] = a[n]
    BY <1>1, <1>13 DEF T
<1>15. a[0] = {p}
    BY <1>5 DEF Runs
<1> QED BY <1>2, <1>5, <1>7, <1>14, <1>15 DEF n, Processing

LEMMA VoicesPlay ==
  ASSUME NEW p \in AnyPool, Distinct(p.active)
  PROVE  \A q \in VoicesProcessed(p) : Outcome(p, ToSet(p.active), q)
<1> DEFINE n == Len(p.active)
           First(k) == {p.active[i] : i \in 1 .. k}
<1>1. n \in Nat /\ \A i \in 1 .. n : p.active[i] \in VoiceIndex
    BY DEF AnyPool
<1>2. PICK a \in [0 .. n -> SUBSET AnyPool] : Processing(a, p) /\ VoicesProcessed(p) = a[n]
    BY VoiceSteps
<1>3. First(n) = ToSet(p.active) /\ First(0) = {}
    BY DEF ToSet, AnyPool
<1>4. \A i, j \in 1 .. n : p.active[i] = p.active[j] => i = j
    BY DEF Distinct
<1> DEFINE T == {k \in 0 .. n : \A q \in a[k] : Outcome(p, First(k), q)}
<1> HIDE DEF n
<1>5. 0 \in T
  <2>1. 0 \in 0 .. n /\ a[0] = {p}
      BY <1>1, <1>2 DEF Processing
  <2>2. Outcome(p, {}, p)
      BY DEF Outcome
  <2> HIDE DEF First
  <2> QED BY <1>3, <2>1, <2>2
<1>6. ASSUME NEW k \in 0 .. n - 1, k \in T PROVE k + 1 \in T
  <2> DEFINE v == p.active[k + 1]
  <2>1. k + 1 \in 1 .. n /\ k + 1 \in 0 .. n /\ (k + 1) - 1 = k /\ k \in 0 .. n
      BY <1>1
  <2>2. a[k + 1] = ProcessVoice(a[k], v) /\ a[k] \subseteq AnyPool /\ v \in VoiceIndex
      BY <1>1, <1>2, <2>1 DEF Processing, n
  <2>3. \A i \in 1 .. k : i \in 1 .. n /\ i # k + 1
      BY <1>1, <2>1
  <2>4. v \notin First(k)
      BY <1>4, <2>1, <2>3
  <2>5. First(k + 1) = First(k) \cup {v}
    <3>1. \A i : i \in 1 .. k + 1 <=> i \in 1 .. k \/ i = k + 1
        BY <2>1
    <3> QED BY <3>1
  <2>6. \A q \in a[k] : Outcome(p, First(k), q)
      BY <1>6
  <2> HIDE DEF v, First
  <2>7. ASSUME NEW q \in a[k + 1] PROVE Outcome(p, First(k + 1), q)
    <3>1. PICK r \in a[k] : Outcome(r, {v}, q)
        BY <2>2, VoiceProcessed
    <3>2. Outcome(p, First(k), r)
        BY <2>6
    <3> QED BY <2>2, <2>4, <2>5, <3>1, <3>2 DEF Outcome
  <2> QED BY <2>1, <2>7
<1> HIDE DEF T
<1>7. \A k \in 0 .. n : k \in T
    BY <1>1, <1>5, <1>6, UpTo
<1>8. n \in T
    BY <1>1, <1>7
<1> HIDE DEF First
<1> QED BY <1>2, <1>3, <1>8 DEF T

-----------------------------------------------------------------------------
(***************************************************************************)
(* What the three modules send.                                            *)
(***************************************************************************)
Step == 0 .. StepCount - 1

LEMMA SettingsType ==
  /\ StepCount \in Nat /\ StepCount > 0 /\ 0 \in Step
  /\ BufferSize \in Nat /\ SamplesPerStep \in Nat
  /\ Len(Tracks) \in Nat /\ DOMAIN Tracks = 1 .. Len(Tracks)
  /\ \A i \in DOMAIN Tracks :
       /\ Tracks[i].note \in Notes /\ Tracks[i].note \in Nat
       /\ \A step \in Step : Tracks[i].pattern[step + 1] \in BOOLEAN
  /\ \A s \in ArpSequences :
       /\ s \in Seq(Nat)
       /\ \A i \in 1 .. Len(s) : s[i] \in Notes
  /\ EmitterNote \in Notes /\ EmitterNote \in Nat
  /\ \A n \in Notes : n \in Nat /\ n # -1
<1> DEFINE OfTracks == {Tracks[i].note : i \in DOMAIN Tracks}
           OfSequences == UNION {ToSet(s) : s \in ArpSequences}
<1>9. Notes = OfTracks \cup {EmitterNote} \cup OfSequences
    BY DEF Notes
<1>10. /\ \A n \in OfTracks : \E i \in DOMAIN Tracks : n = Tracks[i].note
       /\ \A i \in DOMAIN Tracks : Tracks[i].note \in OfTracks
       /\ \A n \in OfSequences : \E s \in ArpSequences : n \in ToSet(s)
       /\ \A s \in ArpSequences : \A n \in ToSet(s) : n \in OfSequences
    OBVIOUS
<1> HIDE DEF OfTracks, OfSequences
<1>1. StepCount \in Nat /\ StepCount > 0 /\ BufferSize \in Nat /\ SamplesPerStep \in Nat /\ 0 \in Step
    BY InstrumentPathAssumption DEF Step
<1>2. \A step \in Step : step + 1 \in 1 .. StepCount
    BY <1>1 DEF Step
<1>3. Tracks \in Seq([note : Nat, pattern : [1 .. StepCount -> BOOLEAN]])
    BY InstrumentPathAssumption
<1>4. Len(Tracks) \in Nat /\ DOMAIN Tracks = 1 .. Len(Tracks)
    BY <1>3
<1>5. \A i \in DOMAIN Tracks :
        /\ Tracks[i].note \in Nat
        /\ Tracks[i].note \in Notes
        /\ \A step \in Step : Tracks[i].pattern[step + 1] \in BOOLEAN
  <2> SUFFICES ASSUME NEW i \in DOMAIN Tracks
               PROVE  /\ Tracks[i].note \in Nat
                      /\ Tracks[i].note \in Notes
                      /\ \A step \in Step : Tracks[i].pattern[step + 1] \in BOOLEAN
      OBVIOUS
  <2>1. Tracks[i] \in [note : Nat, pattern : [1 .. StepCount -> BOOLEAN]]
    <3> DEFINE Track == [note : Nat, pattern : [1 .. StepCount -> BOOLEAN]]
    <3>1. Tracks \in Seq(Track) /\ i \in 1 .. Len(Tracks)
        BY <1>3, <1>4
    <3> HIDE DEF Track
    <3>2. Tracks[i] \in Track
        BY <3>1
    <3> QED BY <3>2 DEF Track
  <2>2. Tracks[i].note \in Notes
      BY <1>9, <1>10
  <2> QED BY <1>2, <2>1, <2>2
<1>6. \A s \in ArpSequences : s \in Seq(Nat) /\ \A i \in 1 .. Len(s) : s[i] \in Notes
  <2> SUFFICES ASSUME NEW s \in ArpSequences
               PROVE  s \in Seq(Nat) /\ \A i \in 1 .. Len(s) : s[i] \in Notes
      OBVIOUS
  <2>1. s \in Seq(Nat)
      BY InstrumentPathAssumption
  <2>2. \A i \in 1 .. Len(s) : s[i] \in ToSet(s)
      BY <2>1, ListOf
  <2> QED BY <1>9, <1>10, <2>1, <2>2
<1>7. EmitterNote \in Nat /\ EmitterNote \in Notes
  <2>1. EmitterNote \in Nat
      BY InstrumentPathAssumption
  <2>2. EmitterNote \in Notes
      BY <1>9
  <2> QED BY <2>1, <2>2
<1>8. \A n \in Notes : n \in Nat /\ n # -1
  <2> SUFFICES ASSUME NEW n \in Notes PROVE n \in Nat /\ n # -1
      OBVIOUS
  <2>1. CASE n \in OfSequences
    <3>1. PICK s \in ArpSequences : n \in ToSet(s)
        BY <1>10, <2>1
    <3>2. s \in Seq(Nat)
        BY <1>6
    <3> QED BY <3>1, <3>2, ListOf
  <2>2. CASE n \notin OfSequences
      BY <1>5, <1>7, <1>9, <1>10, <2>2
  <2> QED BY <2>1, <2>2
<1> QED BY <1>1, <1>4, <1>5, <1>6, <1>7, <1>8

LEMMA EventType ==
  ASSUME NEW n \in Notes
  PROVE  /\ NoteOn(n) \in Event /\ NoteOff(n) \in Event
         /\ NoteOn(n).kind = "NOTE_ON" /\ NoteOff(n).kind = "NOTE_OFF"
         /\ NoteOn(n).note = n /\ NoteOff(n).note = n
         /\ Hit(n) \in Seq(Event) /\ <<NoteOn(n)>> \in Seq(Event) /\ <<NoteOff(n)>> \in Seq(Event)
BY DEF NoteOn, NoteOff, Event, Hit

HitsOf(step) ==
  [i \in DOMAIN Tracks |-> IF Tracks[i].pattern[step + 1] THEN Hit(Tracks[i].note) ELSE << >>]

LEMMA StepEventsType ==
  ASSUME NEW step \in Step
  PROVE  /\ HitsOf(step) \in Seq(Seq(Event))
         /\ StepEvents(step) = FlattenSeq(HitsOf(step))
         /\ StepEvents(step) \in Seq(Event)
<1>1. \A i \in DOMAIN Tracks : HitsOf(step)[i] \in Seq(Event)
    BY SettingsType, EventType DEF HitsOf
<1>2. HitsOf(step) \in [1 .. Len(Tracks) -> Seq(Event)]
    BY <1>1, SettingsType DEF HitsOf
<1>3. HitsOf(step) \in Seq(Seq(Event))
    BY <1>2, SettingsType
<1> QED BY <1>3, FlattenType DEF StepEvents, HitsOf

LEMMA ReadPortType ==
  ASSUME NEW port \in Seq(Event)
  PROVE  ReadPort(port) \in Seq(Event) /\ Len(ReadPort(port)) = Len(port)
<1> DEFINE n == Len(port)
<1>1. n \in Nat /\ \A i \in 1 .. n : port[i] \in Event
    OBVIOUS
<1>2. ReadPort(port) = [i \in 1 .. n |-> port[(n - i) + 1]]
    BY DEF ReadPort, Reverse
<1>3. \A i \in 1 .. n : (n - i) + 1 \in 1 .. n
    BY <1>1
<1> QED BY <1>1, <1>2, <1>3

(* The state of the three modules.                                         *)
SourcesSound ==
  /\ currentStep \in Step
  /\ firstProcess \in BOOLEAN
  /\ counter \in Nat
  /\ sequence \in ArpSequences
  /\ noteIndex \in Nat
  /\ lastNote \in Notes \cup {-1}
  /\ emitterOn \in BOOLEAN

LEMMA ArpNoteType ==
  ASSUME SourcesSound, sequence # << >>
  PROVE  ArpNote \in Notes
<1>1. sequence \in Seq(Nat) /\ \A i \in 1 .. Len(sequence) : sequence[i] \in Notes
    BY SettingsType DEF SourcesSound
<1>2. Len(sequence) \in Nat /\ Len(sequence) > 0
    BY <1>1
<1>3. noteIndex % Len(sequence) \in 0 .. Len(sequence) - 1
    BY <1>2 DEF SourcesSound
<1> HIDE DEF SourcesSound
<1>4. (noteIndex % Len(sequence)) + 1 \in 1 .. Len(sequence)
    BY <1>2, <1>3
<1> QED BY <1>1, <1>4 DEF ArpNote

LEMMA ArpEventsType ==
  ASSUME SourcesSound
  PROVE  ArpEvents \in Seq(Event)
<1>1. CASE sequence = << >>
    BY <1>1 DEF ArpEvents
<1>2. CASE sequence # << >>
  <2>1. ArpNote \in Notes
      BY <1>2, ArpNoteType
  <2>2. ArpOff(ArpNote) \in Seq(Event)
      BY EventType DEF ArpOff, SourcesSound
  <2>3. <<NoteOn(ArpNote)>> \in Seq(Event)
      BY <2>1, EventType
  <2> QED BY <1>2, <2>2, <2>3 DEF ArpEvents
<1> QED BY <1>1, <1>2

LEMMA EmitterEventsType == EmitterEvents \in Seq(Event)
BY EventType, SettingsType DEF EmitterEvents

-----------------------------------------------------------------------------
(***************************************************************************)
(* A pass.                                                                 *)
(***************************************************************************)
HeardBy(p, port) == EventsHandled(RemoveInactiveVoices(p), ReadPort(port))

LEMMA PoolIsAnyPool == ListedPool \subseteq AnyPool /\ Pool \subseteq AnyPool
<1>1. Voice \subseteq AnyVoice
    BY DEF Voice, AnyVoice, Free, VoiceState, Stage
<1>2. [VoiceIndex -> Voice] \subseteq [VoiceIndex -> AnyVoice]
    BY <1>1
<1> QED BY <1>2 DEF ListedPool, Pool, AnyPool

LEMMA PlaysVoice ==
  ASSUME NEW voice \in Voice \ {Free}, NEW next \in Outcomes(voice)
  PROVE  /\ next \in Voice
         /\ next.state # "INACTIVE" => next.state = voice.state /\ next.noteNumber = voice.noteNumber
         /\ next.state = "INACTIVE" <=> voice.state = "RELEASED" /\ HasAudioOut
         /\ next.state = "ACTIVE" => next.stage \in AfterBuffer(voice.stage, TRUE)
<1>1. /\ voice \in [state : {"ACTIVE", "RELEASED"}, noteNumber : Notes, stage : Stage]
      /\ voice.stage \in Stage /\ voice.state \in {"ACTIVE", "RELEASED"}
    BY DEF Voice
<1>2. PICK s \in AfterBuffer(voice.stage, voice.state = "ACTIVE") : next = Plays(voice, s)
    BY DEF Outcomes
<1>3. s \in Stage
    BY <1>1, <1>2, BufferType
<1> DEFINE played == [voice EXCEPT !.stage = s]
<1>4. /\ played \in [state : {"ACTIVE", "RELEASED"}, noteNumber : Notes, stage : Stage]
      /\ played.state = voice.state /\ played.noteNumber = voice.noteNumber /\ played.stage = s
    BY <1>1, <1>3
<1>5. next = IF played.state = "RELEASED" /\ HasAudioOut THEN Free ELSE played
    BY <1>2 DEF Plays, AfterSignal
<1>6. played \in Voice /\ Free \in Voice /\ Free.state = "INACTIVE"
    BY <1>4 DEF Voice, Free
<1> HIDE DEF played
<1>7. voice.state = "ACTIVE" => (voice.state = "ACTIVE") = TRUE
    OBVIOUS
<1>8. voice.state = "ACTIVE" => s \in AfterBuffer(voice.stage, TRUE)
    BY <1>2, <1>7
<1> QED BY <1>1, <1>4, <1>5, <1>6, <1>8

LEMMA PassKeeps ==
  ASSUME NEW p \in Pool, Listed(p), NEW port \in Seq(Event), NEW q \in Processed(p, port)
  PROVE  /\ HeardBy(p, port) \in ListedPool
         /\ Follows(p, HeardBy(p, port))
         /\ q \in Pool /\ Listed(q)
         /\ \A v \in VoiceIndex :
              IF HeardBy(p, port).voices[v].state = "INACTIVE"
              THEN q.voices[v] = HeardBy(p, port).voices[v]
              ELSE q.voices[v] \in Outcomes(HeardBy(p, port).voices[v])
<1> DEFINE r == RemoveInactiveVoices(p)
           h == HeardBy(p, port)
<1>1. r \in ListedPool /\ r.voices = p.voices
    BY RemoveKeeps DEF ListedPool
<1>2. ReadPort(port) \in Seq(Event)
    BY ReadPortType
<1> HIDE DEF r
<1>3. h = EventsHandled(r, ReadPort(port))
    BY DEF HeardBy, r
<1>4. h \in ListedPool /\ Follows(r, h)
    BY <1>1, <1>2, <1>3, EventsFollow
<1>5. Follows(p, h)
    BY <1>1, <1>4 DEF Follows
<1>6. q \in VoicesProcessed(h)
    BY <1>3 DEF Processed, r
<1> HIDE DEF h
<1>7. h \in Pool /\ ListedOnly(h) /\ h \in AnyPool /\ Distinct(h.active)
    BY <1>4, PoolIsAnyPool DEF ListedPool, ListedOnly
<1>8. Outcome(h, ToSet(h.active), q)
    BY <1>6, <1>7, VoicesPlay
<1>9. \A v \in VoiceIndex : v \in ToSet(h.active) <=> h.voices[v].state # "INACTIVE"
    BY <1>7 DEF ListedOnly, Playing, FreeVoices
<1>10. \A v \in VoiceIndex :
         IF h.voices[v].state = "INACTIVE"
         THEN q.voices[v] = h.voices[v]
         ELSE q.voices[v] \in Outcomes(h.voices[v])
    BY <1>8, <1>9 DEF Outcome
<1>11. \A v \in VoiceIndex : q.voices[v] \in Voice
  <2> SUFFICES ASSUME NEW v \in VoiceIndex PROVE q.voices[v] \in Voice
      OBVIOUS
  <2>1. h.voices[v] \in Voice
      BY <1>7, PoolType
  <2>2. CASE h.voices[v].state = "INACTIVE"
      BY <1>10, <2>1, <2>2
  <2>3. CASE h.voices[v].state # "INACTIVE"
    <3>1. h.voices[v] \in Voice \ {Free}
        BY <2>1, <2>3, VoicesOf
    <3> QED BY <1>10, <2>3, <3>1, PlaysVoice
  <2> QED BY <2>2, <2>3
<1>12. q \in AnyPool /\ q.active = h.active
    BY <1>8 DEF Outcome
<1>13. q \in Pool
  <2>1. q.voices \in [VoiceIndex -> Voice] /\ q.active \in Seq(VoiceIndex)
        /\ q = [voices |-> q.voices, active |-> q.active]
      BY <1>11, <1>12 DEF AnyPool
  <2> QED BY <2>1, PoolMade
<1>14. Listed(q)
  <2>1. Playing(q) \subseteq Playing(h)
      BY <1>10 DEF Playing, FreeVoices
  <2> QED BY <1>7, <1>12, <2>1 DEF Listed, ListedOnly
<1> QED BY <1>4, <1>5, <1>10, <1>13, <1>14 DEF h

-----------------------------------------------------------------------------
(***************************************************************************)
(* The invariant.                                                          *)
(***************************************************************************)
EnvelopesBegun(p) == \A v \in VoiceIndex : p.voices[v].state = "ACTIVE" => Rank[p.voices[v].stage] > 0

PoolSound == pool \in Pool /\ Listed(pool) /\ EnvelopesBegun(pool)

PathSound == PoolSound /\ SourcesSound

LEMMA SilentPoolSound ==
  SilentPool \in Pool /\ Listed(SilentPool) /\ EnvelopesBegun(SilentPool)
<1>1. \A v \in VoiceIndex : SilentPool.voices[v] = Free
    BY DEF SilentPool
<1>2. SilentPool.active = << >> /\ SilentPool \in Pool
    BY DEF SilentPool, Pool, Voice
<1>3. Free.state = "INACTIVE"
    BY VoicesOf
<1>4. Playing(SilentPool) = {}
    BY <1>1, <1>3 DEF Playing, FreeVoices
<1>5. Distinct(SilentPool.active)
    BY <1>2 DEF Distinct
<1>6. EnvelopesBegun(SilentPool)
    BY <1>1, <1>3 DEF EnvelopesBegun
<1> QED BY <1>2, <1>4, <1>5, <1>6 DEF Listed

LEMMA PathStarts == PathInit => PathSound
<1> SUFFICES ASSUME PathInit PROVE PathSound
    OBVIOUS
<1>1. PoolSound
    BY SilentPoolSound DEF PathInit, PoolSound
<1>2. SourcesSound
    BY SettingsType DEF PathInit, SourcesSound
<1> QED BY <1>1, <1>2 DEF PathSound

LEMMA SourcesKeep ==
  ASSUME SourcesSound, PathNext
  PROVE  SourcesSound'
<1>1. CASE SetSequence
    BY <1>1 DEF SetSequence, SourcesSound, sequencer
<1>2. CASE Pass
  <2>1. PICK arpFires, emitterFires \in BOOLEAN :
          /\ SequencerProcesses
          /\ IF arpFires THEN ArpProcesses ELSE UNCHANGED arpegiator
          /\ emitterOn' = IF emitterFires THEN ~ emitterOn ELSE emitterOn
      BY <1>2 DEF Pass
  <2>2. firstProcess' \in BOOLEAN /\ counter' \in Nat /\ currentStep' \in Step
    <3>1. StepCount \in Nat /\ StepCount > 0 /\ BufferSize \in Nat
        BY SettingsType
    <3>2. currentStep \in 0 .. StepCount - 1 /\ counter \in Nat
        BY DEF SourcesSound, Step
    <3>3. (currentStep + 1) % StepCount \in 0 .. StepCount - 1
        BY <3>1, <3>2
    <3>4. counter + BufferSize \in Nat /\ 0 \in Nat
        BY <3>1, <3>2
    <3>5. counter' = 0 \/ counter' = counter + BufferSize
        BY <2>1 DEF SequencerProcesses
    <3>6. currentStep' = (currentStep + 1) % StepCount \/ currentStep' = currentStep
        BY <2>1 DEF SequencerProcesses
    <3>7. firstProcess' \in BOOLEAN
        BY <2>1 DEF SequencerProcesses
    <3>8. currentStep' \in 0 .. StepCount - 1
        BY <3>2, <3>3, <3>6
    <3> QED BY <3>4, <3>5, <3>7, <3>8 DEF Step
  <2>3. sequence' \in ArpSequences /\ noteIndex' \in Nat /\ lastNote' \in Notes \cup {-1}
    <3>1. CASE arpFires /\ sequence # << >>
      <4>1. /\ noteIndex' = (noteIndex + 1) % IndexPeriod /\ lastNote' = ArpNote
            /\ sequence' = sequence
          BY <2>1, <3>1 DEF ArpProcesses
      <4>2. ArpNote \in Notes
          BY <3>1, ArpNoteType
      <4>3. IndexPeriod \in Nat /\ IndexPeriod > 0
          BY InstrumentPathAssumption
      <4>4. noteIndex \in Nat /\ sequence \in ArpSequences
          BY DEF SourcesSound
      <4>5. (noteIndex + 1) % IndexPeriod \in Nat
          BY <4>3, <4>4
      <4> QED BY <4>1, <4>2, <4>4, <4>5
    <3>2. CASE ~ (arpFires /\ sequence # << >>)
        BY <2>1, <3>2 DEF ArpProcesses, arpegiator, SourcesSound
    <3> QED BY <3>1, <3>2
  <2>4. emitterOn' \in BOOLEAN
      BY <2>1 DEF SourcesSound
  <2> QED BY <2>2, <2>3, <2>4 DEF SourcesSound
<1> QED BY <1>1, <1>2 DEF PathNext

LEMMA PortType ==
  ASSUME SourcesSound, SourcesSound', NEW arpFires \in BOOLEAN, NEW emitterFires \in BOOLEAN
  PROVE  Port(arpFires, emitterFires) \in Seq(Event)
<1>1. currentStep \in Step /\ currentStep' \in Step
    BY DEF SourcesSound
<1>2. StepEvents(currentStep) \in Seq(Event) /\ StepEvents(currentStep') \in Seq(Event)
    BY <1>1, StepEventsType
<1>3. << >> \in Seq(Event)
    OBVIOUS
<1>4. SequencerEvents \in Seq(Event)
    BY <1>2, <1>3 DEF SequencerEvents
<1>5. (IF arpFires THEN ArpEvents ELSE << >>) \in Seq(Event)
    BY <1>3, ArpEventsType
<1>6. (IF emitterFires THEN EmitterEvents ELSE << >>) \in Seq(Event)
    BY <1>3, EmitterEventsType
<1> QED BY <1>4, <1>5, <1>6 DEF Port

(* While a note is held, the envelope of its voice goes on.                *)
GoesOn(p, q) ==
  \A v \in VoiceIndex :
    q.voices[v].state = "ACTIVE" =>
      /\ Rank[q.voices[v].stage] > 0
      /\ p.voices[v].state = "ACTIVE" => Rank[p.voices[v].stage] <= Rank[q.voices[v].stage]

PoolKept(p, port, q) == q \in Pool /\ Listed(q) /\ EnvelopesBegun(q) /\ GoesOn(p, q)

LEMMA PoolKeeps ==
  ASSUME NEW p \in Pool, Listed(p), EnvelopesBegun(p), NEW port \in Seq(Event),
         NEW q \in Processed(p, port)
  PROVE  PoolKept(p, port, q)
<1> DEFINE h == HeardBy(p, port)
<1>1. /\ h \in Pool /\ Follows(p, h)
      /\ q \in Pool /\ Listed(q)
      /\ \A v \in VoiceIndex :
           IF h.voices[v].state = "INACTIVE"
           THEN q.voices[v] = h.voices[v]
           ELSE q.voices[v] \in Outcomes(h.voices[v])
    BY PassKeeps DEF ListedPool
<1> HIDE DEF h
<1>2. GoesOn(p, q)
  <2> SUFFICES ASSUME NEW v \in VoiceIndex, q.voices[v].state = "ACTIVE"
               PROVE  /\ Rank[q.voices[v].stage] > 0
                      /\ p.voices[v].state = "ACTIVE" =>
                           Rank[p.voices[v].stage] <= Rank[q.voices[v].stage]
      BY DEF GoesOn
  <2>1. p.voices[v] \in Voice /\ h.voices[v] \in Voice
      BY <1>1, PoolType
  <2>2. h.voices[v] # Free /\ q.voices[v] \in Outcomes(h.voices[v])
      BY <1>1, <2>1, VoicesOf
  <2>3. /\ h.voices[v].state = "ACTIVE"
        /\ q.voices[v].stage \in AfterBuffer(h.voices[v].stage, TRUE)
      BY <2>1, <2>2, PlaysVoice
  <2>4. \/ h.voices[v] = p.voices[v]
        \/ p.voices[v].state = "INACTIVE" /\ h.voices[v].stage = "OFF"
      BY <1>1, <2>3 DEF Follows
  <2>5. h.voices[v].stage \in Stage \ {"RELEASE"}
    <3>1. Rank["RELEASE"] = 0
        BY DEF Rank, Stage
    <3>2. h.voices[v].stage \in Stage
        BY <2>1, VoicesOf
    <3> QED BY <2>3, <2>4, <3>1, <3>2 DEF EnvelopesBegun
  <2>6. Rank[q.voices[v].stage] > 0 /\ Rank[h.voices[v].stage] <= Rank[q.voices[v].stage]
      BY <2>3, <2>5, EnvelopeGoesOn
  <2>7. "INACTIVE" # "ACTIVE"
      OBVIOUS
  <2> QED BY <2>4, <2>6, <2>7
<1>3. EnvelopesBegun(q)
    BY <1>2 DEF GoesOn, EnvelopesBegun
<1> QED BY <1>1, <1>2, <1>3 DEF PoolKept

LEMMA PathKeeps == PathSound /\ [PathNext]_pathVars => PathSound'
<1> SUFFICES ASSUME PathSound, [PathNext]_pathVars PROVE PathSound'
    OBVIOUS
<1>0. PoolSound /\ SourcesSound
    BY DEF PathSound
<1>1. CASE UNCHANGED pathVars
  <2>1. PoolSound'
      BY <1>0, <1>1 DEF pathVars, PoolSound
  <2>2. SourcesSound'
      BY <1>0, <1>1 DEF pathVars, sequencer, arpegiator, SourcesSound
  <2> QED BY <2>1, <2>2 DEF PathSound
<1>2. CASE PathNext
  <2>1. SourcesSound'
      BY <1>0, <1>2, SourcesKeep
  <2>2. CASE SetSequence
    <3>1. PoolSound'
        BY <1>0, <2>2 DEF SetSequence, PoolSound
    <3> QED BY <2>1, <3>1 DEF PathSound
  <2>3. CASE Pass
    <3>1. PICK arpFires, emitterFires \in BOOLEAN : pool' \in Processed(pool, Port(arpFires, emitterFires))
        BY <2>3 DEF Pass
    <3>2. PICK port \in Seq(Event) : pool' \in Processed(pool, port)
        BY <1>0, <2>1, <3>1, PortType
    <3>3. PICK q : q = pool'
        OBVIOUS
    <3>4. PoolKept(pool, port, q)
        BY <1>0, <3>2, <3>3, PoolKeeps DEF PoolSound
    <3>5. PoolSound'
        BY <3>3, <3>4 DEF PoolKept, PoolSound
    <3> QED BY <2>1, <3>5 DEF PathSound
  <2> QED BY <1>2, <2>2, <2>3 DEF PathNext
<1> QED BY <1>1, <1>2

LEMMA PathAlwaysSound == PathSpec => []PathSound
<1> QED BY PathStarts, PathKeeps, PTL DEF PathSpec

-----------------------------------------------------------------------------

(***************************************************************************)
(* Voices are neither lost nor handed out twice, whatever comes in.        *)
(***************************************************************************)
THEOREM VoicesAlwaysAccountedFor == PathSpec => []VoicesAccountedFor
<1>1. ASSUME PathSound PROVE VoicesAccountedFor
  <2>1. pool \in Pool /\ Listed(pool)
      BY <1>1 DEF PathSound, PoolSound
  <2>2. pool.active \in Seq(VoiceIndex)
      BY <2>1, PoolType
  <2>3. Len(pool.active) = Cardinality(ToSet(pool.active))
      BY <2>1, <2>2, CountDistinct DEF Listed
  <2> QED BY <2>1, <2>3 DEF VoicesAccountedFor, Listed, Playing
<1> QED BY <1>1, PathAlwaysSound, PTL

(***************************************************************************)
(* The envelope of a voice follows the note of that voice.                 *)
(***************************************************************************)
THEOREM EnvelopesFollowNotes == PathSpec => EnvelopeFollowsNote
<1> DEFINE Follow ==
      \A v \in VoiceIndex :
        LET before == pool.voices[v]
            after == pool'.voices[v]
        IN  after.state = "ACTIVE" =>
              /\ Rank[after.stage] > 0
              /\ before.state = "ACTIVE" => Rank[before.stage] <= Rank[after.stage]
<1>1. ASSUME PathSound, PathSound', [PathNext]_pathVars PROVE [Follow]_pathVars
  <2>0. PoolSound /\ SourcesSound /\ SourcesSound'
      BY <1>1 DEF PathSound
  <2>1. CASE Pass
    <3>1. PICK arpFires, emitterFires \in BOOLEAN : pool' \in Processed(pool, Port(arpFires, emitterFires))
        BY <2>1 DEF Pass
    <3>2. PICK port \in Seq(Event) : pool' \in Processed(pool, port)
        BY <2>0, <3>1, PortType
    <3>3. PICK q : q = pool'
        OBVIOUS
    <3>4. GoesOn(pool, q)
        BY <2>0, <3>2, <3>3, PoolKeeps DEF PoolSound, PoolKept
    <3> QED BY <3>3, <3>4 DEF GoesOn
  <2>2. CASE SetSequence \/ UNCHANGED pathVars
    <3>1. pool' = pool
        BY <2>2 DEF SetSequence, pathVars
    <3>2. \A v \in VoiceIndex : pool.voices[v].stage \in Stage
        BY <2>0, PoolType, VoicesOf DEF PoolSound
    <3>3. \A s \in Stage : Rank[s] <= Rank[s]
        BY DEF Rank, Stage
    <3> QED BY <2>0, <3>1, <3>2, <3>3 DEF PoolSound, EnvelopesBegun
  <2> QED BY <1>1, <2>1, <2>2 DEF PathNext
<1>2. PathSound /\ PathSound' /\ [PathNext]_pathVars => [Follow]_pathVars
    BY <1>1
<1>3. EnvelopeFollowsNote <=> [][Follow]_pathVars
    BY DEF EnvelopeFollowsNote
<1> HIDE DEF Follow
<1> QED BY <1>2, <1>3, PathAlwaysSound, PTL DEF PathSpec

-----------------------------------------------------------------------------
(***************************************************************************)
(* Reading the second of two sequences joined comes first.                 *)
(***************************************************************************)
Turned(s, t) == Reverse(s \o t) = Reverse(t) \o Reverse(s)

LEMMA ReverseIs ==
  ASSUME NEW A, NEW s \in Seq(A)
  PROVE  /\ Reverse(s) \in Seq(A) /\ Len(Reverse(s)) = Len(s)
         /\ \A i \in 1 .. Len(s) : Reverse(s)[i] = s[(Len(s) - i) + 1]
<1> DEFINE n == Len(s)
<1>1. n \in Nat /\ \A i \in 1 .. n : s[i] \in A
    OBVIOUS
<1>2. Reverse(s) = [i \in 1 .. n |-> s[(n - i) + 1]]
    BY DEF Reverse
<1>3. \A i \in 1 .. n : (n - i) + 1 \in 1 .. n
    BY <1>1
<1> QED BY <1>1, <1>2, <1>3

LEMMA ReverseJoined ==
  ASSUME NEW A, NEW s \in Seq(A), NEW t \in Seq(A)
  PROVE  Turned(s, t)
<1> DEFINE u == s \o t
           m == Len(s)
           n == Len(t)
           a == Reverse(t)
           b == Reverse(s)
           r == Reverse(u)
<1>1. u \in Seq(A) /\ m \in Nat /\ n \in Nat /\ Len(u) = m + n
      /\ \A i \in 1 .. m : u[i] = s[i]
    OBVIOUS
<1>2. \A i \in 1 .. n : u[m + i] = t[i]
    BY BehindAnother
<1>3. /\ a \in Seq(A) /\ Len(a) = n /\ \A i \in 1 .. n : a[i] = t[(n - i) + 1]
      /\ b \in Seq(A) /\ Len(b) = m /\ \A i \in 1 .. m : b[i] = s[(m - i) + 1]
    BY ReverseIs
<1> HIDE DEF u, m, n, a, b
<1>4. r \in Seq(A) /\ Len(r) = m + n /\ \A i \in 1 .. m + n : r[i] = u[((m + n) - i) + 1]
  <2>1. r \in Seq(A) /\ Len(r) = Len(u) /\ \A i \in 1 .. Len(u) : r[i] = u[(Len(u) - i) + 1]
      BY <1>1, ReverseIs
  <2> HIDE DEF r
  <2> QED BY <1>1, <2>1
<1> HIDE DEF r
<1>5. ASSUME NEW i \in 1 .. n PROVE r[i] = a[i]
  <2>1. i \in 1 .. m + n /\ (n - i) + 1 \in 1 .. n /\ ((m + n) - i) + 1 = m + ((n - i) + 1)
      BY <1>1
  <2>2. r[i] = u[m + ((n - i) + 1)]
      BY <1>4, <2>1
  <2>3. u[m + ((n - i) + 1)] = t[(n - i) + 1]
      BY <1>2, <2>1
  <2> QED BY <1>3, <2>2, <2>3
<1>6. ASSUME NEW i \in 1 .. m PROVE r[n + i] = b[i]
  <2>1. n + i \in 1 .. m + n /\ (m - i) + 1 \in 1 .. m /\ ((m + n) - (n + i)) + 1 = (m - i) + 1
      BY <1>1
  <2>2. r[n + i] = u[(m - i) + 1]
      BY <1>4, <2>1
  <2>3. u[(m - i) + 1] = s[(m - i) + 1]
      BY <1>1, <2>1
  <2> QED BY <1>3, <2>2, <2>3
<1>7. Joined(r, a, b)
  <2>1. a \in Seq(A) /\ b \in Seq(A) /\ Len(a) = n /\ Len(b) = m /\ Len(r) = Len(a) + Len(b)
      BY <1>1, <1>3, <1>4
  <2>2. \A i \in 1 .. Len(a) : r[i] = a[i]
      BY <1>5, <2>1
  <2>3. \A i \in 1 .. Len(b) : r[Len(a) + i] = b[i]
      BY <1>6, <2>1
  <2> QED BY <1>4, <2>1, <2>2, <2>3, JoinsUp
<1> QED BY <1>7 DEF Joined, Turned, r, a, b, u

-----------------------------------------------------------------------------
(***************************************************************************)
(* Reading a port, in which the last event comes first: from x it leads to *)
(* y by the steps of step.                                                 *)
(***************************************************************************)
Reads(step, S, x, port, y) == Leads(step, S, x, ReadPort(port), y)

LEMMA ReadsNothing ==
  ASSUME NEW step, NEW S, NEW x \in S
  PROVE  Reads(step, S, x, << >>, x)
<1>1. Reverse(<< >>) = << >>
  <2>1. << >> \in Seq({})
      OBVIOUS
  <2>2. Reverse(<< >>) \in Seq({}) /\ Len(Reverse(<< >>)) = 0
      BY <2>1, ReverseIs
  <2> QED BY <2>2
<1> QED BY <1>1, LeadsNowhere DEF Reads, ReadPort

LEMMA ReadsOne ==
  ASSUME NEW step, NEW S, NEW x \in S, NEW y \in S, NEW e, <<x, e, y>> \in step
  PROVE  Reads(step, S, x, <<e>>, y)
<1>1. Reverse(<<e>>) = <<e>>
  <2>1. PICK A : A = {e}
      OBVIOUS
  <2>2. PICK s : s = <<e>>
      OBVIOUS
  <2>3. s \in Seq(A) /\ Len(s) = 1 /\ s[1] = e
    <3>1. <<e>> \in Seq(A)
        BY <2>1, OneItem
    <3> QED BY <2>2, <3>1
  <2>6. PICK r : r = Reverse(s)
      OBVIOUS
  <2>7. r \in Seq(A) /\ Len(r) = 1 /\ r[1] = s[1]
    <3>1. /\ r \in Seq(A) /\ Len(r) = Len(s)
          /\ \A i \in 1 .. Len(s) : r[i] = s[(Len(s) - i) + 1]
        BY <2>3, <2>6, ReverseIs
    <3>2. r[1] = s[(1 - 1) + 1]
        BY <2>3, <3>1
    <3> QED BY <2>3, <3>1, <3>2
  <2>4. r[1] = e
      BY <2>3, <2>7
  <2>5. r = <<e>>
      BY <2>4, <2>7
  <2> QED BY <2>2, <2>5, <2>6
<1> QED BY <1>1, LeadsOne DEF Reads, ReadPort

LEMMA ReadsBoth ==
  ASSUME NEW step, NEW S, NEW A, NEW s \in Seq(A), NEW t \in Seq(A), NEW x, NEW y, NEW z,
         Reads(step, S, x, t, y), Reads(step, S, y, s, z)
  PROVE  Reads(step, S, x, s \o t, z)
<1>1. Reverse(s) \in Seq(A) /\ Reverse(t) \in Seq(A)
    BY ReverseIs
<1>2. Reverse(s \o t) = Reverse(t) \o Reverse(s)
    BY ReverseJoined DEF Turned
<1>3. Leads(step, S, x, Reverse(t), y) /\ Leads(step, S, y, Reverse(s), z)
    BY DEF Reads, ReadPort
<1>4. Leads(step, S, x, Reverse(t) \o Reverse(s), z)
    BY <1>1, <1>3, LeadsOn
<1> QED BY <1>2, <1>4 DEF Reads, ReadPort

(***************************************************************************)
(* How many voices the events of a port hold for note n, and how many they *)
(* take, a voice being there for each.                                     *)
(***************************************************************************)
HeldAfter(n, x, e) == IF e.note # n THEN x ELSE IF e.kind = "NOTE_ON" THEN x + 1 ELSE 0
Holding(n) == {s \in Nat \X Event \X Nat : s[3] = HeldAfter(n, s[1], s[2])}

TakenAfter(x, e) == IF e.kind = "NOTE_ON" THEN x + 1 ELSE x
Room == 0 .. NumVoices
Taking == {s \in Room \X Event \X Room : s[3] = TakenAfter(s[1], s[2])}

LEMMA HoldsNext ==
  ASSUME NEW n, NEW x \in Nat, NEW e \in Event
  PROVE  HeldAfter(n, x, e) \in Nat /\ <<x, e, HeldAfter(n, x, e)>> \in Holding(n)
<1>1. HeldAfter(n, x, e) \in Nat
    BY DEF HeldAfter
<1> QED BY <1>1 DEF Holding

LEMMA TakesNext ==
  ASSUME NEW x \in Room, NEW e \in Event, TakenAfter(x, e) \in Room
  PROVE  <<x, e, TakenAfter(x, e)>> \in Taking
BY DEF Taking

(* A hit leaves one voice held for its note, whatever was held before.     *)
LEMMA HitHolds ==
  ASSUME NEW m \in Notes, NEW n, NEW x \in Nat
  PROVE  Reads(Holding(n), Nat, x, Hit(m), IF m = n THEN 1 ELSE x)
<1> DEFINE on == NoteOn(m)
           off == NoteOff(m)
           y == IF m = n THEN 0 ELSE x
           z == IF m = n THEN 1 ELSE x
<1>1. on \in Event /\ off \in Event /\ on.kind = "NOTE_ON" /\ off.kind = "NOTE_OFF"
      /\ on.note = m /\ off.note = m
    BY EventType
<1>2. Hit(m) = <<on>> \o <<off>>
    BY DEF Hit
<1> HIDE DEF on, off
<1>3. HeldAfter(n, x, off) = y /\ HeldAfter(n, y, on) = z
    BY <1>1 DEF HeldAfter
<1>4. y \in Nat /\ z \in Nat
    OBVIOUS
<1>5. <<x, off, y>> \in Holding(n) /\ <<y, on, z>> \in Holding(n)
    BY <1>1, <1>3, <1>4, HoldsNext
<1> HIDE DEF y, z
<1>6. Reads(Holding(n), Nat, x, <<off>>, y) /\ Reads(Holding(n), Nat, y, <<on>>, z)
    BY <1>4, <1>5, ReadsOne
<1>7. <<on>> \in Seq(Event) /\ <<off>> \in Seq(Event)
    BY <1>1, OneItem
<1>8. Reads(Holding(n), Nat, x, <<on>> \o <<off>>, z)
    BY <1>6, <1>7, ReadsBoth
<1> QED BY <1>2, <1>8 DEF z

LEMMA HitTakes ==
  ASSUME NEW m \in Notes, NEW x \in Room, x + 1 \in Room
  PROVE  Reads(Taking, Room, x, Hit(m), x + 1)
<1> DEFINE on == NoteOn(m)
           off == NoteOff(m)
<1>1. on \in Event /\ off \in Event /\ on.kind = "NOTE_ON" /\ off.kind = "NOTE_OFF"
    BY EventType
<1>2. Hit(m) = <<on>> \o <<off>>
    BY DEF Hit
<1> HIDE DEF on, off
<1>3. TakenAfter(x, off) = x /\ TakenAfter(x, on) = x + 1
    BY <1>1 DEF TakenAfter
<1>4. <<x, off, x>> \in Taking /\ <<x, on, x + 1>> \in Taking
    BY <1>1, <1>3, TakesNext
<1>6. Reads(Taking, Room, x, <<off>>, x) /\ Reads(Taking, Room, x, <<on>>, x + 1)
    BY <1>4, ReadsOne
<1>7. <<on>> \in Seq(Event) /\ <<off>> \in Seq(Event)
    BY <1>1, OneItem
<1>8. Reads(Taking, Room, x, <<on>> \o <<off>>, x + 1)
    BY <1>6, <1>7, ReadsBoth
<1> QED BY <1>2, <1>8

-----------------------------------------------------------------------------
(* The notes that the sequencer hits in a step.                            *)
Played(step, i) == Tracks[i].pattern[step + 1]
HitNotes(step) == {Tracks[i].note : i \in {j \in DOMAIN Tracks : Played(step, j)}}

(* The notes of the first k tracks among them.                             *)
HitBy(step, k, n) == \E i \in 1 .. k : Played(step, i) /\ Tracks[i].note = n

LEMMA HitByNext ==
  ASSUME NEW step, NEW k \in Nat, NEW n
  PROVE  HitBy(step, k + 1, n) <=>
           HitBy(step, k, n) \/ (Played(step, k + 1) /\ Tracks[k + 1].note = n)
<1>1. 1 .. k + 1 = (1 .. k) \cup {k + 1}
    OBVIOUS
<1> QED BY <1>1 DEF HitBy

LEMMA HitByAll ==
  ASSUME NEW step, NEW n
  PROVE  HitBy(step, Len(Tracks), n) <=> n \in HitNotes(step)
BY SettingsType DEF HitBy, HitNotes

LEMMA Pieces ==
  ASSUME NEW ss \in Seq(Seq(Event)), NEW i \in 1 .. Len(ss)
  PROVE  ss[i] \in Seq(Event)
<1> DEFINE S == Seq(Event)
<1>1. ss \in Seq(S)
    OBVIOUS
<1> HIDE DEF S
<1>2. ss[i] \in S
    BY <1>1
<1> QED BY <1>2 DEF S

LEMMA StepHolds ==
  ASSUME NEW step \in Step, NEW n, NEW x \in Nat
  PROVE  Reads(Holding(n), Nat, x, StepEvents(step), IF n \in HitNotes(step) THEN 1 ELSE x)
<1> DEFINE m == Len(Tracks)
           ss == HitsOf(step)
<1>1. m \in Nat /\ DOMAIN Tracks = 1 .. m
    BY SettingsType
<1>2. /\ ss \in Seq(Seq(Event)) /\ Len(ss) = m
      /\ StepEvents(step) = FlattenSeq(ss)
      /\ \A i \in 1 .. m : ss[i] = IF Played(step, i) THEN Hit(Tracks[i].note) ELSE << >>
    BY <1>1, StepEventsType DEF HitsOf, Played
<1> HIDE DEF ss, m
<1>3. PICK g \in [0 .. m -> Seq(Event)] : Flattens(g, ss) /\ FlattenSeq(ss) = g[m]
    BY <1>2, FlattenSteps
<1> DEFINE After(k, y) == IF HitBy(step, k, n) THEN 1 ELSE y
           T == {k \in 0 .. m : \A y \in Nat : Reads(Holding(n), Nat, y, g[k], After(k, y))}
<1>4. 0 \in T
  <2>1. g[0] = << >> /\ 0 \in 0 .. m
      BY <1>1, <1>3 DEF Flattens
  <2>2. \A y \in Nat : Reads(Holding(n), Nat, y, << >>, y)
      BY ReadsNothing
  <2>3. ~ HitBy(step, 0, n)
      BY DEF HitBy
  <2> QED BY <2>1, <2>2, <2>3
<1>5. ASSUME NEW k \in 0 .. m - 1, k \in T PROVE k + 1 \in T
  <2> DEFINE c == g[k]
             e == ss[k + 1]
  <2>1. k \in Nat /\ k \in 0 .. m /\ k + 1 \in 1 .. m /\ k + 1 \in 0 .. m /\ (k + 1) - 1 = k
      BY <1>1
  <2>2. c \in Seq(Event) /\ e \in Seq(Event) /\ g[k + 1] = c \o e
    <3>1. c \in Seq(Event)
        BY <1>3, <2>1
    <3>2. e \in Seq(Event)
        BY <1>2, <2>1, Pieces
    <3>3. g[k + 1] = g[(k + 1) - 1] \o ss[k + 1]
        BY <1>2, <1>3, <2>1 DEF Flattens
    <3> QED BY <2>1, <3>1, <3>2, <3>3
  <2>3. e = IF Played(step, k + 1) THEN Hit(Tracks[k + 1].note) ELSE << >>
      BY <1>2, <2>1
  <2> DEFINE Hits == Played(step, k + 1) /\ Tracks[k + 1].note = n
  <2>4. \A y \in Nat : Reads(Holding(n), Nat, y, c, After(k, y))
      BY <1>5
  <2>5. HitBy(step, k + 1, n) <=> HitBy(step, k, n) \/ Hits
      BY <2>1, HitByNext
  <2> HIDE DEF c, e
  <2>6. ASSUME NEW y \in Nat PROVE Reads(Holding(n), Nat, y, c \o e, After(k + 1, y))
    <3> DEFINE z == IF Hits THEN 1 ELSE y
    <3>1. z \in Nat
        OBVIOUS
    <3>2. Reads(Holding(n), Nat, y, e, z)
      <4>1. CASE Played(step, k + 1)
        <5>1. Tracks[k + 1].note \in Notes
            BY <1>1, <2>1, SettingsType
        <5> QED BY <2>3, <4>1, <5>1, HitHolds
      <4>2. CASE ~ Played(step, k + 1)
          BY <2>3, <4>2, ReadsNothing
      <4> QED BY <4>1, <4>2
    <3>3. After(k, z) = After(k + 1, y)
        BY <2>5
    <3> HIDE DEF z, After
    <3>4. Reads(Holding(n), Nat, z, c, After(k, z))
        BY <2>4, <3>1
    <3> QED BY <2>2, <3>2, <3>3, <3>4, ReadsBoth
  <2> HIDE DEF After
  <2>7. \A y \in Nat : Reads(Holding(n), Nat, y, g[k + 1], After(k + 1, y))
      BY <2>2, <2>6
  <2> QED BY <2>1, <2>7
<1> HIDE DEF T
<1>6. \A k \in 0 .. m : k \in T
    BY <1>1, <1>4, <1>5, UpTo
<1>7. Reads(Holding(n), Nat, x, g[m], After(m, x))
    BY <1>1, <1>6 DEF T
<1>8. After(m, x) = IF n \in HitNotes(step) THEN 1 ELSE x
    BY HitByAll DEF m
<1> QED BY <1>2, <1>3, <1>7, <1>8

(* A step takes no more voices than there are tracks.                      *)
LEMMA StepTakes ==
  ASSUME NEW step \in Step, NEW x \in Room, x + Len(Tracks) \in Room
  PROVE  \E y \in x .. x + Len(Tracks) : Reads(Taking, Room, x, StepEvents(step), y)
<1> DEFINE m == Len(Tracks)
           ss == HitsOf(step)
<1>1. m \in Nat /\ DOMAIN Tracks = 1 .. m /\ NumVoices \in Nat
    BY SettingsType, InstrumentAssumption
<1>2. /\ ss \in Seq(Seq(Event)) /\ Len(ss) = m
      /\ StepEvents(step) = FlattenSeq(ss)
      /\ \A i \in 1 .. m : ss[i] = IF Played(step, i) THEN Hit(Tracks[i].note) ELSE << >>
    BY <1>1, StepEventsType DEF HitsOf, Played
<1> HIDE DEF ss, m
<1>3. PICK g \in [0 .. m -> Seq(Event)] : Flattens(g, ss) /\ FlattenSeq(ss) = g[m]
    BY <1>2, FlattenSteps
<1> DEFINE Ends(k, y) == \E z \in y .. y + k : Reads(Taking, Room, y, g[k], z)
           T == {k \in 0 .. m : \A y \in Room : y + k \in Room => Ends(k, y)}
<1>4. 0 \in T
  <2>1. g[0] = << >> /\ 0 \in 0 .. m
      BY <1>1, <1>3 DEF Flattens
  <2>2. \A y \in Room : Reads(Taking, Room, y, << >>, y)
      BY ReadsNothing
  <2>3. \A y \in Room : y \in y .. y + 0
      BY <1>1 DEF Room
  <2> QED BY <2>1, <2>2, <2>3
<1>5. ASSUME NEW k \in 0 .. m - 1, k \in T PROVE k + 1 \in T
  <2> DEFINE c == g[k]
             e == ss[k + 1]
  <2>1. k \in Nat /\ k \in 0 .. m /\ k + 1 \in 1 .. m /\ k + 1 \in 0 .. m /\ (k + 1) - 1 = k
      BY <1>1
  <2>2. c \in Seq(Event) /\ e \in Seq(Event) /\ g[k + 1] = c \o e
    <3>1. c \in Seq(Event)
        BY <1>3, <2>1
    <3>2. e \in Seq(Event)
        BY <1>2, <2>1, Pieces
    <3>3. g[k + 1] = g[(k + 1) - 1] \o ss[k + 1]
        BY <1>2, <1>3, <2>1 DEF Flattens
    <3> QED BY <2>1, <3>1, <3>2, <3>3
  <2>3. e = IF Played(step, k + 1) THEN Hit(Tracks[k + 1].note) ELSE << >>
      BY <1>2, <2>1
  <2>4. \A y \in Room : y + k \in Room => \E z \in y .. y + k : Reads(Taking, Room, y, c, z)
      BY <1>5
  <2> HIDE DEF c, e
  <2>6. ASSUME NEW y \in Room, y + (k + 1) \in Room
        PROVE  \E z \in y .. y + (k + 1) : Reads(Taking, Room, y, c \o e, z)
    <3>1. PICK u \in {y, y + 1} : Reads(Taking, Room, y, e, u)
      <4>1. CASE Played(step, k + 1)
        <5>1. Tracks[k + 1].note \in Notes
            BY <1>1, <2>1, SettingsType
        <5>2. y + 1 \in Room
            BY <1>1, <2>1, <2>6 DEF Room
        <5> QED BY <2>3, <4>1, <5>1, <5>2, HitTakes
      <4>2. CASE ~ Played(step, k + 1)
          BY <2>3, <4>2, ReadsNothing
      <4> QED BY <4>1, <4>2
    <3>2. u \in Room /\ u + k \in Room /\ \A z \in u .. u + k : z \in y .. y + (k + 1)
        BY <1>1, <2>1, <2>6 DEF Room
    <3>3. PICK z \in u .. u + k : Reads(Taking, Room, u, c, z)
        BY <2>4, <3>2
    <3>4. Reads(Taking, Room, y, c \o e, z)
        BY <2>2, <3>1, <3>3, ReadsBoth
    <3> QED BY <3>2, <3>3, <3>4
  <2>7. \A y \in Room : y + (k + 1) \in Room => Ends(k + 1, y)
      BY <2>2, <2>6
  <2> QED BY <2>1, <2>7
<1> HIDE DEF T
<1>6. \A k \in 0 .. m : k \in T
    BY <1>1, <1>4, <1>5, UpTo
<1>7. Ends(m, x)
    BY <1>1, <1>6 DEF T, m
<1> QED BY <1>2, <1>3, <1>7 DEF m

-----------------------------------------------------------------------------
(***************************************************************************)
(* The events of a pass.                                                   *)
(***************************************************************************)
Hits(n) ==
  \/ firstProcess /\ n \in HitNotes(currentStep)
  \/ StepIsOver /\ n \in HitNotes(currentStep')

LEMMA SequencerHolds ==
  ASSUME SourcesSound, SourcesSound', NEW n, NEW x \in Nat
  PROVE  Reads(Holding(n), Nat, x, SequencerEvents, IF Hits(n) THEN 1 ELSE x)
<1>1. currentStep \in Step /\ currentStep' \in Step
    BY DEF SourcesSound
<1>2. PICK s, t \in Step : s = currentStep /\ t = currentStep'
    BY <1>1
<1> DEFINE a == IF firstProcess THEN StepEvents(s) ELSE << >>
           b == IF StepIsOver THEN StepEvents(t) ELSE << >>
           y == IF StepIsOver /\ n \in HitNotes(t) THEN 1 ELSE x
           z == IF firstProcess /\ n \in HitNotes(s) THEN 1 ELSE y
<1>3. SequencerEvents = a \o b
    BY <1>2 DEF SequencerEvents
<1>4. a \in Seq(Event) /\ b \in Seq(Event)
    BY StepEventsType
<1>5. y \in Nat /\ z \in Nat
    OBVIOUS
<1>6. Reads(Holding(n), Nat, x, b, y)
    BY StepHolds, ReadsNothing
<1>8. z = IF Hits(n) THEN 1 ELSE x
    BY <1>2 DEF Hits
<1> HIDE DEF b, y
<1>7. Reads(Holding(n), Nat, y, a, z)
    BY <1>5, StepHolds, ReadsNothing
<1> HIDE DEF a, z
<1>9. Reads(Holding(n), Nat, x, a \o b, z)
    BY <1>4, <1>6, <1>7, ReadsBoth
<1> QED BY <1>3, <1>8, <1>9

(* Only its first pass may have two steps.                                 *)
LEMMA SequencerTakes ==
  ASSUME SourcesSound, SourcesSound', NEW x \in Nat,
         (IF firstProcess THEN x + 2 * Len(Tracks) ELSE x + Len(Tracks)) \in Room
  PROVE  \E y \in Room : Reads(Taking, Room, x, SequencerEvents, y)
<1>1. currentStep \in Step /\ currentStep' \in Step /\ Len(Tracks) \in Nat /\ NumVoices \in Nat
    BY SettingsType, InstrumentAssumption DEF SourcesSound
<1>2. PICK s, t \in Step : s = currentStep /\ t = currentStep'
    BY <1>1
<1> DEFINE a == IF firstProcess THEN StepEvents(s) ELSE << >>
           b == IF StepIsOver THEN StepEvents(t) ELSE << >>
           m == Len(Tracks)
<1>3. SequencerEvents = a \o b
    BY <1>2 DEF SequencerEvents
<1>4. a \in Seq(Event) /\ b \in Seq(Event)
    BY StepEventsType
<1>5. x \in Room /\ x + m \in Room /\ \A y \in x .. x + m : y \in Room
    BY <1>1 DEF Room
<1>6. \E y \in x .. x + m : Reads(Taking, Room, x, b, y)
  <2>1. CASE StepIsOver
      BY <1>5, <2>1, StepTakes
  <2>2. CASE ~ StepIsOver
    <3>1. x \in x .. x + m
        BY <1>1
    <3> QED BY <1>5, <2>2, <3>1, ReadsNothing
  <2> QED BY <2>1, <2>2
<1> HIDE DEF b
<1>7. PICK y \in x .. x + m : Reads(Taking, Room, x, b, y)
    BY <1>6
<1>8. y \in Room
    BY <1>5
<1>9. \E z \in Room : Reads(Taking, Room, y, a, z)
  <2>1. CASE firstProcess
    <3>1. y + m \in Room /\ \A z \in y .. y + m : z \in Room
        BY <1>1, <2>1 DEF Room
    <3>2. PICK z \in y .. y + m : Reads(Taking, Room, y, StepEvents(s), z)
        BY <1>8, <3>1, StepTakes
    <3> QED BY <2>1, <3>1, <3>2
  <2>2. CASE ~ firstProcess
      BY <1>8, <2>2, ReadsNothing
  <2> QED BY <2>1, <2>2
<1> HIDE DEF a
<1>10. PICK z \in Room : Reads(Taking, Room, y, a, z)
    BY <1>9
<1> QED BY <1>3, <1>4, <1>7, <1>10, ReadsBoth

(* The note sent last is ended, also when it is the new one.               *)
ArpHeld(n, x) == IF n = lastNote THEN 0 ELSE IF n = ArpNote THEN x + 1 ELSE x

LEMMA ArpHolds ==
  ASSUME SourcesSound, sequence # << >>, NEW n \in Notes, NEW x \in Nat
  PROVE  Reads(Holding(n), Nat, x, ArpEvents, ArpHeld(n, x))
<1>1. ArpNote \in Notes /\ lastNote \in Notes \cup {-1} /\ n # -1
    BY ArpNoteType, SettingsType DEF SourcesSound
<1> DEFINE on == NoteOn(ArpNote)
           off == NoteOff(lastNote)
           y == IF n = ArpNote THEN x + 1 ELSE x
           z == IF n = lastNote THEN 0 ELSE y
<1>2. on \in Event /\ on.kind = "NOTE_ON" /\ on.note = ArpNote /\ <<on>> \in Seq(Event)
    BY <1>1, EventType
<1>3. ArpEvents = ArpOff(ArpNote) \o <<on>>
    BY DEF ArpEvents
<1>4. y \in Nat /\ z \in Nat /\ z = ArpHeld(n, x)
    BY DEF ArpHeld
<1> HIDE DEF on
<1>5. HeldAfter(n, x, on) = y
    BY <1>2 DEF HeldAfter
<1>6. Reads(Holding(n), Nat, x, <<on>>, y)
    BY <1>2, <1>4, <1>5, HoldsNext, ReadsOne
<1>7. ArpOff(ArpNote) \in Seq(Event) /\ Reads(Holding(n), Nat, y, ArpOff(ArpNote), z)
  <2>1. CASE lastNote = -1
    <3>1. ArpOff(ArpNote) = << >> /\ z = y
        BY <1>1, <2>1 DEF ArpOff
    <3>2. << >> \in Seq(Event)
        OBVIOUS
    <3> HIDE DEF y, z
    <3> QED BY <1>4, <3>1, <3>2, ReadsNothing
  <2>2. CASE lastNote # -1
    <3>1. off \in Event /\ off.kind = "NOTE_OFF" /\ off.note = lastNote /\ <<off>> \in Seq(Event)
        BY <1>1, <2>2, EventType
    <3>2. ArpOff(ArpNote) = <<off>>
        BY <2>2 DEF ArpOff
    <3> HIDE DEF off, y
    <3>3. HeldAfter(n, y, off) = z
        BY <3>1 DEF HeldAfter
    <3> HIDE DEF z
    <3>4. Reads(Holding(n), Nat, y, <<off>>, z)
        BY <1>4, <3>1, <3>3, HoldsNext, ReadsOne
    <3> QED BY <3>1, <3>2, <3>4
  <2> QED BY <2>1, <2>2
<1> HIDE DEF y, z
<1>8. Reads(Holding(n), Nat, x, ArpOff(ArpNote) \o <<on>>, z)
    BY <1>2, <1>6, <1>7, ReadsBoth
<1> QED BY <1>3, <1>4, <1>8

LEMMA ArpTakes ==
  ASSUME SourcesSound, NEW x \in Room, x + 1 \in Room
  PROVE  \E y \in {x, x + 1} : Reads(Taking, Room, x, ArpEvents, y)
<1>1. CASE sequence = << >>
    BY <1>1, ReadsNothing DEF ArpEvents
<1>2. CASE sequence # << >>
  <2>1. ArpNote \in Notes /\ lastNote \in Notes \cup {-1}
      BY <1>2, ArpNoteType DEF SourcesSound
  <2> DEFINE on == NoteOn(ArpNote)
             off == NoteOff(lastNote)
             y == x + 1
  <2>2. on \in Event /\ on.kind = "NOTE_ON" /\ <<on>> \in Seq(Event)
      BY <2>1, EventType
  <2>3. ArpEvents = ArpOff(ArpNote) \o <<on>>
      BY <1>2 DEF ArpEvents
  <2> HIDE DEF on
  <2>4. TakenAfter(x, on) = y /\ y \in Room
      BY <2>2 DEF TakenAfter
  <2>5. Reads(Taking, Room, x, <<on>>, y)
      BY <2>2, <2>4, TakesNext, ReadsOne
  <2> HIDE DEF y
  <2>6. ArpOff(ArpNote) \in Seq(Event) /\ Reads(Taking, Room, y, ArpOff(ArpNote), y)
    <3>1. CASE lastNote = -1
      <4>1. ArpOff(ArpNote) = << >> /\ << >> \in Seq(Event)
          BY <3>1 DEF ArpOff
      <4> QED BY <2>4, <4>1, ReadsNothing
    <3>2. CASE lastNote # -1
      <4>1. off \in Event /\ off.kind = "NOTE_OFF" /\ <<off>> \in Seq(Event)
          BY <2>1, <3>2, EventType
      <4>2. ArpOff(ArpNote) = <<off>>
          BY <3>2 DEF ArpOff
      <4> HIDE DEF off
      <4>3. TakenAfter(y, off) = y
          BY <4>1 DEF TakenAfter
      <4>4. Reads(Taking, Room, y, <<off>>, y)
          BY <2>4, <4>1, <4>3, TakesNext, ReadsOne
      <4> QED BY <4>1, <4>2, <4>4
    <3> QED BY <3>1, <3>2
  <2>7. Reads(Taking, Room, x, ArpOff(ArpNote) \o <<on>>, y)
      BY <2>2, <2>5, <2>6, ReadsBoth
  <2> QED BY <2>3, <2>7 DEF y
<1> QED BY <1>1, <1>2

EmitterHeld(n, x) == IF n # EmitterNote THEN x ELSE IF emitterOn THEN 0 ELSE x + 1

LEMMA EmitterHolds ==
  ASSUME NEW n, NEW x \in Nat
  PROVE  /\ EmitterHeld(n, x) \in Nat
         /\ Reads(Holding(n), Nat, x, EmitterEvents, EmitterHeld(n, x))
<1> DEFINE e == IF emitterOn THEN NoteOff(EmitterNote) ELSE NoteOn(EmitterNote)
<1>1. e \in Event /\ e.note = EmitterNote /\ e.kind = IF emitterOn THEN "NOTE_OFF" ELSE "NOTE_ON"
    BY SettingsType, EventType
<1>2. EmitterEvents = <<e>>
    BY DEF EmitterEvents
<1> HIDE DEF e
<1>3. HeldAfter(n, x, e) = EmitterHeld(n, x) /\ EmitterHeld(n, x) \in Nat
    BY <1>1 DEF HeldAfter, EmitterHeld
<1> QED BY <1>1, <1>2, <1>3, HoldsNext, ReadsOne

LEMMA EmitterTakes ==
  ASSUME NEW x \in Room, NEW y \in Room, y = IF emitterOn THEN x ELSE x + 1
  PROVE  Reads(Taking, Room, x, EmitterEvents, y)
<1> DEFINE e == IF emitterOn THEN NoteOff(EmitterNote) ELSE NoteOn(EmitterNote)
<1>1. e \in Event /\ e.kind = IF emitterOn THEN "NOTE_OFF" ELSE "NOTE_ON"
    BY SettingsType, EventType
<1>2. EmitterEvents = <<e>>
    BY DEF EmitterEvents
<1> HIDE DEF e
<1>3. TakenAfter(x, e) = y
    BY <1>1 DEF TakenAfter
<1> QED BY <1>1, <1>2, <1>3, TakesNext, ReadsOne

SequenceHeld(n, x, fires) == IF fires /\ sequence # << >> THEN ArpHeld(n, x) ELSE x
EmittedHeld(n, x, fires) == IF fires THEN EmitterHeld(n, x) ELSE x

(* The emitter is read first, then the arpeggiator, then the sequencer.    *)
PortHeld(n, x, arpFires, emitterFires) ==
  IF Hits(n) THEN 1 ELSE SequenceHeld(n, EmittedHeld(n, x, emitterFires), arpFires)

LEMMA PortHolds ==
  ASSUME SourcesSound, SourcesSound', NEW n \in Notes, NEW x \in Nat,
         NEW arpFires \in BOOLEAN, NEW emitterFires \in BOOLEAN
  PROVE  Reads(Holding(n), Nat, x, Port(arpFires, emitterFires),
               PortHeld(n, x, arpFires, emitterFires))
<1> DEFINE a == SequencerEvents
           b == IF arpFires THEN ArpEvents ELSE << >>
           c == IF emitterFires THEN EmitterEvents ELSE << >>
           y == EmittedHeld(n, x, emitterFires)
           z == SequenceHeld(n, y, arpFires)
           w == IF Hits(n) THEN 1 ELSE z
<1>1. a \in Seq(Event) /\ b \in Seq(Event) /\ c \in Seq(Event)
  <2>1. currentStep \in Step /\ currentStep' \in Step
      BY DEF SourcesSound
  <2>2. StepEvents(currentStep) \in Seq(Event) /\ StepEvents(currentStep') \in Seq(Event)
      BY <2>1, StepEventsType
  <2>3. << >> \in Seq(Event)
      OBVIOUS
  <2>4. a \in Seq(Event)
      BY <2>2, <2>3 DEF SequencerEvents
  <2> QED BY <2>3, <2>4, ArpEventsType, EmitterEventsType
<1>2. Port(arpFires, emitterFires) = (a \o b) \o c
    BY DEF Port
<1>3. y \in Nat /\ Reads(Holding(n), Nat, x, c, y)
    BY EmitterHolds, ReadsNothing DEF EmittedHeld
<1> HIDE DEF c, y
<1>4. z \in Nat /\ Reads(Holding(n), Nat, y, b, z)
  <2>1. CASE arpFires /\ sequence # << >>
    <3>1. ArpHeld(n, y) \in Nat
        BY <1>3 DEF ArpHeld
    <3> QED BY <1>3, <2>1, <3>1, ArpHolds DEF SequenceHeld
  <2>2. CASE ~ (arpFires /\ sequence # << >>)
    <3>1. b = << >> /\ z = y
        BY <2>2 DEF ArpEvents, SequenceHeld
    <3> QED BY <1>3, <3>1, ReadsNothing
  <2> QED BY <2>1, <2>2
<1> HIDE DEF b, z
<1>5. Reads(Holding(n), Nat, z, a, w)
    BY <1>4, SequencerHolds
<1>6. w = PortHeld(n, x, arpFires, emitterFires)
    BY DEF PortHeld, y, z
<1> HIDE DEF a, w
<1>7. Reads(Holding(n), Nat, y, a \o b, w)
    BY <1>1, <1>4, <1>5, ReadsBoth
<1>8. a \o b \in Seq(Event)
    BY <1>1
<1>9. Reads(Holding(n), Nat, x, (a \o b) \o c, w)
    BY <1>1, <1>3, <1>7, <1>8, ReadsBoth
<1> QED BY <1>2, <1>6, <1>9

(* The most voices that a pass takes.                                      *)
MostTaken ==
  (IF emitterOn THEN 0 ELSE 1)
    + (IF firstProcess THEN 2 * Len(Tracks) ELSE Len(Tracks) + 1)

LEMMA PortTakes ==
  ASSUME SourcesSound, SourcesSound', NEW x \in Nat, x + MostTaken <= NumVoices,
         NEW arpFires \in BOOLEAN, NEW emitterFires \in BOOLEAN, arpFires => ~ firstProcess
  PROVE  \E y \in Room : Reads(Taking, Room, x, Port(arpFires, emitterFires), y)
<1> DEFINE a == SequencerEvents
           b == IF arpFires THEN ArpEvents ELSE << >>
           c == IF emitterFires THEN EmitterEvents ELSE << >>
           m == Len(Tracks)
           y == IF emitterFires /\ ~ emitterOn THEN x + 1 ELSE x
<1>1. a \in Seq(Event) /\ b \in Seq(Event) /\ c \in Seq(Event)
  <2>1. currentStep \in Step /\ currentStep' \in Step
      BY DEF SourcesSound
  <2>2. StepEvents(currentStep) \in Seq(Event) /\ StepEvents(currentStep') \in Seq(Event)
      BY <2>1, StepEventsType
  <2>3. << >> \in Seq(Event)
      OBVIOUS
  <2>4. a \in Seq(Event)
      BY <2>2, <2>3 DEF SequencerEvents
  <2> QED BY <2>3, <2>4, ArpEventsType, EmitterEventsType
<1>2. Port(arpFires, emitterFires) = (a \o b) \o c
    BY DEF Port
<1>3. m \in Nat /\ NumVoices \in Nat /\ firstProcess \in BOOLEAN /\ emitterOn \in BOOLEAN
    BY SettingsType, InstrumentAssumption DEF SourcesSound
<1>4. /\ x \in Room /\ y \in Room
      /\ (IF firstProcess THEN y + 2 * m ELSE (y + 1) + m) \in Room
      /\ ~ firstProcess => y + 1 \in Room /\ y + m \in Room
  <2>1. y \in Nat /\ x <= y /\ y <= x + (IF emitterOn THEN 0 ELSE 1)
      BY <1>3
  <2>2. x + ((IF emitterOn THEN 0 ELSE 1) + (IF firstProcess THEN 2 * m ELSE m + 1)) <= NumVoices
      BY DEF MostTaken
  <2> HIDE DEF y, m
  <2>3. CASE firstProcess
    <3>1. y + 2 * m <= NumVoices
        BY <1>3, <2>1, <2>2, <2>3
    <3> QED BY <1>3, <2>1, <2>3, <3>1 DEF Room
  <2>4. CASE ~ firstProcess
    <3>1. y + (m + 1) <= NumVoices
        BY <1>3, <2>1, <2>2, <2>4
    <3> QED BY <1>3, <2>1, <2>4, <3>1 DEF Room
  <2> QED BY <1>3, <2>3, <2>4
<1>5. Reads(Taking, Room, x, c, y)
    BY <1>4, EmitterTakes, ReadsNothing
<1> HIDE DEF c, y, m
<1>6. \E z \in Room : /\ (IF firstProcess THEN z + 2 * m ELSE z + m) \in Room
                      /\ Reads(Taking, Room, y, b, z)
  <2>1. CASE arpFires
    <3>1. ~ firstProcess /\ y + 1 \in Room
        BY <1>4, <2>1
    <3>2. PICK z \in {y, y + 1} : Reads(Taking, Room, y, ArpEvents, z)
        BY <1>4, <3>1, ArpTakes
    <3> QED BY <1>4, <2>1, <3>1, <3>2
  <2>2. CASE ~ arpFires
      BY <1>3, <1>4, <2>2, ReadsNothing
  <2> QED BY <2>1, <2>2
<1> HIDE DEF b
<1>7. PICK z \in Room : /\ (IF firstProcess THEN z + 2 * m ELSE z + m) \in Room
                        /\ Reads(Taking, Room, y, b, z)
    BY <1>6
<1>8. z \in Nat
    BY <1>3 DEF Room
<1>9. PICK w \in Room : Reads(Taking, Room, z, a, w)
    BY <1>7, <1>8, SequencerTakes DEF m
<1> HIDE DEF a
<1>10. a \o b \in Seq(Event) /\ Reads(Taking, Room, y, a \o b, w)
    BY <1>1, <1>7, <1>9, ReadsBoth
<1>11. Reads(Taking, Room, x, (a \o b) \o c, w)
    BY <1>1, <1>5, <1>10, ReadsBoth
<1> QED BY <1>2, <1>11

-----------------------------------------------------------------------------
(***************************************************************************)
(* What the pool holds follows what is read.                               *)
(***************************************************************************)
LEMMA FewVoices ==
  /\ IsFiniteSet(VoiceIndex) /\ Cardinality(VoiceIndex) = NumVoices
  /\ \A S \in SUBSET VoiceIndex : IsFiniteSet(S) /\ Cardinality(S) \in Nat
  /\ \A S, T \in SUBSET VoiceIndex : S \subseteq T => Cardinality(S) <= Cardinality(T)
<1>1. IsFiniteSet(VoiceIndex) /\ Cardinality(VoiceIndex) = NumVoices
    BY InstrumentAssumption, FS_Interval DEF VoiceIndex
<1>2. ASSUME NEW S \in SUBSET VoiceIndex PROVE IsFiniteSet(S) /\ Cardinality(S) \in Nat
    BY <1>1, FS_Subset, FS_CardinalityType
<1>3. ASSUME NEW S \in SUBSET VoiceIndex, NEW T \in SUBSET VoiceIndex, S \subseteq T
      PROVE  Cardinality(S) <= Cardinality(T)
  <2>1. IsFiniteSet(T)
      BY <1>2
  <2> QED BY <1>3, <2>1, FS_Subset
<1> QED BY <1>1, <1>2, <1>3

LEMMA OneVoiceMore ==
  ASSUME NEW S \in SUBSET VoiceIndex, NEW T \in SUBSET VoiceIndex, NEW v \in VoiceIndex,
         T \subseteq S \cup {v}
  PROVE  Cardinality(T) <= Cardinality(S) + 1
<1>1. IsFiniteSet(S) /\ Cardinality(S) \in Nat
    BY FewVoices
<1>2. Cardinality(S \cup {v}) <= Cardinality(S) + 1
    BY <1>1, FS_AddElement
<1>3. S \cup {v} \in SUBSET VoiceIndex
    OBVIOUS
<1>4. Cardinality(T) <= Cardinality(S \cup {v}) /\ Cardinality(T) \in Nat
      /\ Cardinality(S \cup {v}) \in Nat
    BY <1>3, FewVoices
<1> QED BY <1>1, <1>2, <1>4

(* What one event does to the voices held and to those that play.          *)
LEMMA EventVoices ==
  ASSUME NEW p \in Pool, ListedOnly(p), NEW e \in Event, NEW n
  PROVE  LET q == HandleEvent(p, e) IN
         /\ e.kind = "NOTE_ON" =>
              /\ \E v \in VoiceIndex :
                   /\ Playing(q) \subseteq Playing(p) \cup {v}
                   /\ Sounding(q, e.note) \subseteq Sounding(p, e.note) \cup {v}
                   /\ FreeVoices(p) # {} => v \in Sounding(q, e.note)
              /\ e.note # n => Sounding(q, n) = Sounding(p, n)
         /\ e.kind # "NOTE_ON" =>
              /\ Playing(q) \subseteq Playing(p)
              /\ Sounding(q, e.note) = {}
              /\ e.note # n => Sounding(q, n) = Sounding(p, n)
<1> DEFINE q == HandleEvent(p, e)
           m == e.note
<1>1. m \in Notes
    BY DEF Event
<1>2. \A v \in VoiceIndex : p.voices[v] \in Voice
    BY PoolType
<1>9. VoiceIndex # {} /\ FreeVoices(p) \subseteq VoiceIndex
    BY InstrumentAssumption DEF VoiceIndex, FreeVoices
<1>3. CASE e.kind = "NOTE_ON"
  <2>1. q = NoteOnVoice(p, m)
      BY <1>3 DEF HandleEvent
  <2> HIDE DEF q, m
  <2>2. CASE FreeVoices(p) = {}
    <3>1. q = p
        BY <2>1, <2>2 DEF NoteOnVoice
    <3>2. PICK v : v \in VoiceIndex
        BY <1>9
    <3>3. \E w \in VoiceIndex :
            /\ Playing(q) \subseteq Playing(p) \cup {w}
            /\ Sounding(q, m) \subseteq Sounding(p, m) \cup {w}
            /\ FreeVoices(p) # {} => w \in Sounding(q, m)
        BY <2>2, <3>1, <3>2
    <3> QED BY <1>3, <3>1, <3>3 DEF q, m
  <2>3. CASE FreeVoices(p) # {}
    <3> DEFINE f == FindFreeVoice(p)
    <3>1. f \in FreeVoices(p) /\ f \in VoiceIndex
        BY <1>9, <2>3, FreeVoice
    <3>2. q.voices[f] = Started(m)
        BY <1>1, <2>1, <2>3, NoteOnKeeps
    <3>3. \A v \in VoiceIndex : q.voices[v] # p.voices[v] => p.voices[v].state = "INACTIVE" /\ v = f
        BY <1>1, <2>1, NoteOnKeeps
    <3> HIDE DEF f
    <3>4. p.voices[f].state = "INACTIVE"
        BY <3>1 DEF FreeVoices
    <3>5. Started(m).state = "ACTIVE" /\ Started(m).noteNumber = m
        BY <1>1, VoicesOf
    <3>6. Playing(q) \subseteq Playing(p) \cup {f}
        BY <3>3 DEF Playing, FreeVoices
    <3>7. Sounding(q, m) \subseteq Sounding(p, m) \cup {f} /\ f \in Sounding(q, m)
        BY <3>1, <3>2, <3>3, <3>5 DEF Sounding, Holds
    <3>8. m # n => Sounding(q, n) = Sounding(p, n)
      <4> SUFFICES ASSUME m # n, NEW v \in VoiceIndex
                   PROVE  Holds(q.voices[v], n) <=> Holds(p.voices[v], n)
          BY DEF Sounding
      <4>1. CASE v = f
          BY <3>2, <3>4, <3>5, <4>1 DEF Holds
      <4>2. CASE v # f
          BY <3>3, <4>2
      <4> QED BY <4>1, <4>2
    <3> QED BY <1>3, <3>1, <3>6, <3>7, <3>8 DEF q, m
  <2> QED BY <2>2, <2>3
<1>4. CASE e.kind # "NOTE_ON"
  <2>1. q = NoteOffVoice(p, m)
      BY <1>4 DEF HandleEvent
  <2> HIDE DEF q, m
  <2>2. \A v \in VoiceIndex :
          q.voices[v] = IF Holds(p.voices[v], m) THEN Released(p.voices[v]) ELSE p.voices[v]
      BY <1>1, <2>1, NoteOffKeeps
  <2>3. \A v \in VoiceIndex :
          Holds(p.voices[v], m) =>
            /\ p.voices[v].state = "ACTIVE" /\ p.voices[v].noteNumber = m
            /\ q.voices[v].state = "RELEASED"
    <3> SUFFICES ASSUME NEW v \in VoiceIndex, Holds(p.voices[v], m)
                 PROVE  /\ p.voices[v].state = "ACTIVE" /\ p.voices[v].noteNumber = m
                        /\ q.voices[v].state = "RELEASED"
        OBVIOUS
    <3>1. p.voices[v].state = "ACTIVE" /\ p.voices[v].noteNumber = m
        BY DEF Holds
    <3>2. p.voices[v] # Free
        BY <3>1, VoicesOf
    <3>3. Released(p.voices[v]).state = "RELEASED"
        BY <1>2, <3>2 DEF Released, Voice
    <3> QED BY <2>2, <3>1, <3>3
  <2>4. Playing(q) \subseteq Playing(p)
      BY <2>2, <2>3 DEF Playing, FreeVoices
  <2>5. Sounding(q, m) = {}
      BY <2>2, <2>3 DEF Sounding, Holds
  <2>6. m # n => Sounding(q, n) = Sounding(p, n)
    <3> SUFFICES ASSUME m # n, NEW v \in VoiceIndex
                 PROVE  Holds(q.voices[v], n) <=> Holds(p.voices[v], n)
        BY DEF Sounding
    <3>1. CASE Holds(p.voices[v], m)
        BY <2>3, <3>1 DEF Holds
    <3>2. CASE ~ Holds(p.voices[v], m)
        BY <2>2, <3>2
    <3> QED BY <3>1, <3>2
  <2> QED BY <1>4, <2>4, <2>5, <2>6 DEF q, m
<1> QED BY <1>3, <1>4

LEMMA EventHolds ==
  ASSUME NEW p \in Pool, ListedOnly(p), NEW e \in Event, NEW n, NEW x \in Nat,
         Cardinality(Sounding(p, n)) <= x
  PROVE  Cardinality(Sounding(HandleEvent(p, e), n)) <= HeldAfter(n, x, e)
<1> DEFINE q == HandleEvent(p, e)
<1>1. \A r : Sounding(r, n) \in SUBSET VoiceIndex
    BY DEF Sounding
<1>2. Cardinality(Sounding(p, n)) \in Nat /\ Cardinality({}) = 0
    BY <1>1, FewVoices, FS_EmptySet
<1>3. CASE e.note # n
  <2>1. Sounding(q, n) = Sounding(p, n)
      BY <1>3, EventVoices
  <2> QED BY <1>3, <2>1 DEF HeldAfter
<1>4. CASE e.note = n /\ e.kind = "NOTE_ON"
  <2>1. PICK v \in VoiceIndex : Sounding(q, n) \subseteq Sounding(p, n) \cup {v}
      BY <1>4, EventVoices
  <2>2. Cardinality(Sounding(q, n)) <= Cardinality(Sounding(p, n)) + 1
        /\ Cardinality(Sounding(q, n)) \in Nat
      BY <1>1, <2>1, OneVoiceMore, FewVoices
  <2> HIDE DEF q
  <2>3. Cardinality(Sounding(q, n)) <= x + 1
      BY <1>2, <2>2
  <2> QED BY <1>4, <2>3 DEF HeldAfter, q
<1>5. CASE e.note = n /\ e.kind # "NOTE_ON"
  <2>1. Sounding(q, n) = {}
      BY <1>5, EventVoices
  <2> QED BY <1>2, <1>5, <2>1 DEF HeldAfter
<1> QED BY <1>3, <1>4, <1>5

LEMMA EventsHold ==
  ASSUME NEW p \in ListedPool, NEW events \in Seq(Event), NEW n, NEW x, NEW y,
         Leads(Holding(n), Nat, x, events, y), Cardinality(Sounding(p, n)) <= x
  PROVE  Cardinality(Sounding(EventsHandled(p, events), n)) <= y
<1> DEFINE k == Len(events)
<1>1. k \in Nat /\ \A i \in 1 .. k : events[i] \in Event
    OBVIOUS
<1>2. PICK a \in [0 .. k -> ListedPool] : Handling(a, p, events) /\ EventsHandled(p, events) = a[k]
    BY EventSteps
<1>3. PICK f \in [0 .. k -> Nat] :
        /\ f[0] = x /\ f[k] = y
        /\ \A i \in 1 .. k : <<f[i - 1], events[i], f[i]>> \in Holding(n)
    BY DEF Leads
<1> DEFINE T == {i \in 0 .. k : Cardinality(Sounding(a[i], n)) <= f[i]}
<1> HIDE DEF k
<1>4. 0 \in T
    BY <1>1, <1>2, <1>3 DEF Handling
<1>5. ASSUME NEW i \in 0 .. k - 1, i \in T PROVE i + 1 \in T
  <2>1. i + 1 \in 1 .. k /\ i + 1 \in 0 .. k /\ (i + 1) - 1 = i /\ i \in 0 .. k
      BY <1>1
  <2>2. a[i + 1] = HandleEvent(a[i], events[i + 1])
      BY <1>2, <2>1 DEF Handling, k
  <2>3. a[i] \in Pool /\ ListedOnly(a[i]) /\ events[i + 1] \in Event /\ f[i] \in Nat
      BY <1>1, <1>2, <1>3, <2>1 DEF ListedPool
  <2>4. f[i + 1] = HeldAfter(n, f[i], events[i + 1])
    <3>1. <<f[i], events[i + 1], f[i + 1]>> \in Holding(n)
        BY <1>3, <2>1
    <3> QED BY <3>1 DEF Holding
  <2>5. Cardinality(Sounding(a[i], n)) <= f[i]
      BY <1>5
  <2>6. Cardinality(Sounding(a[i + 1], n)) <= f[i + 1]
      BY <2>2, <2>3, <2>4, <2>5, EventHolds
  <2> QED BY <2>1, <2>6
<1> HIDE DEF T
<1>6. \A i \in 0 .. k : i \in T
    BY <1>1, <1>4, <1>5, UpTo
<1>7. k \in 0 .. k
    BY <1>1
<1> QED BY <1>2, <1>3, <1>6, <1>7 DEF T

(* With a voice for every NOTE_ON, what should sound does.                 *)
Heard(p, n, x) == 0 < x => Sounding(p, n) # {}

LEMMA EventHeard ==
  ASSUME NEW p \in Pool, ListedOnly(p), NEW e \in Event, NEW n, NEW x \in Nat, Heard(p, n, x),
         NEW c \in Room, Cardinality(Playing(p)) <= c, TakenAfter(c, e) \in Room
  PROVE  /\ Cardinality(Playing(HandleEvent(p, e))) <= TakenAfter(c, e)
         /\ Heard(HandleEvent(p, e), n, HeldAfter(n, x, e))
<1> DEFINE q == HandleEvent(p, e)
<1>1. \A r : Playing(r) \in SUBSET VoiceIndex
    BY DEF Playing
<1>2. /\ Cardinality(Playing(p)) \in Nat /\ Cardinality(Playing(q)) \in Nat
      /\ NumVoices \in Nat /\ c \in Nat
    BY <1>1, FewVoices, InstrumentAssumption DEF Room
<1>3. CASE e.kind = "NOTE_ON"
  <2>1. c + 1 <= NumVoices /\ TakenAfter(c, e) = c + 1
      BY <1>2, <1>3 DEF TakenAfter, Room
  <2>2. FreeVoices(p) # {}
    <3>1. SUFFICES ASSUME FreeVoices(p) = {} PROVE FALSE
        OBVIOUS
    <3>2. Cardinality(Playing(p)) = NumVoices
        BY <3>1, FewVoices DEF Playing
    <3> QED BY <1>2, <2>1, <3>2
  <2>3. PICK v \in VoiceIndex : Playing(q) \subseteq Playing(p) \cup {v} /\ v \in Sounding(q, e.note)
      BY <1>3, <2>2, EventVoices
  <2>4. Cardinality(Playing(q)) <= Cardinality(Playing(p)) + 1
      BY <1>1, <2>3, OneVoiceMore
  <2>5. e.note # n => Sounding(q, n) = Sounding(p, n)
      BY <1>3, EventVoices
  <2> HIDE DEF q
  <2>6. Cardinality(Playing(q)) <= c + 1
      BY <1>2, <2>4
  <2>7. Heard(q, n, HeldAfter(n, x, e))
      BY <2>3, <2>5 DEF Heard, HeldAfter
  <2> QED BY <2>1, <2>6, <2>7 DEF q
<1>4. CASE e.kind # "NOTE_ON"
  <2>1. Playing(q) \subseteq Playing(p) /\ (e.note # n => Sounding(q, n) = Sounding(p, n))
      BY <1>4, EventVoices
  <2>2. Cardinality(Playing(q)) <= Cardinality(Playing(p))
      BY <1>1, <2>1, FewVoices
  <2> HIDE DEF q
  <2>3. Cardinality(Playing(q)) <= TakenAfter(c, e)
      BY <1>2, <1>4, <2>2 DEF TakenAfter
  <2>4. Heard(q, n, HeldAfter(n, x, e))
      BY <1>4, <2>1 DEF Heard, HeldAfter
  <2> QED BY <2>3, <2>4 DEF q
<1> QED BY <1>3, <1>4

LEMMA EventsHeard ==
  ASSUME NEW p \in ListedPool, NEW events \in Seq(Event), NEW n, NEW x, NEW y, NEW c, NEW d,
         Leads(Holding(n), Nat, x, events, y), Heard(p, n, x),
         Leads(Taking, Room, c, events, d), Cardinality(Playing(p)) <= c
  PROVE  Heard(EventsHandled(p, events), n, y)
<1> DEFINE k == Len(events)
<1>1. k \in Nat /\ \A i \in 1 .. k : events[i] \in Event
    OBVIOUS
<1>2. PICK a \in [0 .. k -> ListedPool] : Handling(a, p, events) /\ EventsHandled(p, events) = a[k]
    BY EventSteps
<1>3. PICK f \in [0 .. k -> Nat] :
        /\ f[0] = x /\ f[k] = y
        /\ \A i \in 1 .. k : <<f[i - 1], events[i], f[i]>> \in Holding(n)
    BY DEF Leads
<1>4. PICK g \in [0 .. k -> Room] :
        /\ g[0] = c /\ g[k] = d
        /\ \A i \in 1 .. k : <<g[i - 1], events[i], g[i]>> \in Taking
    BY DEF Leads
<1> DEFINE T == {i \in 0 .. k : Heard(a[i], n, f[i]) /\ Cardinality(Playing(a[i])) <= g[i]}
<1> HIDE DEF k
<1>5. 0 \in T
    BY <1>1, <1>2, <1>3, <1>4 DEF Handling
<1>6. ASSUME NEW i \in 0 .. k - 1, i \in T PROVE i + 1 \in T
  <2>1. i + 1 \in 1 .. k /\ i + 1 \in 0 .. k /\ (i + 1) - 1 = i /\ i \in 0 .. k
      BY <1>1
  <2>2. a[i + 1] = HandleEvent(a[i], events[i + 1])
      BY <1>2, <2>1 DEF Handling, k
  <2>3. /\ a[i] \in Pool /\ ListedOnly(a[i]) /\ events[i + 1] \in Event
        /\ f[i] \in Nat /\ g[i] \in Room /\ g[i + 1] \in Room
      BY <1>1, <1>2, <1>3, <1>4, <2>1 DEF ListedPool
  <2>4. f[i + 1] = HeldAfter(n, f[i], events[i + 1])
    <3>1. <<f[i], events[i + 1], f[i + 1]>> \in Holding(n)
        BY <1>3, <2>1
    <3> QED BY <3>1 DEF Holding
  <2>5. g[i + 1] = TakenAfter(g[i], events[i + 1])
    <3>1. <<g[i], events[i + 1], g[i + 1]>> \in Taking
        BY <1>4, <2>1
    <3> QED BY <3>1 DEF Taking
  <2>6. Heard(a[i], n, f[i]) /\ Cardinality(Playing(a[i])) <= g[i]
      BY <1>6
  <2>7. Heard(a[i + 1], n, f[i + 1]) /\ Cardinality(Playing(a[i + 1])) <= g[i + 1]
      BY <2>2, <2>3, <2>4, <2>5, <2>6, EventHeard
  <2> QED BY <2>1, <2>7
<1> HIDE DEF T
<1>7. \A i \in 0 .. k : i \in T
    BY <1>1, <1>5, <1>6, UpTo
<1>8. k \in 0 .. k
    BY <1>1
<1> QED BY <1>2, <1>3, <1>7, <1>8 DEF T

(* Processing the voices leaves what is held, and none that is released.   *)
LEMMA PassHolds ==
  ASSUME NEW p \in Pool, Listed(p), NEW port \in Seq(Event), NEW q \in Processed(p, port)
  PROVE  /\ \A n : Sounding(q, n) = Sounding(HeardBy(p, port), n)
         /\ HasAudioOut => \A v \in VoiceIndex : q.voices[v].state # "RELEASED"
<1> DEFINE h == HeardBy(p, port)
<1>1. /\ h \in Pool
      /\ \A v \in VoiceIndex :
           IF h.voices[v].state = "INACTIVE"
           THEN q.voices[v] = h.voices[v]
           ELSE q.voices[v] \in Outcomes(h.voices[v])
    BY PassKeeps DEF ListedPool
<1> HIDE DEF h
<1>2. \A v \in VoiceIndex : h.voices[v] \in Voice
    BY <1>1, PoolType
<1>3. \A v \in VoiceIndex :
        /\ HasAudioOut => q.voices[v].state # "RELEASED"
        /\ \A n : Holds(q.voices[v], n) <=> Holds(h.voices[v], n)
  <2> SUFFICES ASSUME NEW v \in VoiceIndex
               PROVE  /\ HasAudioOut => q.voices[v].state # "RELEASED"
                      /\ \A n : Holds(q.voices[v], n) <=> Holds(h.voices[v], n)
      OBVIOUS
  <2>1. CASE h.voices[v].state = "INACTIVE"
      BY <1>1, <2>1 DEF Holds
  <2>2. CASE h.voices[v].state # "INACTIVE"
    <3>1. h.voices[v] \in Voice \ {Free} /\ q.voices[v] \in Outcomes(h.voices[v])
        BY <1>1, <1>2, <2>2, VoicesOf
    <3>2. /\ q.voices[v].state # "INACTIVE" =>
               /\ q.voices[v].state = h.voices[v].state
               /\ q.voices[v].noteNumber = h.voices[v].noteNumber
          /\ q.voices[v].state = "INACTIVE" <=> h.voices[v].state = "RELEASED" /\ HasAudioOut
        BY <3>1, PlaysVoice
    <3> QED BY <3>2 DEF Holds
  <2> QED BY <2>1, <2>2
<1> QED BY <1>3 DEF Sounding, h

LEMMA PassCounts ==
  ASSUME NEW p \in Pool, Listed(p), NEW port \in Seq(Event), NEW q \in Processed(p, port),
         NEW n, NEW x, NEW y, Reads(Holding(n), Nat, x, port, y)
  PROVE  /\ Cardinality(Sounding(p, n)) <= x => Cardinality(Sounding(q, n)) <= y
         /\ \A c, d : Reads(Taking, Room, c, port, d) /\ Cardinality(Playing(p)) <= c
                        /\ Heard(p, n, x) => Heard(q, n, y)
<1> DEFINE r == RemoveInactiveVoices(p)
           events == ReadPort(port)
<1>1. r \in ListedPool /\ r.voices = p.voices
    BY RemoveKeeps DEF ListedPool
<1>2. events \in Seq(Event)
    BY ReadPortType
<1>3. HeardBy(p, port) = EventsHandled(r, events)
    BY DEF HeardBy
<1>4. Sounding(q, n) = Sounding(EventsHandled(r, events), n)
    BY <1>3, PassHolds
<1>5. Sounding(r, n) = Sounding(p, n) /\ Playing(r) = Playing(p)
    BY <1>1 DEF Sounding, Playing, FreeVoices
<1>6. Leads(Holding(n), Nat, x, events, y)
    BY DEF Reads
<1>7. \A c, d : Reads(Taking, Room, c, port, d) <=> Leads(Taking, Room, c, events, d)
    BY DEF Reads
<1> HIDE DEF r, events
<1>8. Cardinality(Sounding(r, n)) <= x => Cardinality(Sounding(EventsHandled(r, events), n)) <= y
    BY <1>1, <1>2, <1>6, EventsHold
<1>9. ASSUME NEW c, NEW d, Leads(Taking, Room, c, events, d), Cardinality(Playing(r)) <= c,
             Heard(r, n, x)
      PROVE  Heard(EventsHandled(r, events), n, y)
    BY <1>1, <1>2, <1>6, <1>9, EventsHeard
<1> QED BY <1>4, <1>5, <1>7, <1>8, <1>9 DEF Heard

-----------------------------------------------------------------------------
(***************************************************************************)
(* The invariant, for modules that send different notes.                   *)
(***************************************************************************)
TrackNotes == {Tracks[i].note : i \in DOMAIN Tracks}
ArpNotes == UNION {ToSet(s) : s \in ArpSequences}

SourcesApart == TrackNotes \cap ArpNotes = {} /\ EmitterNote \notin TrackNotes \cup ArpNotes

(* How many voices may be held for a note.                                 *)
Most(n) ==
  IF n \in TrackNotes THEN 1
  ELSE IF n = EmitterNote THEN (IF emitterOn THEN 1 ELSE 0)
  ELSE IF n = lastNote THEN 1 ELSE 0

NotesInv ==
  /\ lastNote \in ArpNotes \cup {-1}
  /\ \A n \in Notes : Cardinality(Sounding(pool, n)) <= Most(n)
  /\ firstProcess => Playing(pool) = {}
  /\ HasAudioOut => \A v \in VoiceIndex : pool.voices[v].state # "RELEASED"

LEMMA NotesAre ==
  /\ TrackNotes \subseteq Notes /\ ArpNotes \subseteq Notes
  /\ -1 \notin TrackNotes /\ -1 \notin ArpNotes /\ EmitterNote # -1
  /\ \A step : HitNotes(step) \subseteq TrackNotes
<1>1. TrackNotes \subseteq Notes /\ ArpNotes \subseteq Notes
    BY DEF TrackNotes, ArpNotes, Notes
<1>2. \A step : HitNotes(step) \subseteq TrackNotes
    BY DEF HitNotes, TrackNotes
<1> QED BY <1>1, <1>2, SettingsType

LEMMA NotesStart == PathInit => NotesInv
<1> SUFFICES ASSUME PathInit PROVE NotesInv
    OBVIOUS
<1>1. pool = SilentPool /\ lastNote = -1 /\ \A v \in VoiceIndex : pool.voices[v] = Free
    BY DEF PathInit, SilentPool
<1>2. Free.state = "INACTIVE"
    BY VoicesOf
<1>3. \A n \in Notes : Sounding(pool, n) = {}
    BY <1>1, <1>2 DEF Sounding, Holds
<1>4. Cardinality({}) = 0
    BY FS_EmptySet
<1>5. \A n \in Notes : Cardinality(Sounding(pool, n)) <= Most(n)
    BY <1>3, <1>4 DEF Most
<1>6. Playing(pool) = {}
    BY <1>1, <1>2 DEF Playing, FreeVoices
<1> QED BY <1>1, <1>2, <1>5, <1>6 DEF NotesInv

(* What a pass leaves of the sources.                                      *)
Passes(arpFires, emitterFires) ==
  /\ arpFires => ~ firstProcess
  /\ SequencerProcesses
  /\ IF arpFires THEN ArpProcesses ELSE UNCHANGED arpegiator
  /\ emitterOn' = IF emitterFires THEN ~ emitterOn ELSE emitterOn
  /\ pool' \in Processed(pool, Port(arpFires, emitterFires))

LEMMA ArpNoteIs ==
  ASSUME SourcesSound, sequence # << >>
  PROVE  ArpNote \in ArpNotes
<1>1. sequence \in ArpSequences /\ sequence \in Seq(Nat)
    BY SettingsType DEF SourcesSound
<1>2. Len(sequence) \in Nat /\ Len(sequence) > 0
    BY <1>1
<1>3. noteIndex % Len(sequence) \in 0 .. Len(sequence) - 1
    BY <1>2 DEF SourcesSound
<1> HIDE DEF SourcesSound
<1>4. (noteIndex % Len(sequence)) + 1 \in 1 .. Len(sequence)
    BY <1>2, <1>3
<1>5. ArpNote \in ToSet(sequence)
    BY <1>1, <1>4, ListOf DEF ArpNote
<1> QED BY <1>1, <1>5 DEF ArpNotes

LEMMA ArpMoves ==
  ASSUME NEW arpFires \in BOOLEAN, NEW emitterFires \in BOOLEAN, Passes(arpFires, emitterFires)
  PROVE  lastNote' = IF arpFires /\ sequence # << >> THEN ArpNote ELSE lastNote
BY DEF Passes, ArpProcesses, arpegiator

(* What may be held before a pass becomes what may be held after it.       *)
LEMMA MostKept ==
  ASSUME SourcesApart, SourcesSound, NotesInv, NEW n \in Notes,
         NEW arpFires \in BOOLEAN, NEW emitterFires \in BOOLEAN, Passes(arpFires, emitterFires)
  PROVE  Most(n) \in Nat /\ PortHeld(n, Most(n), arpFires, emitterFires) <= Most(n)'
<1>1. Most(n) \in {0, 1}
    BY DEF Most
<1>2. lastNote' = IF arpFires /\ sequence # << >> THEN ArpNote ELSE lastNote
    BY ArpMoves
<1>3. emitterOn' = IF emitterFires THEN ~ emitterOn ELSE emitterOn
    BY DEF Passes
<1>4. /\ lastNote \in ArpNotes \cup {-1} /\ emitterOn \in BOOLEAN
      /\ sequence # << >> => ArpNote \in ArpNotes
    BY ArpNoteIs DEF NotesInv, SourcesSound
<1>5. Hits(n) => n \in TrackNotes
    BY NotesAre DEF Hits
<1>6. n # -1
    BY SettingsType
<1>7. CASE n \in TrackNotes
  <2>1. n # EmitterNote /\ n \notin ArpNotes
      BY <1>7 DEF SourcesApart
  <2>2. Most(n) = 1 /\ Most(n)' = 1
      BY <1>7 DEF Most
  <2>3. PortHeld(n, 1, arpFires, emitterFires) = 1
    <3>1. EmittedHeld(n, 1, emitterFires) = 1
        BY <2>1 DEF EmittedHeld, EmitterHeld
    <3>2. SequenceHeld(n, 1, arpFires) = 1
        BY <1>4, <1>6, <2>1 DEF SequenceHeld, ArpHeld
    <3> QED BY <3>1, <3>2 DEF PortHeld
  <2> QED BY <2>2, <2>3
<1>8. CASE n = EmitterNote
  <2>1. n \notin TrackNotes /\ n \notin ArpNotes
      BY <1>8 DEF SourcesApart
  <2> DEFINE on == IF emitterOn THEN 1 ELSE 0
             after == IF emitterOn' THEN 1 ELSE 0
  <2>2. Most(n) = on /\ Most(n)' = after
      BY <1>8, <2>1 DEF Most
  <2>3. EmittedHeld(n, on, emitterFires) = after
    <3>1. CASE emitterFires
      <4>1. EmittedHeld(n, on, emitterFires) = IF emitterOn THEN 0 ELSE on + 1
          BY <1>8, <3>1 DEF EmittedHeld, EmitterHeld
      <4>2. CASE emitterOn
        <5>1. ~ emitterOn'
            BY <1>3, <3>1, <4>2
        <5> QED BY <4>1, <4>2, <5>1
      <4>3. CASE ~ emitterOn
        <5>1. emitterOn' /\ on = 0
            BY <1>3, <3>1, <4>3
        <5>2. after = 1
            BY <5>1
        <5>3. EmittedHeld(n, on, emitterFires) = 0 + 1
            BY <4>1, <4>3, <5>1
        <5> QED BY <5>2, <5>3
      <4> QED BY <4>2, <4>3
    <3>2. CASE ~ emitterFires
        BY <1>3, <1>4, <3>2 DEF EmittedHeld
    <3> QED BY <3>1, <3>2
  <2>4. SequenceHeld(n, after, arpFires) = after
      BY <1>4, <1>6, <2>1 DEF SequenceHeld, ArpHeld
  <2>5. PortHeld(n, on, arpFires, emitterFires) = after
      BY <1>5, <2>1, <2>3, <2>4 DEF PortHeld
  <2> QED BY <2>2, <2>5
<1>9. CASE n \notin TrackNotes /\ n # EmitterNote
  <2> DEFINE is == IF n = lastNote THEN 1 ELSE 0
             after == IF n = lastNote' THEN 1 ELSE 0
  <2>1. Most(n) = is /\ Most(n)' = after
      BY <1>9 DEF Most
  <2>2. EmittedHeld(n, is, emitterFires) = is
      BY <1>9 DEF EmittedHeld, EmitterHeld
  <2>3. SequenceHeld(n, is, arpFires) <= after
      BY <1>2 DEF SequenceHeld, ArpHeld
  <2>4. PortHeld(n, is, arpFires, emitterFires) <= after
      BY <1>5, <1>9, <2>2, <2>3 DEF PortHeld
  <2> QED BY <2>1, <2>4
<1> QED BY <1>7, <1>8, <1>9

LEMMA NotesKeep == SourcesApart /\ PathSound /\ PathSound' /\ NotesInv /\ [PathNext]_pathVars => NotesInv'
<1> SUFFICES ASSUME SourcesApart, PathSound, PathSound', NotesInv, [PathNext]_pathVars
             PROVE  NotesInv'
    OBVIOUS
<1>0. /\ SourcesSound /\ SourcesSound' /\ pool \in Pool /\ Listed(pool)
    BY DEF PathSound, PoolSound
<1>1. CASE SetSequence \/ UNCHANGED pathVars
    BY <1>1 DEF SetSequence, NotesInv, Most, pathVars, sequencer, arpegiator
<1>2. CASE Pass
  <2>1. PICK arpFires, emitterFires \in BOOLEAN : Passes(arpFires, emitterFires)
      BY <1>2 DEF Pass, Passes
  <2>2. PICK port \in Seq(Event) : port = Port(arpFires, emitterFires)
      BY <1>0, PortType
  <2>3. PICK q : q = pool' /\ q \in Processed(pool, port)
      BY <2>1, <2>2 DEF Passes
  <2>4. lastNote' \in ArpNotes \cup {-1}
      BY <1>0, <2>1, ArpMoves, ArpNoteIs DEF NotesInv
  <2>5. ~ firstProcess'
      BY <2>1 DEF Passes, SequencerProcesses
  <2>6. ASSUME NEW n \in Notes PROVE Cardinality(Sounding(q, n)) <= Most(n)'
    <3> DEFINE y == PortHeld(n, Most(n), arpFires, emitterFires)
    <3>1. Most(n) \in Nat /\ y <= Most(n)'
        BY <1>0, <2>1, MostKept
    <3>2. Reads(Holding(n), Nat, Most(n), port, y)
        BY <1>0, <2>2, <3>1, PortHolds
    <3>3. Cardinality(Sounding(pool, n)) <= Most(n)
        BY DEF NotesInv
    <3>4. Cardinality(Sounding(q, n)) <= y
        BY <1>0, <2>3, <3>2, <3>3, PassCounts
    <3>5. Cardinality(Sounding(q, n)) \in Nat /\ y \in Nat /\ Most(n)' \in Nat
      <4>1. Sounding(q, n) \in SUBSET VoiceIndex
          BY DEF Sounding
      <4>2. y \in Nat
          BY <3>1 DEF PortHeld, SequenceHeld, ArpHeld, EmittedHeld, EmitterHeld
      <4>3. Most(n)' \in Nat
          BY DEF Most
      <4> QED BY <4>1, <4>2, <4>3, FewVoices
    <3> HIDE DEF y
    <3> QED BY <3>1, <3>4, <3>5
  <2>7. HasAudioOut => \A v \in VoiceIndex : q.voices[v].state # "RELEASED"
      BY <1>0, <2>3, PassHolds
  <2> QED BY <2>3, <2>4, <2>5, <2>6, <2>7 DEF NotesInv
<1> QED BY <1>1, <1>2 DEF PathNext

LEMMA NotesInvariant == PathSpec => [](SourcesApart => NotesInv)
<1>1. PathInit => (SourcesApart => NotesInv)
    BY NotesStart
<1>2. PathSound /\ PathSound' /\ (SourcesApart => NotesInv) /\ [PathNext]_pathVars
        => (SourcesApart => NotesInv)'
    BY NotesKeep DEF SourcesApart, TrackNotes, ArpNotes
<1> QED BY <1>1, <1>2, PathAlwaysSound, PTL DEF PathSpec

(***************************************************************************)
(* Neither the sequencer nor the arpeggiator piles up voices, as long as   *)
(* the three modules send different notes: InputPort gives the NOTE_OFF of *)
(* a hit before its NOTE_ON, and that of the last note of the arpeggiator  *)
(* after the NOTE_ON of the next one.                                      *)
(***************************************************************************)
THEOREM NotesNeverPileUp == PathSpec => [](SourcesApart => NotesDoNotPileUp)
<1>1. NotesInv /\ SourcesApart => NotesDoNotPileUp
  <2> SUFFICES ASSUME NotesInv, SourcesApart PROVE NotesDoNotPileUp
      OBVIOUS
  <2>1. \A n : Held(n) = Sounding(pool, n)
      BY DEF Held, Sounding
  <2>2. ASSUME NEW i \in DOMAIN Tracks PROVE Cardinality(Held(Tracks[i].note)) <= 1
    <3> DEFINE n == Tracks[i].note
    <3>1. n \in TrackNotes /\ n \in Notes
        BY NotesAre DEF TrackNotes
    <3> HIDE DEF n
    <3>2. Cardinality(Sounding(pool, n)) <= Most(n) /\ Most(n) = 1
        BY <3>1 DEF NotesInv, Most
    <3> QED BY <2>1, <3>2 DEF n
  <2>3. ASSUME NEW n \in ArpNotes PROVE Cardinality(Held(n)) <= (IF n = lastNote THEN 1 ELSE 0)
    <3>1. n \in Notes /\ n \notin TrackNotes /\ n # EmitterNote
        BY NotesAre DEF SourcesApart
    <3>2. Cardinality(Sounding(pool, n)) <= Most(n)
        BY <3>1 DEF NotesInv
    <3> QED BY <2>1, <3>1, <3>2 DEF Most
  <2> QED BY <2>2, <2>3 DEF NotesDoNotPileUp, SequencerHoldsOneVoice, ArpHoldsOneNote, ArpNotes
<1> QED BY <1>1, NotesInvariant, PTL

-----------------------------------------------------------------------------
(* As many voices as can be held and taken in a pass, given back in time.  *)
EnoughVoices == HasAudioOut /\ 2 * Len(Tracks) + 3 <= NumVoices

(* Each voice that plays is held for a note of its own.                    *)
LEMMA PlayingCounts ==
  ASSUME PathSound, NotesInv, HasAudioOut
  PROVE  /\ Cardinality(Playing(pool)) \in Nat
         /\ Cardinality(Playing(pool)) <= Len(Tracks) + 1 + (IF emitterOn THEN 1 ELSE 0)
<1> DEFINE P == Playing(pool)
           f == [v \in P |-> pool.voices[v].noteNumber]
           E == IF emitterOn THEN {EmitterNote} ELSE {}
           L == TrackNotes \cup {lastNote}
           K == L \cup E
           m == Len(Tracks)
<1>1. pool \in Pool /\ m \in Nat /\ DOMAIN Tracks = 1 .. m /\ emitterOn \in BOOLEAN
    BY SettingsType DEF PathSound, PoolSound, SourcesSound
<1>2. P \in SUBSET VoiceIndex
    BY DEF Playing
<1>3. ASSUME NEW v \in P
      PROVE  /\ pool.voices[v].noteNumber \in Notes /\ pool.voices[v].noteNumber \in K
             /\ v \in Sounding(pool, pool.voices[v].noteNumber)
  <2> DEFINE n == pool.voices[v].noteNumber
  <2>1. pool.voices[v] \in Voice /\ pool.voices[v].state # "INACTIVE" /\ v \in VoiceIndex
      BY <1>1, PoolType DEF Playing, FreeVoices
  <2>2. pool.voices[v].state # "RELEASED"
      BY <2>1 DEF NotesInv
  <2>3. pool.voices[v].state = "ACTIVE" /\ n \in Notes
      BY <2>1, <2>2, VoicesOf DEF VoiceState
  <2>4. v \in Sounding(pool, n)
      BY <2>1, <2>3 DEF Sounding, Holds
  <2> HIDE DEF n
  <2>5. Cardinality(Sounding(pool, n)) <= Most(n)
      BY <2>3 DEF NotesInv
  <2>6. Cardinality(Sounding(pool, n)) > 0
    <3>1. Sounding(pool, n) \in SUBSET VoiceIndex
        BY DEF Sounding
    <3>2. IsFiniteSet(Sounding(pool, n)) /\ Cardinality(Sounding(pool, n)) \in Nat
        BY <3>1, FewVoices
    <3>3. Cardinality(Sounding(pool, n)) # 0
        BY <2>4, <3>2, FS_EmptySet
    <3> QED BY <3>2, <3>3
  <2>7. n \in K
    <3>1. Most(n) # 0
      <4>1. Sounding(pool, n) \in SUBSET VoiceIndex
          BY DEF Sounding
      <4>2. Cardinality(Sounding(pool, n)) \in Nat
          BY <4>1, FewVoices
      <4> QED BY <2>5, <2>6, <4>2
    <3>2. n \in TrackNotes \/ (n = EmitterNote /\ emitterOn) \/ n = lastNote
        BY <3>1, Zenon DEF Most
    <3> QED BY <3>2
  <2> QED BY <2>3, <2>4, <2>7 DEF n
<1>4. ASSUME NEW v \in P, NEW w \in P, f[v] = f[w] PROVE v = w
  <2> DEFINE n == pool.voices[v].noteNumber
  <2>1. n \in Notes /\ v \in Sounding(pool, n) /\ w \in Sounding(pool, n)
      BY <1>3, <1>4
  <2> HIDE DEF n
  <2>2. Cardinality(Sounding(pool, n)) <= 1
    <3>1. Cardinality(Sounding(pool, n)) <= Most(n)
        BY <2>1 DEF NotesInv
    <3>2. Most(n) \in {0, 1}
        BY DEF Most
    <3>3. Sounding(pool, n) \in SUBSET VoiceIndex
        BY DEF Sounding
    <3>4. Cardinality(Sounding(pool, n)) \in Nat
        BY <3>3, FewVoices
    <3> QED BY <3>1, <3>2, <3>4
  <2>3. Sounding(pool, n) \in SUBSET VoiceIndex
      BY DEF Sounding
  <2>4. IsFiniteSet(Sounding(pool, n)) /\ Cardinality(Sounding(pool, n)) \in Nat
      BY <2>3, FewVoices
  <2>5. Cardinality(Sounding(pool, n)) # 0
      BY <2>1, <2>4, FS_EmptySet
  <2>6. Cardinality(Sounding(pool, n)) = 1
      BY <2>2, <2>4, <2>5
  <2>7. \E u : Sounding(pool, n) = {u}
      BY <2>4, <2>6, FS_Singleton
  <2> QED BY <2>1, <2>7
<1>5. f \in Injection(P, K)
  <2>1. f \in [P -> K]
      BY <1>3
  <2>2. \A v, w \in P : f[v] = f[w] => v = w
      BY <1>4
  <2> HIDE DEF f, P, K
  <2> QED BY <2>1, <2>2 DEF Injection, IsInjective
<1>6. IsFiniteSet(TrackNotes) /\ Cardinality(TrackNotes) <= m /\ Cardinality(TrackNotes) \in Nat
  <2> DEFINE g == [i \in 1 .. m |-> Tracks[i].note]
  <2>1. g \in Surjection(1 .. m, TrackNotes)
      BY <1>1 DEF Surjection, TrackNotes
  <2>2. IsFiniteSet(1 .. m) /\ Cardinality(1 .. m) = m
      BY <1>1, FS_Interval
  <2> HIDE DEF g, m
  <2>3. IsFiniteSet(TrackNotes) /\ Cardinality(TrackNotes) <= m
      BY <2>1, <2>2, FS_Surjection
  <2> QED BY <2>3, FS_CardinalityType
<1>7. IsFiniteSet(L) /\ Cardinality(L) <= m + 1 /\ Cardinality(L) \in Nat
  <2>1. IsFiniteSet(L) /\ Cardinality(L) <= Cardinality(TrackNotes) + 1
    <3>1. /\ IsFiniteSet(L)
          /\ Cardinality(L) = IF lastNote \in TrackNotes THEN Cardinality(TrackNotes)
                              ELSE Cardinality(TrackNotes) + 1
        BY <1>6, FS_AddElement, Zenon
    <3> HIDE DEF L
    <3> QED BY <1>6, <3>1
  <2>2. Cardinality(L) \in Nat
      BY <2>1, FS_CardinalityType
  <2> HIDE DEF L, m
  <2> QED BY <1>1, <1>6, <2>1, <2>2
<1> HIDE DEF L
<1>8. IsFiniteSet(K) /\ Cardinality(K) <= (m + 1) + (IF emitterOn THEN 1 ELSE 0)
      /\ Cardinality(K) \in Nat
  <2>1. CASE emitterOn
    <3>1. K = L \cup {EmitterNote}
        BY <2>1
    <3>2. IsFiniteSet(K) /\ Cardinality(K) <= Cardinality(L) + 1
        BY <1>7, <3>1, FS_AddElement
    <3>3. Cardinality(K) \in Nat
        BY <3>2, FS_CardinalityType
    <3> HIDE DEF K, m
    <3> QED BY <1>1, <1>7, <2>1, <3>2, <3>3
  <2>2. CASE ~ emitterOn
    <3>1. K = L
        BY <2>2
    <3> HIDE DEF K, m
    <3> QED BY <1>1, <1>7, <2>2, <3>1
  <2> QED BY <1>1, <2>1, <2>2
<1> HIDE DEF K, f
<1>9. Cardinality(P) <= Cardinality(K)
    BY <1>5, <1>8, FS_Injection
<1>10. Cardinality(P) \in Nat
    BY <1>2, FewVoices
<1> HIDE DEF P, m
<1>11. Cardinality(P) <= m + 1 + (IF emitterOn THEN 1 ELSE 0)
    BY <1>1, <1>8, <1>9, <1>10
<1> QED BY <1>10, <1>11 DEF P, m

LEMMA RoomLeft ==
  ASSUME PathSound, NotesInv, EnoughVoices
  PROVE  /\ Cardinality(Playing(pool)) \in Nat
         /\ Cardinality(Playing(pool)) + MostTaken <= NumVoices
<1>1. /\ Cardinality(Playing(pool)) \in Nat
      /\ Cardinality(Playing(pool)) <= Len(Tracks) + 1 + (IF emitterOn THEN 1 ELSE 0)
    BY PlayingCounts DEF EnoughVoices
<1>2. firstProcess => Cardinality(Playing(pool)) = 0
    BY FS_EmptySet DEF NotesInv
<1>3. Len(Tracks) \in Nat /\ NumVoices \in Nat /\ 2 * Len(Tracks) + 3 <= NumVoices
      /\ emitterOn \in BOOLEAN /\ firstProcess \in BOOLEAN
    BY SettingsType, InstrumentAssumption DEF EnoughVoices, PathSound, SourcesSound
<1> DEFINE c == Cardinality(Playing(pool))
           m == Len(Tracks)
<1> HIDE DEF c, m
<1>4. c \in Nat /\ c <= m + 1 + (IF emitterOn THEN 1 ELSE 0) /\ (firstProcess => c = 0)
      /\ m \in Nat /\ 2 * m + 3 <= NumVoices
    BY <1>1, <1>2, <1>3 DEF c, m
<1>5. c + ((IF emitterOn THEN 0 ELSE 1) + (IF firstProcess THEN 2 * m ELSE m + 1)) <= NumVoices
  <2>1. CASE firstProcess
      BY <1>3, <1>4, <2>1
  <2>2. CASE ~ firstProcess
      BY <1>3, <1>4, <2>2
  <2> QED BY <2>1, <2>2
<1> QED BY <1>1, <1>5 DEF c, m, MostTaken

(* A note for which the port asks sounds.                                  *)
LEMMA AskedIsHeard ==
  ASSUME PathSound, PathSound', NotesInv, EnoughVoices, NEW n \in Notes,
         NEW arpFires \in BOOLEAN, NEW emitterFires \in BOOLEAN, Passes(arpFires, emitterFires),
         0 < PortHeld(n, 0, arpFires, emitterFires)
  PROVE  Sounding(pool', n) # {}
<1>0. /\ SourcesSound /\ SourcesSound' /\ pool \in Pool /\ Listed(pool)
    BY DEF PathSound, PoolSound
<1>1. PICK port \in Seq(Event) : port = Port(arpFires, emitterFires)
    BY <1>0, PortType
<1>2. PICK q : q = pool' /\ q \in Processed(pool, port)
    BY <1>1 DEF Passes
<1> DEFINE c == Cardinality(Playing(pool))
           y == PortHeld(n, 0, arpFires, emitterFires)
<1>3. c \in Nat /\ c + MostTaken <= NumVoices
    BY RoomLeft
<1>4. Reads(Holding(n), Nat, 0, port, y)
    BY <1>0, <1>1, PortHolds
<1>5. arpFires => ~ firstProcess
    BY DEF Passes
<1>6. \E d \in Room : Reads(Taking, Room, c, Port(arpFires, emitterFires), d)
    BY <1>0, <1>3, <1>5, PortTakes
<1>7. PICK d \in Room : Reads(Taking, Room, c, port, d)
    BY <1>1, <1>6
<1>8. c <= c /\ Heard(pool, n, 0)
    BY <1>3 DEF Heard
<1> HIDE DEF y
<1>9. Heard(q, n, y)
    BY <1>0, <1>2, <1>4, <1>7, <1>8, PassCounts
<1> QED BY <1>2, <1>9 DEF Heard, y

(***************************************************************************)
(* A hit of the sequencer and a new note of the arpeggiator are heard, as  *)
(* long as the three modules send different notes, released voices are     *)
(* given back and there are two voices for each track and three more.      *)
(***************************************************************************)
THEOREM NotesAlwaysHeard == SourcesApart /\ EnoughVoices => (PathSpec => NotesAreHeard)
<1> SUFFICES ASSUME SourcesApart, EnoughVoices PROVE PathSpec => NotesAreHeard
    OBVIOUS
<1> DEFINE Sound ==
      /\ currentStep' # currentStep =>
           \A i \in DOMAIN Tracks :
             Tracks[i].pattern[currentStep' + 1] => Sounds(pool'.voices, Tracks[i].note)
      /\ lastNote' # lastNote => Sounds(pool'.voices, lastNote')
<1>1. ASSUME PathSound, PathSound', NotesInv, [PathNext]_pathVars PROVE [Sound]_pathVars
  <2>1. CASE Pass
    <3>1. PICK arpFires, emitterFires \in BOOLEAN : Passes(arpFires, emitterFires)
        BY <2>1 DEF Pass, Passes
    <3>2. \A n : Sounding(pool', n) # {} => Sounds(pool'.voices, n)
        BY DEF Sounding, Sounds
    <3>3. ASSUME currentStep' # currentStep, NEW i \in DOMAIN Tracks,
                 Tracks[i].pattern[currentStep' + 1]
          PROVE  Sounds(pool'.voices, Tracks[i].note)
      <4> DEFINE n == Tracks[i].note
      <4>1. n \in Notes
          BY NotesAre DEF TrackNotes
      <4>2. StepIsOver
          BY <3>1, <3>3 DEF Passes, SequencerProcesses
      <4>3. n \in HitNotes(currentStep')
          BY <3>3 DEF HitNotes, Played
      <4> HIDE DEF n
      <4>4. PortHeld(n, 0, arpFires, emitterFires) = 1
          BY <4>2, <4>3 DEF PortHeld, Hits
      <4>5. Sounding(pool', n) # {}
          BY <1>1, <3>1, <4>1, <4>4, AskedIsHeard
      <4> QED BY <3>2, <4>5 DEF n
    <3>4. ASSUME lastNote' # lastNote PROVE Sounds(pool'.voices, lastNote')
      <4>1. arpFires /\ sequence # << >> /\ lastNote' = ArpNote /\ ArpNote # lastNote
          BY <3>1, <3>4, ArpMoves
      <4>2. SourcesSound
          BY <1>1 DEF PathSound
      <4>3. PICK n \in Notes : n = ArpNote
          BY <4>1, <4>2, ArpNoteType
      <4>4. EmittedHeld(n, 0, emitterFires) \in Nat
          BY DEF EmittedHeld, EmitterHeld
      <4>5. 0 < SequenceHeld(n, EmittedHeld(n, 0, emitterFires), arpFires)
          BY <4>1, <4>3, <4>4 DEF SequenceHeld, ArpHeld
      <4>6. 0 < PortHeld(n, 0, arpFires, emitterFires)
          BY <4>5 DEF PortHeld
      <4>7. Sounding(pool', n) # {}
          BY <1>1, <3>1, <4>6, AskedIsHeard
      <4> QED BY <3>2, <4>1, <4>3, <4>7
    <3> QED BY <3>3, <3>4
  <2>2. CASE SetSequence
      BY <2>2 DEF SetSequence, sequencer
  <2>3. CASE UNCHANGED pathVars
      BY <2>3
  <2> QED BY <1>1, <2>1, <2>2, <2>3 DEF PathNext
<1>2. PathSound /\ PathSound' /\ (SourcesApart => NotesInv) /\ [PathNext]_pathVars
        => [Sound]_pathVars
    BY <1>1
<1>3. NotesAreHeard <=> [][Sound]_pathVars
    BY DEF NotesAreHeard
<1> HIDE DEF Sound
<1> QED BY <1>2, <1>3, PathAlwaysSound, NotesInvariant, PTL DEF PathSpec
=============================================================================
