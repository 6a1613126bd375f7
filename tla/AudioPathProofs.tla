-------------------------- MODULE AudioPathProofs --------------------------
(***************************************************************************)
(* Proofs about AudioPath for every number of rings and voices, every      *)
(* resolution of the cycle, every length of a buffer and every sample: the *)
(* engine stays sound while it plays, every point of a ring is found once  *)
(* per cycle, and every hit is heard and rings out.                        *)
(***************************************************************************)
EXTENDS AudioPath, AudioEngineProofs, SequenceLemmas

-----------------------------------------------------------------------------
(***************************************************************************)
(* The pool of voices.                                                     *)
(***************************************************************************)
Voice == {Free} \cup [noteNumber : DOMAIN SampleSize, playbackPosition : Nat]
Pool == [VoiceIndex -> Voice]

Silent(pool, n) == \A v \in VoiceIndex : pool[v].noteNumber # n

OnePerNote(pool) ==
  \A v, w \in VoiceIndex :
    pool[v] # Free /\ pool[v].noteNumber = pool[w].noteNumber => v = w

Starts(pool, n) == \E v \in VoiceIndex : pool[v] = Playing(n, 0)

LEMMA RingNumbers ==
  /\ NumRings \in Nat /\ NumRings > 0 /\ NumVoices \in Nat /\ NumVoices > 0
  /\ \A r \in Ring : r \in Nat /\ r # -1
  /\ \A n \in DOMAIN SampleSize : n \in Ring
BY EngineAssumption, SamplerAssumption, AudioPathAssumption DEF Ring

(* A voice is free exactly when it carries no note.                        *)
LEMMA FreeHasNoNote ==
  ASSUME NEW voice \in Voice
  PROVE  voice = Free <=> voice.noteNumber \notin DOMAIN SampleSize
<1>1. Free.noteNumber = -1 /\ -1 \notin DOMAIN SampleSize
    BY RingNumbers DEF Free
<1> QED BY <1>1 DEF Voice

LEMMA FindFreeVoiceIsFree ==
  ASSUME NEW pool, FreeVoices(pool) # {}
  PROVE  FindFreeVoice(pool) \in FreeVoices(pool)
<1>1. FreeVoices(pool) \in SUBSET Nat
    BY DEF FreeVoices, VoiceIndex
<1>2. \E v \in FreeVoices(pool) : \A w \in FreeVoices(pool) : v <= w
    BY <1>1, LeastNumber
<1> QED BY <1>2 DEF FindFreeVoice

(* A hit takes a free voice or none.                                       *)
LEMMA TriggerKeeps ==
  ASSUME NEW pool \in Pool, NEW n
  PROVE  /\ TriggerSample(pool, n) \in Pool
         /\ OnePerNote(pool) /\ Silent(pool, n) => OnePerNote(TriggerSample(pool, n))
         /\ \A v \in VoiceIndex : pool[v] # Free => TriggerSample(pool, n)[v] = pool[v]
<1>1. CASE n \notin DOMAIN SampleSize \/ FreeVoices(pool) = {}
    BY <1>1 DEF TriggerSample
<1>2. CASE n \in DOMAIN SampleSize /\ FreeVoices(pool) # {}
  <2> DEFINE u == FindFreeVoice(pool)
             next == TriggerSample(pool, n)
  <2>1. u \in VoiceIndex /\ pool[u] = Free
      BY <1>2, FindFreeVoiceIsFree DEF FreeVoices
  <2>2. next = [pool EXCEPT ![u] = Playing(n, 0)]
      BY <1>2 DEF TriggerSample
  <2>3. Playing(n, 0) \in Voice
      BY <1>2 DEF Playing, Voice
  <2>4. /\ next \in Pool /\ next[u] = Playing(n, 0)
        /\ \A v \in VoiceIndex : v # u => next[v] = pool[v]
      BY <2>1, <2>2, <2>3 DEF Pool
  <2>5. next[u].noteNumber = n
      BY <2>4 DEF Playing
  <2> HIDE DEF u, next
  <2>6. OnePerNote(pool) /\ Silent(pool, n) => OnePerNote(next)
    <3> SUFFICES ASSUME OnePerNote(pool), Silent(pool, n),
                        NEW v \in VoiceIndex, NEW w \in VoiceIndex,
                        next[v] # Free, next[v].noteNumber = next[w].noteNumber
                 PROVE  v = w
        BY DEF OnePerNote
    <3>1. CASE v = u
        BY <2>4, <2>5, <3>1 DEF Silent
    <3>2. CASE w = u
        BY <2>4, <2>5, <3>2 DEF Silent
    <3>3. CASE v # u /\ w # u
        BY <2>4, <3>3 DEF OnePerNote
    <3> QED BY <3>1, <3>2, <3>3
  <2> QED BY <2>1, <2>4, <2>6 DEF next
<1> QED BY <1>1, <1>2

LEMMA StopKeeps ==
  ASSUME NEW pool \in Pool, NEW n \in Ring
  PROVE  /\ StopSample(pool, n) \in Pool
         /\ OnePerNote(pool) => OnePerNote(StopSample(pool, n))
         /\ Silent(StopSample(pool, n), n)
         /\ \A v \in VoiceIndex : pool[v].noteNumber # n => StopSample(pool, n)[v] = pool[v]
<1> DEFINE next == StopSample(pool, n)
<1>1. next \in Pool
    BY DEF StopSample, Pool, Voice
<1>2. \A v \in VoiceIndex : next[v] = IF pool[v].noteNumber = n THEN Free ELSE pool[v]
    BY DEF StopSample
<1>3. Free.noteNumber = -1 /\ n # -1
    BY RingNumbers DEF Free
<1> HIDE DEF next
<1>4. Silent(next, n)
    BY <1>2, <1>3 DEF Silent
<1>5. OnePerNote(pool) => OnePerNote(next)
  <2> SUFFICES ASSUME OnePerNote(pool), NEW v \in VoiceIndex, NEW w \in VoiceIndex,
                      next[v] # Free, next[v].noteNumber = next[w].noteNumber
               PROVE  v = w
      BY DEF OnePerNote
  <2>1. next[v] = pool[v]
      BY <1>2
  <2>2. next[w] # Free
    <3>1. pool[v] \in Voice
        BY DEF Pool
    <3>2. pool[v].noteNumber \in DOMAIN SampleSize
        BY <2>1, <3>1, FreeHasNoNote
    <3> QED BY <1>3, <2>1, <3>2, RingNumbers
  <2>3. next[w] = pool[w]
      BY <1>2, <2>2
  <2> QED BY <2>1, <2>3 DEF OnePerNote
<1> QED BY <1>1, <1>2, <1>4, <1>5 DEF next

(* There are as many voices as rings: when a ring does not sound, there is *)
(* a voice for it.                                                         *)
LEMMA VoiceIsFree ==
  ASSUME NEW pool \in Pool, OnePerNote(pool), NEW n \in Ring, Silent(pool, n)
  PROVE  FreeVoices(pool) # {}
<1> SUFFICES ASSUME FreeVoices(pool) = {} PROVE FALSE
    OBVIOUS
<1> DEFINE f == [v \in VoiceIndex |-> pool[v].noteNumber]
           others == Ring \ {n}
<1>1. ASSUME NEW v \in VoiceIndex PROVE pool[v] # Free /\ pool[v].noteNumber \in others
  <2>1. pool[v] # Free /\ pool[v] \in Voice
      BY DEF FreeVoices, Pool
  <2> QED BY <2>1, FreeHasNoNote, RingNumbers DEF Silent
<1>2. f \in [VoiceIndex -> others]
    BY <1>1
<1>3. IsFiniteSet(VoiceIndex) /\ Cardinality(VoiceIndex) = NumVoices
  <2>1. ~ (1 > NumVoices) /\ NumVoices - 1 + 1 = NumVoices /\ NumVoices \in Int
      BY RingNumbers
  <2> QED BY <2>1, FS_Interval DEF VoiceIndex
<1>4. IsFiniteSet(Ring) /\ Cardinality(Ring) = NumRings
  <2>1. NumRings - 1 \in Int /\ ~ (0 > NumRings - 1) /\ (NumRings - 1) - 0 + 1 = NumRings
      BY RingNumbers
  <2> QED BY <2>1, FS_Interval DEF Ring
<1>5. IsFiniteSet(others) /\ Cardinality(others) = NumRings - 1
    BY <1>4, FS_RemoveElement
<1>6. Cardinality(others) < Cardinality(VoiceIndex)
    BY <1>3, <1>5, RingNumbers, AudioPathAssumption
<1> HIDE DEF f, others
<1>7. PICK v, w \in VoiceIndex : v # w /\ f[v] = f[w]
    BY <1>2, <1>3, <1>5, <1>6, FS_PigeonHole
<1>8. pool[v].noteNumber = pool[w].noteNumber
    BY <1>7 DEF f
<1> QED BY <1>1, <1>7, <1>8 DEF OnePerNote

LEMMA TriggerStarts ==
  ASSUME NEW pool \in Pool, OnePerNote(pool), NEW n \in DOMAIN SampleSize, Silent(pool, n)
  PROVE  Starts(TriggerSample(pool, n), n)
<1>1. FreeVoices(pool) # {}
    BY VoiceIsFree, RingNumbers
<1>2. FindFreeVoice(pool) \in VoiceIndex
    BY <1>1, FindFreeVoiceIsFree DEF FreeVoices
<1>3. TriggerSample(pool, n)[FindFreeVoice(pool)] = Playing(n, 0)
    BY <1>1, <1>2 DEF TriggerSample, Pool
<1> QED BY <1>2, <1>3 DEF Starts
-----------------------------------------------------------------------------
(***************************************************************************)
(* The events of one buffer.  Every NOTE_ON leaves its ring with a         *)
(* NOTE_OFF behind it; the port turns the order of all of them round.      *)
(***************************************************************************)
Event == [kind : {"NOTE_ON", "NOTE_OFF"}, note : Ring]

Paired(s) ==
  \A i \in 1 .. Len(s) :
    /\ s[i].kind = "NOTE_ON" => i + 1 \in 1 .. Len(s) /\ s[i + 1] = NoteOff(s[i].note)
    /\ s[i].kind = "NOTE_OFF" => i - 1 \in 1 .. Len(s) /\ s[i - 1] = NoteOn(s[i].note)

Refreshing(s) ==
  \A i \in 1 .. Len(s) :
    /\ s[i].kind = "NOTE_ON" => i - 1 \in 1 .. Len(s) /\ s[i - 1] = NoteOff(s[i].note)
    /\ s[i].kind = "NOTE_OFF" => i + 1 \in 1 .. Len(s) /\ s[i + 1] = NoteOn(s[i].note)

Pairs == {s \in Seq(Event) : Paired(s)}

LEMMA PairsConcatenate ==
  ASSUME NEW s \in Pairs, NEW t \in Pairs
  PROVE  s \o t \in Pairs
<1> DEFINE m == Len(s)
           n == Len(t)
           u == s \o t
<1>1. s \in Seq(Event) /\ t \in Seq(Event) /\ m \in Nat /\ n \in Nat
    BY DEF Pairs
<1>2. /\ u \in Seq(Event) /\ Len(u) = m + n
      /\ \A i \in 1 .. m : u[i] = s[i]
      /\ \A i \in 1 .. n : u[m + i] = t[i]
    BY <1>1
<1>3. /\ \A i \in 1 .. m :
           /\ s[i].kind = "NOTE_ON" => i + 1 \in 1 .. m /\ s[i + 1] = NoteOff(s[i].note)
           /\ s[i].kind = "NOTE_OFF" => i - 1 \in 1 .. m /\ s[i - 1] = NoteOn(s[i].note)
      /\ \A i \in 1 .. n :
           /\ t[i].kind = "NOTE_ON" => i + 1 \in 1 .. n /\ t[i + 1] = NoteOff(t[i].note)
           /\ t[i].kind = "NOTE_OFF" => i - 1 \in 1 .. n /\ t[i - 1] = NoteOn(t[i].note)
    BY DEF Pairs, Paired
<1> HIDE DEF m, n, u
<1>4. ASSUME NEW i \in 1 .. m + n
      PROVE  /\ u[i].kind = "NOTE_ON" => i + 1 \in 1 .. m + n /\ u[i + 1] = NoteOff(u[i].note)
             /\ u[i].kind = "NOTE_OFF" => i - 1 \in 1 .. m + n /\ u[i - 1] = NoteOn(u[i].note)
  <2>1. CASE i \in 1 .. m
    <3>1. u[i] = s[i] /\ \A j \in 1 .. m : j \in 1 .. m + n
        BY <1>1, <1>2, <2>1
    <3> QED BY <1>2, <1>3, <2>1, <3>1
  <2>2. CASE i \notin 1 .. m
    <3>1. i - m \in 1 .. n /\ m + (i - m) = i /\ i \in Int
        BY <1>1, <2>2
    <3>2. u[i] = t[i - m]
        BY <1>2, <3>1
    <3>3. /\ (i - m) + 1 \in 1 .. n
               => i + 1 \in 1 .. m + n /\ m + ((i - m) + 1) = i + 1
          /\ (i - m) - 1 \in 1 .. n
               => i - 1 \in 1 .. m + n /\ m + ((i - m) - 1) = i - 1
        BY <1>1, <3>1
    <3>4. u[i].kind = "NOTE_ON" => (i - m) + 1 \in 1 .. n /\ t[(i - m) + 1] = NoteOff(u[i].note)
        BY <1>3, <3>1, <3>2
    <3>5. u[i].kind = "NOTE_OFF" => (i - m) - 1 \in 1 .. n /\ t[(i - m) - 1] = NoteOn(u[i].note)
        BY <1>3, <3>1, <3>2
    <3>6. (i - m) + 1 \in 1 .. n => u[i + 1] = t[(i - m) + 1]
        BY <1>2, <3>3
    <3>7. (i - m) - 1 \in 1 .. n => u[i - 1] = t[(i - m) - 1]
        BY <1>2, <3>3
    <3> QED BY <3>3, <3>4, <3>5, <3>6, <3>7
  <2> QED BY <2>1, <2>2
<1> QED BY <1>2, <1>4 DEF Pairs, Paired, u

LEMMA PairsType ==
  /\ Pairs \in SUBSET Seq(Event)
  /\ << >> \in Pairs
  /\ \A r \in Ring : <<NoteOn(r), NoteOff(r)>> \in Pairs
<1>1. << >> \in Pairs
    BY DEF Pairs, Paired
<1>2. ASSUME NEW r \in Ring PROVE <<NoteOn(r), NoteOff(r)>> \in Pairs
  <2> DEFINE s == <<NoteOn(r), NoteOff(r)>>
  <2>1. NoteOn(r) \in Event /\ NoteOff(r) \in Event
      BY DEF NoteOn, NoteOff, Event
  <2>2. s \in Seq(Event) /\ Len(s) = 2 /\ s[1] = NoteOn(r) /\ s[2] = NoteOff(r)
      BY <2>1
  <2>3. /\ NoteOn(r).kind = "NOTE_ON" /\ NoteOn(r).note = r
        /\ NoteOff(r).kind = "NOTE_OFF" /\ NoteOff(r).note = r
      BY DEF NoteOn, NoteOff
  <2> HIDE DEF s
  <2>4. ASSUME NEW i \in 1 .. 2
        PROVE  /\ s[i].kind = "NOTE_ON" => i + 1 \in 1 .. 2 /\ s[i + 1] = NoteOff(s[i].note)
               /\ s[i].kind = "NOTE_OFF" => i - 1 \in 1 .. 2 /\ s[i - 1] = NoteOn(s[i].note)
    <3>1. CASE i = 1
        BY <2>2, <2>3, <3>1
    <3>2. CASE i = 2
        BY <2>2, <2>3, <3>2
    <3> QED BY <3>1, <3>2
  <2> QED BY <2>2, <2>4 DEF Pairs, Paired, s
<1> QED BY <1>1, <1>2 DEF Pairs

(* Turned round, every NOTE_ON comes right behind a NOTE_OFF of its note.  *)
LEMMA ReadPortRefreshes ==
  ASSUME NEW port \in Pairs
  PROVE  /\ ReadPort(port) \in Seq(Event)
         /\ Refreshing(ReadPort(port))
         /\ Len(ReadPort(port)) = Len(port)
         /\ \A k \in 1 .. Len(port) : \E i \in 1 .. Len(port) : ReadPort(port)[i] = port[k]
         /\ \A i \in 1 .. Len(port) : \E k \in 1 .. Len(port) : ReadPort(port)[i] = port[k]
<1> DEFINE n == Len(port)
           events == ReadPort(port)
<1>1. port \in Seq(Event) /\ n \in Nat /\ \A i \in 1 .. n : port[i] \in Event
    BY DEF Pairs
<1>2. events = [i \in 1 .. n |-> port[(n - i) + 1]]
    BY DEF ReadPort, Reverse
<1> HIDE DEF n, events
<1>3. \A i \in 1 .. n : (n - i) + 1 \in 1 .. n
    BY <1>1
<1>4. events \in [1 .. n -> Event] /\ \A i \in 1 .. n : events[i] = port[(n - i) + 1]
    BY <1>1, <1>2, <1>3
<1>5. events \in Seq(Event) /\ Len(events) = n
    BY <1>1, <1>4
<1>6. ASSUME NEW i \in 1 .. n
      PROVE  /\ events[i].kind = "NOTE_ON"
                  => i - 1 \in 1 .. n /\ events[i - 1] = NoteOff(events[i].note)
             /\ events[i].kind = "NOTE_OFF"
                  => i + 1 \in 1 .. n /\ events[i + 1] = NoteOn(events[i].note)
  <2> DEFINE j == (n - i) + 1
  <2>1. /\ j \in 1 .. n
        /\ j + 1 \in 1 .. n => i - 1 \in 1 .. n /\ (n - (i - 1)) + 1 = j + 1
        /\ j - 1 \in 1 .. n => i + 1 \in 1 .. n /\ (n - (i + 1)) + 1 = j - 1
      BY <1>1
  <2>2. events[i] = port[j]
      BY <1>4
  <2> HIDE DEF j
  <2>3. /\ port[j].kind = "NOTE_ON" => j + 1 \in 1 .. n /\ port[j + 1] = NoteOff(port[j].note)
        /\ port[j].kind = "NOTE_OFF" => j - 1 \in 1 .. n /\ port[j - 1] = NoteOn(port[j].note)
      BY <2>1 DEF Pairs, Paired, n
  <2>4. j + 1 \in 1 .. n => events[i - 1] = port[j + 1]
      BY <1>4, <2>1
  <2>5. j - 1 \in 1 .. n => events[i + 1] = port[j - 1]
      BY <1>4, <2>1
  <2> QED BY <2>1, <2>2, <2>3, <2>4, <2>5
<1>7. ASSUME NEW k \in 1 .. n PROVE \E i \in 1 .. n : events[i] = port[k]
  <2>1. (n - k) + 1 \in 1 .. n /\ (n - ((n - k) + 1)) + 1 = k
      BY <1>1
  <2>2. events[(n - k) + 1] = port[k]
      BY <1>4, <2>1
  <2> QED BY <2>1, <2>2
<1>8. \A i \in 1 .. n : \E k \in 1 .. n : events[i] = port[k]
    BY <1>3, <1>4
<1> QED BY <1>5, <1>6, <1>7, <1>8 DEF Refreshing, n, events
-----------------------------------------------------------------------------
(***************************************************************************)
(* The sampler handles the events one by one.                              *)
(***************************************************************************)
LEMMA HandleEventType ==
  ASSUME NEW pool \in Pool, NEW e \in Event
  PROVE  HandleEvent(pool, e) \in Pool
<1>1. e.note \in Ring
    BY DEF Event
<1> QED BY <1>1, TriggerKeeps, StopKeeps DEF HandleEvent

LEMMA HandledSteps ==
  ASSUME NEW pool \in Pool, NEW events \in Seq(Event)
  PROVE  \E a \in [0 .. Len(events) -> Pool] :
           /\ a[0] = pool
           /\ \A i \in 1 .. Len(events) : a[i] = HandleEvent(a[i - 1], events[i])
           /\ EventsHandled(pool, events) = a[Len(events)]
<1> DEFINE n == Len(events)
           Next1(f, i) == IF i = 0 THEN pool ELSE HandleEvent(f[i - 1], events[i])
           after == CHOOSE f : f = [i \in 0 .. n |-> Next1(f, i)]
           step == [i \in 1 .. n |-> [p \in Pool |-> HandleEvent(p, events[i])]]
<1>1. n \in Nat /\ \A i \in 1 .. n : events[i] \in Event
    OBVIOUS
<1>2. EventsHandled(pool, events) = after[n]
    BY DEF EventsHandled
<1> HIDE DEF n
<1>3. \A i \in 1 .. n, p \in Pool : step[i][p] = HandleEvent(p, events[i])
    OBVIOUS
<1>4. \A i \in 1 .. n, p \in Pool : step[i][p] \in Pool
    BY <1>1, <1>3, HandleEventType
<1> HIDE DEF step
<1>5. PICK a \in [0 .. n -> Pool] : a[0] = pool /\ \A i \in 1 .. n : a[i] = step[i][a[i - 1]]
  <2>1. PICK a \in [0 .. n -> Pool] : Runs(a, pool, step, n)
      BY <1>1, <1>4, StepByStep
  <2> QED BY <2>1 DEF Runs
<1>6. \A i \in 1 .. n : i - 1 \in 0 .. n /\ i # 0 /\ a[i - 1] \in Pool
    BY <1>1, <1>5
<1>7. \A i \in 1 .. n : a[i] = HandleEvent(a[i - 1], events[i])
    BY <1>3, <1>5, <1>6
<1>8. a = [i \in 0 .. n |-> Next1(a, i)]
  <2>1. ASSUME NEW i \in 0 .. n PROVE a[i] = Next1(a, i)
    <3>1. CASE i = 0
        BY <1>5, <3>1
    <3>2. CASE i # 0
      <4>1. i \in 1 .. n
          BY <1>1, <3>2
      <4> QED BY <1>7, <3>2, <4>1
    <3> QED BY <3>1, <3>2
  <2>2. a = [i \in 0 .. n |-> a[i]]
      BY <1>5
  <2> HIDE DEF Next1
  <2> QED BY <2>1, <2>2
<1>9. after = [i \in 0 .. n |-> Next1(after, i)]
  <2> HIDE DEF Next1
  <2> QED BY <1>8
<1> HIDE DEF after
<1>10. ASSUME NEW i \in 0 .. n PROVE after[i] = Next1(after, i)
  <2> HIDE DEF Next1
  <2> QED BY <1>9
<1> DEFINE T == {i \in 0 .. n : after[i] = a[i]}
<1>11. 0 \in T
    BY <1>1, <1>5, <1>10
<1>12. ASSUME NEW k \in 0 .. n - 1, k \in T PROVE k + 1 \in T
  <2>1. k + 1 \in 1 .. n /\ k + 1 \in 0 .. n /\ k + 1 # 0 /\ (k + 1) - 1 = k
      BY <1>1
  <2>2. after[k + 1] = HandleEvent(after[k], events[k + 1])
      BY <1>10, <2>1
  <2> QED BY <1>7, <1>12, <2>1, <2>2
<1> HIDE DEF T
<1>13. \A k \in 0 .. n : k \in T
    BY <1>1, <1>11, <1>12, UpTo
<1>14. n \in T
    BY <1>1, <1>13
<1>15. after[n] = a[n]
    BY <1>14 DEF T
<1> QED BY <1>2, <1>5, <1>7, <1>15 DEF n

(* What is known of the pool after k of the events: no note has two        *)
(* voices; a note that was just stopped has none; a note that was hit      *)
(* sounds from its start, unless it is just about to be hit again; and a   *)
(* voice whose note did not occur plays on.                                *)
After(pool, events, k, next) ==
  /\ next \in Pool
  /\ OnePerNote(next)
  /\ k # 0 /\ events[k].kind = "NOTE_OFF" => Silent(next, events[k].note)
  /\ \A n \in DOMAIN SampleSize :
       /\ \E j \in 1 .. k : events[j] = NoteOn(n)
       /\ events[k] # NoteOff(n)
       => Starts(next, n)
  /\ \A v \in VoiceIndex :
       /\ pool[v] # Free
       /\ \A j \in 1 .. k : events[j].note # pool[v].noteNumber
       => next[v] = pool[v]

LEMMA HitHeard ==
  ASSUME NEW pool \in Pool, NEW events \in Seq(Event), Refreshing(events),
         NEW k \in 0 .. Len(events) - 1, NEW heard, After(pool, events, k, heard),
         events[k + 1].kind = "NOTE_ON"
  PROVE  After(pool, events, k + 1, HandleEvent(heard, events[k + 1]))
<1> DEFINE e == events[k + 1]
           next == HandleEvent(heard, e)
<1>1. /\ Len(events) \in Nat /\ k \in Nat /\ k + 1 \in 1 .. Len(events)
      /\ (k + 1) - 1 = k /\ k + 1 # 0
    OBVIOUS
<1>2. e \in Event /\ e.note \in Ring /\ e = NoteOn(e.note)
  <2>1. e \in Event /\ e.kind = "NOTE_ON"
      BY <1>1
  <2> HIDE DEF e
  <2> QED BY <2>1 DEF Event, NoteOn
<1>3. k \in 1 .. Len(events) /\ k # 0 /\ events[k] = NoteOff(e.note)
  <2>1. (k + 1) - 1 \in 1 .. Len(events) /\ events[(k + 1) - 1] = NoteOff(e.note)
      BY <1>1 DEF Refreshing
  <2> QED BY <1>1, <2>1
<1>4. Silent(heard, e.note)
    BY <1>3 DEF After, NoteOff
<1>5. heard \in Pool /\ OnePerNote(heard)
    BY DEF After
<1>6. next = TriggerSample(heard, e.note)
    BY DEF HandleEvent
<1>7. /\ next \in Pool /\ OnePerNote(next)
      /\ \A v \in VoiceIndex : heard[v] # Free => next[v] = heard[v]
    BY <1>4, <1>5, <1>6, TriggerKeeps
<1>8. e.note \in DOMAIN SampleSize => Starts(next, e.note)
    BY <1>4, <1>5, <1>6, TriggerStarts
<1>9. \A j \in 1 .. k + 1 : j = k + 1 \/ j \in 1 .. k
    BY <1>1
<1>10. \A j \in 1 .. k : j \in 1 .. k + 1
    BY <1>1
<1> HIDE DEF next
<1>11. ASSUME NEW n \in DOMAIN SampleSize, \E j \in 1 .. k + 1 : events[j] = NoteOn(n)
       PROVE  Starts(next, n)
  <2>1. CASE n = e.note
      BY <1>8, <2>1
  <2>2. CASE n # e.note
    <3>1. \A q : NoteOn(q).note = q /\ NoteOff(q).note = q
        BY DEF NoteOn, NoteOff
    <3>2. e # NoteOn(n) /\ events[k] # NoteOff(n)
        BY <1>3, <2>2, <3>1
    <3>3. \E j \in 1 .. k : events[j] = NoteOn(n)
        BY <1>9, <1>11, <3>2
    <3>4. Starts(heard, n)
        BY <3>2, <3>3 DEF After
    <3>5. PICK v \in VoiceIndex : heard[v] = Playing(n, 0)
        BY <3>4 DEF Starts
    <3>6. Playing(n, 0) # Free
        BY RingNumbers DEF Playing, Free
    <3> QED BY <1>7, <3>5, <3>6 DEF Starts
  <2> QED BY <2>1, <2>2
<1>12. ASSUME NEW v \in VoiceIndex, pool[v] # Free,
              \A j \in 1 .. k + 1 : events[j].note # pool[v].noteNumber
       PROVE  next[v] = pool[v]
  <2>1. heard[v] = pool[v]
      BY <1>10, <1>12 DEF After
  <2> QED BY <1>7, <1>12, <2>1
<1>13. ~ (e.kind = "NOTE_OFF")
    OBVIOUS
<1> QED BY <1>7, <1>11, <1>12, <1>13 DEF After, next

LEMMA StopHeard ==
  ASSUME NEW pool \in Pool, NEW events \in Seq(Event), Refreshing(events),
         NEW k \in 0 .. Len(events) - 1, NEW heard, After(pool, events, k, heard),
         events[k + 1].kind = "NOTE_OFF"
  PROVE  After(pool, events, k + 1, HandleEvent(heard, events[k + 1]))
<1> DEFINE e == events[k + 1]
           next == HandleEvent(heard, e)
<1>1. /\ Len(events) \in Nat /\ k \in Nat /\ k + 1 \in 1 .. Len(events)
      /\ (k + 1) - 1 = k /\ k + 1 # 0
      /\ \A j \in 1 .. k + 1 : j = k + 1 \/ j \in 1 .. k
      /\ \A j \in 1 .. k : j \in 1 .. k + 1
      /\ k # 0 => k \in 1 .. Len(events) /\ k \in 1 .. k
    OBVIOUS
<1>2. e \in Event /\ e.note \in Ring /\ e = NoteOff(e.note)
  <2>1. e \in Event /\ e.kind = "NOTE_OFF"
      BY <1>1
  <2> HIDE DEF e
  <2> QED BY <2>1 DEF Event, NoteOff
<1>3. heard \in Pool /\ OnePerNote(heard)
    BY DEF After
<1>4. next = StopSample(heard, e.note)
    BY <1>2 DEF HandleEvent
<1>5. /\ next \in Pool /\ OnePerNote(next) /\ Silent(next, e.note)
      /\ \A v \in VoiceIndex : heard[v].noteNumber # e.note => next[v] = heard[v]
    BY <1>2, <1>3, <1>4, StopKeeps
<1> HIDE DEF next
<1>6. ASSUME NEW n \in DOMAIN SampleSize, \E j \in 1 .. k + 1 : events[j] = NoteOn(n),
             e # NoteOff(n)
      PROVE  Starts(next, n)
  <2>1. n # e.note
      BY <1>2, <1>6
  <2>2. /\ e # NoteOn(n)
        /\ \A q : NoteOn(q).note = q /\ NoteOff(q).note = q /\ NoteOff(q).kind = "NOTE_OFF"
      BY <1>2 DEF NoteOn, NoteOff
  <2>3. \E j \in 1 .. k : events[j] = NoteOn(n)
      BY <1>1, <1>6, <2>2
  <2>4. events[k] # NoteOff(n)
    <3> SUFFICES ASSUME events[k] = NoteOff(n) PROVE FALSE
        OBVIOUS
    <3>1. k \in 1 .. Len(events)
        BY <1>1, <2>3
    <3>2. events[k + 1] = NoteOn(n)
        BY <2>2, <3>1 DEF Refreshing
    <3> QED BY <2>2, <3>2
  <2>5. Starts(heard, n)
      BY <2>3, <2>4 DEF After
  <2>6. PICK v \in VoiceIndex : heard[v] = Playing(n, 0)
      BY <2>5 DEF Starts
  <2>7. heard[v].noteNumber = n
      BY <2>6 DEF Playing
  <2> QED BY <1>5, <2>1, <2>6, <2>7 DEF Starts
<1>7. ASSUME NEW v \in VoiceIndex, pool[v] # Free,
             \A j \in 1 .. k + 1 : events[j].note # pool[v].noteNumber
      PROVE  next[v] = pool[v]
  <2>1. heard[v] = pool[v]
      BY <1>1, <1>7 DEF After
  <2>2. k + 1 \in 1 .. k + 1
      BY <1>1
  <2>3. heard[v].noteNumber # e.note
      BY <1>7, <2>1, <2>2
  <2> QED BY <1>5, <2>1, <2>3
<1> QED BY <1>5, <1>6, <1>7 DEF After, next
LEMMA AllEventsHeard ==
  ASSUME NEW pool \in Pool, OnePerNote(pool), NEW events \in Seq(Event), Refreshing(events)
  PROVE  After(pool, events, Len(events), EventsHandled(pool, events))
<1> DEFINE n == Len(events)
<1>1. n \in Nat
    OBVIOUS
<1>2. PICK a \in [0 .. n -> Pool] :
             /\ a[0] = pool
             /\ \A i \in 1 .. n : a[i] = HandleEvent(a[i - 1], events[i])
             /\ EventsHandled(pool, events) = a[n]
    BY HandledSteps
<1> DEFINE T == {k \in 0 .. n : After(pool, events, k, a[k])}
<1>3. 0 \in T
    BY <1>1, <1>2 DEF After
<1>4. ASSUME NEW k \in 0 .. n - 1, k \in T PROVE k + 1 \in T
  <2>1. k + 1 \in 1 .. n /\ k + 1 \in 0 .. n /\ (k + 1) - 1 = k
      BY <1>1
  <2>2. a[k + 1] = HandleEvent(a[k], events[k + 1])
      BY <1>2, <2>1
  <2>3. events[k + 1] \in Event
      BY <2>1
  <2>4. events[k + 1].kind \in {"NOTE_ON", "NOTE_OFF"}
      BY <2>3 DEF Event
  <2>5. After(pool, events, k, a[k])
      BY <1>4
  <2>6. After(pool, events, k + 1, HandleEvent(a[k], events[k + 1]))
      BY <2>4, <2>5, HitHeard, StopHeard
  <2> QED BY <2>1, <2>2, <2>6
<1> HIDE DEF T
<1>5. \A k \in 0 .. n : k \in T
    BY <1>1, <1>3, <1>4, UpTo
<1>6. n \in T
    BY <1>1, <1>5
<1> QED BY <1>2, <1>6 DEF T

(***************************************************************************)
(* What the rings send: events of their own note, and only if the buffer   *)
(* has one of their active points.                                         *)
(***************************************************************************)
HasHit(r) ==
  \E i \in 1 .. PointCount(rings[r]) : Hit(r, SortedTimeline(r)[i]) /\ IsActive(r, i)

LEMMA EventsOfRing ==
  ASSUME Sound, NEW r \in Ring
  PROVE  /\ EventsOf(r) \in Pairs
         /\ \A k \in DOMAIN EventsOf(r) : EventsOf(r)[k].note = r /\ HasHit(r)
         /\ HasHit(r) => \E k \in DOMAIN EventsOf(r) : EventsOf(r)[k] = NoteOn(r)
<1> DEFINE n == PointCount(rings[r])
           pair == <<NoteOn(r), NoteOff(r)>>
           hit(i) == Hit(r, SortedTimeline(r)[i]) /\ IsActive(r, i)
           parts == [i \in 1 .. n |-> IF hit(i) THEN pair ELSE << >>]
<1>1. n \in Nat
    BY PointCountType DEF Sound
<1>2. EventsOf(r) = FlattenSeq(parts)
    BY DEF EventsOf
<1>3. /\ DOMAIN pair = {1, 2} /\ pair[1] = NoteOn(r) /\ pair[2] = NoteOff(r)
      /\ NoteOn(r).note = r /\ NoteOff(r).note = r
    BY DEF NoteOn, NoteOff
<1>4. pair \in Pairs /\ << >> \in Pairs /\ Pairs \in SUBSET Seq(Event)
    BY PairsType
<1> HIDE DEF n, pair, hit
<1>5. parts \in Seq(Pairs) /\ DOMAIN parts = 1 .. n
  <2>1. parts \in [1 .. n -> Pairs]
      BY <1>4
  <2> HIDE DEF parts
  <2> QED BY <1>1, <2>1
<1>6. \A i \in 1 .. n : parts[i] = IF hit(i) THEN pair ELSE << >>
    OBVIOUS
<1> HIDE DEF parts
<1>7. parts \in Seq(Seq(Event))
    BY <1>4, <1>5
<1>8. FlattenSeq(parts) \in Pairs
    BY <1>4, <1>5, FlattenKeeps, PairsConcatenate
<1>9. ASSUME NEW k \in DOMAIN FlattenSeq(parts)
      PROVE  FlattenSeq(parts)[k].note = r /\ \E i \in 1 .. n : hit(i)
  <2>1. PICK i \in 1 .. n : \E j \in DOMAIN parts[i] : FlattenSeq(parts)[k] = parts[i][j]
    <3>1. \E i \in DOMAIN parts : \E j \in DOMAIN parts[i] : FlattenSeq(parts)[k] = parts[i][j]
        BY <1>7, FlattenElement, Zenon
    <3> QED BY <1>5, <3>1
  <2>2. hit(i) /\ parts[i] = pair
    <3>1. DOMAIN << >> = {}
        OBVIOUS
    <3> QED BY <1>6, <2>1, <3>1
  <2> QED BY <1>3, <2>1, <2>2
<1>10. ASSUME NEW i \in 1 .. n, hit(i)
       PROVE  \E k \in DOMAIN FlattenSeq(parts) : FlattenSeq(parts)[k] = NoteOn(r)
  <2>1. parts[i] = pair /\ 1 \in DOMAIN parts[i]
      BY <1>3, <1>6, <1>10
  <2>2. i \in DOMAIN parts
      BY <1>5
  <2>3. \E k \in DOMAIN FlattenSeq(parts) : FlattenSeq(parts)[k] = parts[i][1]
      BY <1>7, <2>1, <2>2, FlattenContains, Zenon
  <2> QED BY <1>3, <2>1, <2>3
<1>11. HasHit(r) <=> \E i \in 1 .. n : hit(i)
    BY DEF HasHit, n, hit
<1> QED BY <1>2, <1>8, <1>9, <1>10, <1>11

LEMMA SamplerPortHits ==
  ASSUME Sound
  PROVE  /\ SamplerPort \in Pairs
         /\ \A k \in DOMAIN SamplerPort : HasHit(SamplerPort[k].note)
         /\ \A r \in Ring : HasHit(r) => \E k \in DOMAIN SamplerPort : SamplerPort[k] = NoteOn(r)
<1> DEFINE parts == [i \in 1 .. NumRings |-> EventsOf(NumRings - i)]
<1>1. NumRings \in Nat /\ \A i \in 1 .. NumRings : NumRings - i \in Ring
    BY RingNumbers DEF Ring
<1>2. parts \in Seq(Pairs) /\ DOMAIN parts = 1 .. NumRings
  <2>1. parts \in [1 .. NumRings -> Pairs]
      BY <1>1, EventsOfRing
  <2> HIDE DEF parts
  <2> QED BY <1>1, <2>1
<1>3. \A i \in 1 .. NumRings : parts[i] = EventsOf(NumRings - i)
    OBVIOUS
<1>4. SamplerPort = FlattenSeq(parts)
    BY DEF SamplerPort
<1> HIDE DEF parts
<1>5. parts \in Seq(Seq(Event)) /\ Pairs \in SUBSET Seq(Event) /\ << >> \in Pairs
    BY <1>2, PairsType
<1>6. SamplerPort \in Pairs
    BY <1>2, <1>4, <1>5, FlattenKeeps, PairsConcatenate
<1>7. ASSUME NEW k \in DOMAIN SamplerPort PROVE HasHit(SamplerPort[k].note)
  <2>1. PICK i \in 1 .. NumRings : \E j \in DOMAIN parts[i] : SamplerPort[k] = parts[i][j]
    <3>1. k \in DOMAIN FlattenSeq(parts)
        BY <1>4
    <3>2. \E i \in DOMAIN parts : \E j \in DOMAIN parts[i] : FlattenSeq(parts)[k] = parts[i][j]
        BY <1>5, <3>1, FlattenElement, Zenon
    <3> QED BY <1>2, <1>4, <3>2
  <2>2. PICK j \in DOMAIN EventsOf(NumRings - i) : SamplerPort[k] = EventsOf(NumRings - i)[j]
      BY <1>3, <2>1
  <2>3. EventsOf(NumRings - i)[j].note = NumRings - i /\ HasHit(NumRings - i)
      BY <1>1, EventsOfRing
  <2> QED BY <2>2, <2>3
<1>8. ASSUME NEW r \in Ring, HasHit(r)
      PROVE  \E k \in DOMAIN SamplerPort : SamplerPort[k] = NoteOn(r)
  <2>1. NumRings - r \in 1 .. NumRings /\ NumRings - (NumRings - r) = r
      BY RingNumbers DEF Ring
  <2>2. parts[NumRings - r] = EventsOf(r)
      BY <1>3, <2>1
  <2>3. PICK j \in DOMAIN EventsOf(r) : EventsOf(r)[j] = NoteOn(r)
      BY <1>8, EventsOfRing
  <2>4. NumRings - r \in DOMAIN parts /\ j \in DOMAIN parts[NumRings - r]
      BY <1>2, <2>1, <2>2
  <2>5. \E k \in DOMAIN FlattenSeq(parts) : FlattenSeq(parts)[k] = parts[NumRings - r][j]
      BY <1>5, <2>4, FlattenContains
  <2> QED BY <1>4, <2>2, <2>3, <2>5
<1> QED BY <1>6, <1>7, <1>8

(* One buffer: what the sampler has heard when it begins to mix.           *)
LEMMA BufferHeard ==
  ASSUME Sound, NEW pool \in Pool, OnePerNote(pool)
  PROVE  LET heard == EventsHandled(pool, ReadPort(SamplerPort))
         IN  /\ heard \in Pool
             /\ OnePerNote(heard)
             /\ \A n \in DOMAIN SampleSize : HasHit(n) => Starts(heard, n)
             /\ \A v \in VoiceIndex :
                  pool[v] # Free /\ ~ HasHit(pool[v].noteNumber) => heard[v] = pool[v]
<1> DEFINE events == ReadPort(SamplerPort)
           heard == EventsHandled(pool, events)
           n == Len(events)
<1>1. /\ SamplerPort \in Pairs /\ SamplerPort \in Seq(Event)
      /\ DOMAIN SamplerPort = 1 .. Len(SamplerPort) /\ Len(SamplerPort) \in Nat
    BY SamplerPortHits DEF Pairs
<1>2. events \in Seq(Event) /\ Refreshing(events) /\ n = Len(SamplerPort)
    BY <1>1, ReadPortRefreshes
<1>3. After(pool, events, n, heard)
    BY <1>2, AllEventsHeard
<1>4. /\ \A k \in 1 .. n : \E i \in 1 .. n : events[i] = SamplerPort[k]
      /\ \A i \in 1 .. n : \E k \in 1 .. n : events[i] = SamplerPort[k]
  <2> HIDE DEF n
  <2> QED BY <1>1, <1>2, ReadPortRefreshes
<1> HIDE DEF events, heard, n
<1>5. ASSUME NEW m \in DOMAIN SampleSize, HasHit(m) PROVE Starts(heard, m)
  <2>1. m \in Ring
      BY RingNumbers
  <2>2. PICK k \in DOMAIN SamplerPort : SamplerPort[k] = NoteOn(m)
      BY <1>5, <2>1, SamplerPortHits
  <2>3. PICK i \in 1 .. n : events[i] = SamplerPort[k]
      BY <1>1, <1>2, <1>4
  <2>4. n \in 1 .. n /\ ~ (n + 1 \in 1 .. n)
      BY <1>1, <1>2
  <2>5. events[n].kind # "NOTE_OFF"
      BY <1>2, <2>4 DEF Refreshing, n
  <2>6. events[n] # NoteOff(m)
      BY <2>5 DEF NoteOff
  <2> QED BY <1>3, <2>2, <2>3, <2>6 DEF After
<1>6. ASSUME NEW v \in VoiceIndex, pool[v] # Free, ~ HasHit(pool[v].noteNumber)
      PROVE  heard[v] = pool[v]
  <2>1. \A i \in 1 .. n : HasHit(events[i].note)
      BY <1>1, <1>2, <1>4, SamplerPortHits
  <2> QED BY <1>3, <1>6, <2>1 DEF After
<1> QED BY <1>3, <1>5, <1>6 DEF After, events, heard
-----------------------------------------------------------------------------
(***************************************************************************)
(* The cycle.  An instant d ticks behind the start of the count is found   *)
(* in the buffer that begins t ticks behind it and is span ticks long.     *)
(***************************************************************************)
LEMMA ModShort ==
  ASSUME NEW n \in Nat, n > 0, NEW x \in Int, -n <= x, x < 2 * n
  PROVE  x % n = IF x < 0 THEN x + n ELSE IF x < n THEN x ELSE x - n
<1> DEFINE q == x \div n
           r == x % n
<1>1. q \in Int /\ r \in 0 .. n - 1 /\ x = n * q + r
    OBVIOUS
<1> HIDE DEF q, r
<1>2. CASE q >= 2
  <2>1. n * q = n * (q - 2) + 2 * n
      BY <1>1
  <2>2. n * (q - 2) >= 0 /\ n * (q - 2) \in Int
      BY <1>1, <1>2
  <2> QED BY <1>1, <2>1, <2>2
<1>3. CASE q <= -2
  <2>1. n * q = n * (q + 2) - 2 * n
      BY <1>1
  <2>2. n * (q + 2) <= 0 /\ n * (q + 2) \in Int
      BY <1>1, <1>3
  <2> QED BY <1>1, <2>1, <2>2
<1>4. CASE q = 1
  <2>1. n * q = n
      BY <1>4
  <2> QED BY <1>1, <2>1 DEF r
<1>5. CASE q = 0
  <2>1. n * q = 0
      BY <1>5
  <2> QED BY <1>1, <2>1 DEF r
<1>6. CASE q = -1
  <2>1. n * q = -n
      BY <1>6
  <2> QED BY <1>1, <2>1 DEF r
<1> QED BY <1>1, <1>2, <1>3, <1>4, <1>5, <1>6

(* Ticks from the start of the count to instant p.                         *)
Behind(p, ph, t) == (p - (ph - t)) % Ticks

LEMMA WindowFound ==
  ASSUME NEW r \in Ring, phase[r] \in Instant, NEW p \in Instant, NEW t \in Instant
  PROVE  LET d == Behind(p, phase[r], t)
         IN  /\ d \in Instant
             /\ Hit(r, p) <=> IF t + Span < Ticks
                              THEN t <= d /\ d < t + Span
                              ELSE t <= d \/ d < t + Span - Ticks
<1> DEFINE ph == phase[r]
           d == Behind(p, ph, t)
           x == p - (ph - t)
           end == ph + Span
<1>1. /\ Ticks \in Nat /\ Ticks > 0 /\ Span \in 1 .. Ticks - 1
      /\ ph \in 0 .. Ticks - 1 /\ p \in 0 .. Ticks - 1 /\ t \in 0 .. Ticks - 1
    BY RhythmAssumption, AudioPathAssumption DEF Instant
<1>2. Hit(r, p) <=> IF end >= Ticks THEN p >= ph \/ p < end % Ticks ELSE p >= ph /\ p < end
    BY DEF Hit
<1>3. d = x % Ticks
    BY DEF Behind
<1> HIDE DEF ph, d
<1>4. x \in Int /\ -Ticks <= x /\ x < 2 * Ticks
    BY <1>1
<1>5. end \in Int /\ -Ticks <= end /\ end < 2 * Ticks
    BY <1>1
<1> HIDE DEF x, end
<1>6. x % Ticks = IF x < 0 THEN x + Ticks ELSE IF x < Ticks THEN x ELSE x - Ticks
    BY <1>1, <1>4, ModShort
<1>7. end % Ticks = IF end < 0 THEN end + Ticks ELSE IF end < Ticks THEN end ELSE end - Ticks
    BY <1>1, <1>5, ModShort
<1> DEFINE e == end % Ticks
<1> HIDE DEF e
<1>8. d = IF x < 0 THEN x + Ticks ELSE IF x < Ticks THEN x ELSE x - Ticks
    BY <1>3, <1>6
<1>9. /\ x = p - (ph - t) /\ end = ph + Span
      /\ e = IF end < 0 THEN end + Ticks ELSE IF end < Ticks THEN end ELSE end - Ticks
    BY <1>7 DEF x, end, e
<1>10. Hit(r, p) <=> IF end >= Ticks THEN p >= ph \/ p < e ELSE p >= ph /\ p < end
    BY <1>2 DEF e
<1>11. d \in 0 .. Ticks - 1
    BY <1>1, <1>4, <1>8, <1>9
<1>12. Hit(r, p) <=> IF t + Span < Ticks
                     THEN t <= d /\ d < t + Span
                     ELSE t <= d \/ d < t + Span - Ticks
    BY <1>1, <1>8, <1>9, <1>10
<1> QED BY <1>11, <1>12 DEF d, ph, Instant

(* The start of the count stays where it is, and the phase moves.          *)
LEMMA StartStays ==
  ASSUME NEW ph \in Instant, NEW t \in Instant
  PROVE  LET whole == IF t + Span >= Ticks THEN 1 ELSE 0
             next == t + Span - whole * Ticks
         IN  /\ (ph + Span) % Ticks \in Instant /\ (ph + Span) % Ticks # ph
             /\ next \in Instant
             /\ \A p \in Instant : Behind(p, (ph + Span) % Ticks, next) = Behind(p, ph, t)
<1> DEFINE whole == IF t + Span >= Ticks THEN 1 ELSE 0
           next == t + Span - whole * Ticks
           end == ph + Span
           ph2 == end % Ticks
<1>1. /\ Ticks \in Nat /\ Ticks > 0 /\ Span \in 1 .. Ticks - 1
      /\ ph \in 0 .. Ticks - 1 /\ t \in 0 .. Ticks - 1
    BY RhythmAssumption, AudioPathAssumption DEF Instant
<1>2. next = IF t + Span >= Ticks THEN t + Span - Ticks ELSE t + Span
    BY <1>1
<1>3. end \in Int /\ -Ticks <= end /\ end < 2 * Ticks /\ end >= 0
    BY <1>1
<1> HIDE DEF end
<1>4. ph2 = IF end < 0 THEN end + Ticks ELSE IF end < Ticks THEN end ELSE end - Ticks
    BY <1>1, <1>3, ModShort
<1>5. end = ph + Span
    BY DEF end
<1> HIDE DEF ph2, next
<1>6. /\ ph2 \in 0 .. Ticks - 1 /\ ph2 # ph /\ next \in 0 .. Ticks - 1
    BY <1>1, <1>2, <1>3, <1>4, <1>5
<1>7. ASSUME NEW p \in Instant PROVE Behind(p, ph2, next) = Behind(p, ph, t)
  <2> DEFINE x == p - (ph - t)
             y == p - (ph2 - next)
  <2>1. p \in 0 .. Ticks - 1
      BY DEF Instant
  <2>2. x \in Int /\ -Ticks <= x /\ x < 2 * Ticks
      BY <1>1, <2>1
  <2>3. y \in Int /\ -Ticks <= y /\ y < 2 * Ticks
      BY <1>1, <1>6, <2>1
  <2>4. y = x \/ y = x + Ticks \/ y = x - Ticks
      BY <1>1, <1>2, <1>3, <1>4, <1>5, <2>1
  <2>5. Behind(p, ph2, next) = y % Ticks /\ Behind(p, ph, t) = x % Ticks
      BY DEF Behind
  <2> HIDE DEF x, y
  <2>6. x % Ticks = IF x < 0 THEN x + Ticks ELSE IF x < Ticks THEN x ELSE x - Ticks
      BY <1>1, <2>2, ModShort
  <2>7. y % Ticks = IF y < 0 THEN y + Ticks ELSE IF y < Ticks THEN y ELSE y - Ticks
      BY <1>1, <2>3, ModShort
  <2> DEFINE a == x % Ticks
             b == y % Ticks
  <2> HIDE DEF a, b
  <2>8. /\ a = IF x < 0 THEN x + Ticks ELSE IF x < Ticks THEN x ELSE x - Ticks
        /\ b = IF y < 0 THEN y + Ticks ELSE IF y < Ticks THEN y ELSE y - Ticks
      BY <2>6, <2>7 DEF a, b
  <2>9. a = b
      BY <1>1, <2>2, <2>3, <2>4, <2>8
  <2> QED BY <2>5, <2>9 DEF a, b
<1> QED BY <1>6, <1>7 DEF Instant, whole, next, ph2, end
-----------------------------------------------------------------------------
(***************************************************************************)
(* The inductive invariant: the engine is sound, the phases and the voices *)
(* are what their types say, no note has two voices, and the count of the  *)
(* watched ring is right.  That a hit is heard and rings out needs the     *)
(* third, that the count stays right needs the first two.                  *)
(***************************************************************************)
PathSound ==
  /\ Sound
  /\ phase \in [Ring -> Instant]
  /\ voices \in Pool
  /\ OnePerNote(voices)
  /\ travelled \in Instant
  /\ RingsInStepUnlessEmptied
  /\ OncePerCycle

LEMMA NoInstantBehind == Ticks \in Nat /\ Ticks > 0 /\ 0 \in Instant
BY RhythmAssumption DEF Instant

LEMMA BehindType ==
  ASSUME NEW p \in Instant, NEW ph \in Instant, NEW t \in Instant
  PROVE  Behind(p, ph, t) \in Instant
<1>1. p - (ph - t) \in Int
    BY NoInstantBehind DEF Instant
<1> QED BY <1>1, ModRange, NoInstantBehind DEF Instant, Behind

LEMMA RingSound ==
  ASSUME Sound, NEW r \in Ring
  PROVE  /\ rings[r].timeline \in SUBSET Instant
         /\ IsFiniteSet(rings[r].timeline)
BY TimelineIsFinite DEF Sound, RingType

LEMMA PathInitSound == AudioPathInit => PathSound
<1> SUFFICES ASSUME AudioPathInit PROVE PathSound
    OBVIOUS
<1>1. Sound
    BY InitIsSound DEF AudioPathInit
<1>2. phase \in [Ring -> Instant] /\ travelled \in Instant
    BY NoInstantBehind DEF AudioPathInit
<1>3. voices \in Pool /\ OnePerNote(voices)
    BY DEF AudioPathInit, SilentPool, Pool, Voice, OnePerNote
<1>4. RingsInStepUnlessEmptied
    BY DEF AudioPathInit, RingsInStepUnlessEmptied, RingsInStep
<1>5. OncePerCycle
  <2> DEFINE found == {p \in rings[Watched].timeline : Behind(p, phase[Watched], travelled) < travelled}
  <2>1. \A p \in rings[Watched].timeline : Behind(p, phase[Watched], travelled) \in Instant
      BY <1>1, <1>2, RingSound, BehindType, AudioPathAssumption
  <2>2. travelled = 0 /\ scanned = 0
      BY DEF AudioPathInit
  <2>3. \A d \in Instant : ~ (d < 0)
      BY DEF Instant
  <2>4. found = {}
      BY <2>1, <2>2, <2>3
  <2> HIDE DEF found
  <2>5. Cardinality(found) = 0
      BY <2>4, FS_EmptySet
  <2> QED BY <2>2, <2>5 DEF found, OncePerCycle, Behind
<1> QED BY <1>1, <1>2, <1>3, <1>4, <1>5 DEF PathSound

LEMMA MixKeeps ==
  ASSUME NEW pool \in Pool
  PROVE  /\ MixVoices(pool) \in Pool
         /\ OnePerNote(pool) => OnePerNote(MixVoices(pool))
         /\ \A v \in VoiceIndex : MixVoices(pool)[v] = MixVoice(pool[v])
<1>1. \A v \in VoiceIndex : MixVoices(pool)[v] = MixVoice(pool[v])
    BY DEF MixVoices
<1>2. ASSUME NEW voice \in Voice
      PROVE  /\ MixVoice(voice) \in Voice
             /\ MixVoice(voice) # Free => MixVoice(voice).noteNumber = voice.noteNumber
  <2>1. CASE voice = Free
      BY <2>1 DEF MixVoice, Voice
  <2>2. CASE voice # Free
    <3>1. voice \in [noteNumber : DOMAIN SampleSize, playbackPosition : Nat]
        BY <2>2 DEF Voice
    <3>2. [voice EXCEPT !.playbackPosition = @ + Grains]
            \in [noteNumber : DOMAIN SampleSize, playbackPosition : Nat]
        BY <3>1, SamplerAssumption
    <3> QED BY <3>1, <3>2 DEF MixVoice, Voice
  <2> QED BY <2>1, <2>2
<1>3. \A v \in VoiceIndex : pool[v] \in Voice
    BY DEF Pool
<1>4. MixVoices(pool) \in Pool
    BY <1>2, <1>3 DEF MixVoices, Pool
<1>5. OnePerNote(pool) => OnePerNote(MixVoices(pool))
  <2> SUFFICES ASSUME OnePerNote(pool), NEW v \in VoiceIndex, NEW w \in VoiceIndex,
                      MixVoice(pool[v]) # Free,
                      MixVoice(pool[v]).noteNumber = MixVoice(pool[w]).noteNumber
               PROVE  v = w
      BY <1>1 DEF OnePerNote
  <2>1. /\ MixVoice(pool[v]) \in Voice /\ MixVoice(pool[w]) \in Voice
        /\ MixVoice(pool[v]).noteNumber = pool[v].noteNumber
      BY <1>2, <1>3
  <2>2. MixVoice(pool[v]).noteNumber \in DOMAIN SampleSize
      BY <2>1, FreeHasNoNote
  <2>3. MixVoice(pool[w]) # Free
      BY <2>1, <2>2, FreeHasNoNote
  <2>4. MixVoice(pool[w]).noteNumber = pool[w].noteNumber
      BY <1>2, <1>3, <2>3
  <2>5. pool[v] # Free
      BY <2>1, <2>2, <1>3, FreeHasNoNote
  <2> QED BY <2>1, <2>4, <2>5 DEF OnePerNote
<1> QED BY <1>1, <1>4, <1>5

(* What ProcessBuffer does to the voices.                                  *)
LEMMA BufferMixed ==
  ASSUME Sound, voices \in Pool, OnePerNote(voices), ProcessBuffer
  PROVE  /\ voices' \in Pool
         /\ OnePerNote(voices')
         /\ \A n \in DOMAIN SampleSize :
              HasHit(n) => \E v \in VoiceIndex : voices'[v] = MixVoice(Playing(n, 0))
         /\ \A v \in VoiceIndex :
              voices[v] # Free /\ ~ HasHit(voices[v].noteNumber) => voices'[v] = MixVoice(voices[v])
<1> DEFINE heard == EventsHandled(voices, ReadPort(SamplerPort))
<1>1. voices' = MixVoices(heard)
    BY DEF ProcessBuffer, SamplerProcessed
<1>2. /\ heard \in Pool
      /\ OnePerNote(heard)
      /\ \A n \in DOMAIN SampleSize : HasHit(n) => Starts(heard, n)
      /\ \A v \in VoiceIndex :
           voices[v] # Free /\ ~ HasHit(voices[v].noteNumber) => heard[v] = voices[v]
    BY BufferHeard
<1> HIDE DEF heard
<1> QED BY <1>1, <1>2, MixKeeps DEF Starts
LEMMA DisjointCount ==
  ASSUME NEW A, IsFiniteSet(A), NEW B, IsFiniteSet(B), A \cap B = {}
  PROVE  Cardinality(A \cup B) = Cardinality(A) + Cardinality(B)
<1>1. Cardinality(A) \in Nat /\ Cardinality(B) \in Nat /\ Cardinality(A \cap B) = 0
    BY FS_CardinalityType, FS_EmptySet
<1>2. Cardinality(A \cup B) = Cardinality(A) + Cardinality(B) - Cardinality(A \cap B)
    BY FS_Union
<1> QED BY <1>1, <1>2

(* The points found so far, and those of one more buffer.                  *)
LEMMA BufferCounted ==
  ASSUME Sound, phase \in [Ring -> Instant], travelled \in Instant, OncePerCycle,
         ProcessBuffer
  PROVE  travelled' \in Instant /\ OncePerCycle'
<1> DEFINE timeline == rings[Watched].timeline
           ph == phase[Watched]
           D(p) == Behind(p, ph, travelled)
           whole == IF travelled + Span >= Ticks THEN 1 ELSE 0
           next == travelled + Span - whole * Ticks
           Found(t) == {p \in timeline : D(p) < t}
           hits == Hits(Watched)
<1>1. /\ Watched \in Ring /\ ph \in Instant
      /\ timeline \in SUBSET Instant /\ IsFiniteSet(timeline)
    BY RingSound, AudioPathAssumption
<1>2. /\ rings' = rings
      /\ phase'[Watched] = Advance(Watched)
      /\ Idle(Watched) <=> timeline = {}
    BY <1>1 DEF ProcessBuffer, engineState, Idle
<1>3. scanned = Cardinality(Found(travelled))
    BY DEF OncePerCycle, Behind
<1>4. CASE Idle(Watched)
  <2>1. phase'[Watched] = phase[Watched] /\ travelled' = travelled /\ scanned' = scanned
      BY <1>2, <1>4 DEF Advance, ProcessBuffer
  <2> QED BY <1>2, <2>1 DEF OncePerCycle
<1>5. CASE ~ Idle(Watched)
  <2>1. /\ phase'[Watched] = (ph + Span) % Ticks
        /\ travelled' = next
        /\ scanned' = scanned + Cardinality(hits) - whole * Cardinality(timeline)
      BY <1>2, <1>5 DEF Advance, ProcessBuffer, PointCount
  <2>2. /\ next \in Instant
        /\ \A p \in Instant : Behind(p, (ph + Span) % Ticks, next) = D(p)
      BY <1>1, StartStays
  <2>3. {p \in timeline : Behind(p, phase'[Watched], travelled') < travelled'} = Found(next)
      BY <1>1, <2>1, <2>2
  <2>4. \A p \in timeline :
          /\ D(p) \in Instant
          /\ Hit(Watched, p) <=> IF travelled + Span < Ticks
                                 THEN travelled <= D(p) /\ D(p) < travelled + Span
                                 ELSE travelled <= D(p) \/ D(p) < travelled + Span - Ticks
      BY <1>1, WindowFound
  <2>5. hits = {p \in timeline : Hit(Watched, p)}
      BY DEF Hits
  <2>6. /\ Ticks \in Nat /\ Ticks > 0 /\ Span \in 1 .. Ticks - 1
        /\ travelled \in 0 .. Ticks - 1 /\ \A p \in timeline : D(p) \in 0 .. Ticks - 1
      BY <2>4, NoInstantBehind, AudioPathAssumption DEF Instant
  <2> HIDE DEF timeline, ph, D, hits
  <2>7. Found(travelled) \in SUBSET timeline /\ hits \in SUBSET timeline
      BY <2>5
  <2>8. /\ IsFiniteSet(Found(travelled)) /\ Cardinality(Found(travelled)) \in Nat
        /\ IsFiniteSet(hits) /\ Cardinality(hits) \in Nat
      BY <1>1, <2>7, FS_Subset, FS_CardinalityType
  <2>9. scanned' = Cardinality(Found(next))
    <3>1. CASE travelled + Span < Ticks
      <4>1. whole = 0 /\ next = travelled + Span
          BY <2>6, <3>1
      <4>2. Found(travelled) \cup hits = Found(next)
          BY <2>4, <2>5, <2>6, <3>1, <4>1
      <4>3. Found(travelled) \cap hits = {}
          BY <2>4, <2>5, <2>6, <3>1
      <4> HIDE DEF Found, whole, next
      <4>4. Cardinality(Found(next)) = Cardinality(Found(travelled)) + Cardinality(hits)
          BY <2>8, <4>2, <4>3, DisjointCount, Zenon
      <4>5. whole * Cardinality(timeline) = 0
          BY <1>1, <4>1, FS_CardinalityType
      <4> QED BY <1>3, <2>1, <2>8, <4>4, <4>5
    <3>2. CASE ~ (travelled + Span < Ticks)
      <4> DEFINE late == {p \in timeline : travelled <= D(p)}
      <4>1. whole = 1 /\ next = travelled + Span - Ticks /\ next < travelled
          BY <2>6, <3>2
      <4>2. hits = late \cup Found(next) /\ late \cap Found(next) = {}
          BY <2>4, <2>5, <2>6, <3>2, <4>1
      <4>3. timeline = Found(travelled) \cup late /\ Found(travelled) \cap late = {}
          BY <2>6
      <4>4. late \in SUBSET timeline /\ Found(next) \in SUBSET timeline
          OBVIOUS
      <4> HIDE DEF Found, late, whole, next
      <4>5. /\ IsFiniteSet(late) /\ Cardinality(late) \in Nat
            /\ IsFiniteSet(Found(next)) /\ Cardinality(Found(next)) \in Nat
          BY <1>1, <4>4, FS_Subset, FS_CardinalityType
      <4>6. Cardinality(hits) = Cardinality(late) + Cardinality(Found(next))
          BY <4>2, <4>5, DisjointCount, Zenon
      <4>7. Cardinality(timeline) = Cardinality(Found(travelled)) + Cardinality(late)
          BY <2>8, <4>3, <4>5, DisjointCount, Zenon
      <4>8. whole * Cardinality(timeline) = Cardinality(timeline)
          BY <1>1, <4>1, FS_CardinalityType
      <4> QED BY <1>3, <2>1, <2>8, <4>5, <4>6, <4>7, <4>8
    <3> QED BY <3>1, <3>2
  <2> HIDE DEF Found, next, whole
  <2>10. OncePerCycle'
      BY <1>2, <2>3, <2>9 DEF OncePerCycle, Behind, timeline
  <2> QED BY <2>1, <2>2, <2>10
<1> QED BY <1>4, <1>5

LEMMA BufferKeeps ==
  ASSUME PathSound, ProcessBuffer
  PROVE  PathSound' /\ Keeps
<1>1. Sound' /\ Keeps
    BY NothingChanges DEF PathSound, ProcessBuffer, Keeps
<1>2. phase' = [r \in Ring |-> Advance(r)] /\ phase \in [Ring -> Instant]
    BY DEF PathSound, ProcessBuffer
<1>3. ASSUME NEW r \in Ring PROVE Advance(r) \in Instant
  <2>1. phase[r] \in Instant
      BY <1>2
  <2>2. (phase[r] + Span) % Ticks \in Instant
      BY <2>1, NoInstantBehind, StartStays
  <2> QED BY <2>1, <2>2 DEF Advance
<1>4. phase' \in [Ring -> Instant]
    BY <1>2, <1>3
<1>5. voices' \in Pool /\ OnePerNote(voices)'
    BY BufferMixed DEF PathSound
<1>6. travelled' \in Instant /\ OncePerCycle'
    BY BufferCounted DEF PathSound
<1>7. RingsInStepUnlessEmptied'
  <2> SUFFICES ASSUME ~ emptied', NEW r \in Ring, NEW q \in Ring PROVE phase'[r] = phase'[q]
      BY DEF RingsInStepUnlessEmptied, RingsInStep
  <2>1. ~ emptied /\ ~ Idle(r) /\ ~ Idle(q)
      BY DEF ProcessBuffer
  <2>2. phase[r] = phase[q]
      BY <2>1 DEF PathSound, RingsInStepUnlessEmptied, RingsInStep
  <2> QED BY <1>2, <2>1, <2>2 DEF Advance
<1> QED BY <1>1, <1>4, <1>5, <1>6, <1>7 DEF PathSound

LEMMA MessageKeeps ==
  ASSUME PathSound, HandleMessage
  PROVE  PathSound' /\ Keeps
<1>1. Keeps
    BY StepKeeps DEF PathSound, HandleMessage
<1>2. Sound'
    BY <1>1 DEF Keeps
<1>3. phase' = phase /\ voices' = voices /\ emptied' = emptied
    BY DEF HandleMessage
<1>4. CASE rings'[Watched].timeline = rings[Watched].timeline
  <2>1. travelled' = travelled /\ scanned' = scanned
      BY <1>4 DEF HandleMessage
  <2> QED BY <1>1, <1>2, <1>3, <1>4, <2>1
          DEF PathSound, OnePerNote, RingsInStepUnlessEmptied, RingsInStep, OncePerCycle
<1>5. CASE rings'[Watched].timeline # rings[Watched].timeline
  <2>1. travelled' = 0 /\ scanned' = 0
      BY <1>5 DEF HandleMessage
  <2> DEFINE found == {p \in rings'[Watched].timeline :
                         Behind(p, phase'[Watched], travelled') < travelled'}
  <2>2. rings'[Watched].timeline \in SUBSET Instant
      BY <1>2, TimelineIsFinite, AudioPathAssumption DEF Sound, RingType
  <2>3. phase'[Watched] \in Instant
      BY <1>3, AudioPathAssumption DEF PathSound
  <2>4. \A p \in rings'[Watched].timeline : Behind(p, phase'[Watched], 0) \in Instant
      BY <2>2, <2>3, BehindType, NoInstantBehind
  <2>5. \A d \in Instant : ~ (d < 0)
      BY DEF Instant
  <2>6. found = {}
      BY <2>1, <2>4, <2>5
  <2> HIDE DEF found
  <2>7. Cardinality(found) = 0
      BY <2>6, FS_EmptySet
  <2>8. OncePerCycle'
      BY <2>1, <2>7 DEF found, OncePerCycle, Behind
  <2>9. travelled' \in Instant
      BY <2>1, NoInstantBehind
  <2> QED BY <1>1, <1>2, <1>3, <2>8, <2>9
          DEF PathSound, OnePerNote, RingsInStepUnlessEmptied, RingsInStep
<1> QED BY <1>4, <1>5

LEMMA PathStepKeeps == PathSound /\ [AudioPathNext]_audioPathVars => PathSound' /\ Keeps
<1> SUFFICES ASSUME PathSound, [AudioPathNext]_audioPathVars PROVE PathSound' /\ Keeps
    OBVIOUS
<1>1. CASE UNCHANGED audioPathVars
  <2>1. /\ UNCHANGED engineState /\ rings' = rings
        /\ phase' = phase /\ voices' = voices
        /\ travelled' = travelled /\ scanned' = scanned /\ emptied' = emptied
      BY <1>1 DEF audioPathVars, engineVars, engineState, histories
  <2>2. Keeps /\ Sound'
      BY <2>1, NothingChanges DEF PathSound, Keeps
  <2> QED BY <2>1, <2>2
          DEF PathSound, OnePerNote, RingsInStepUnlessEmptied, RingsInStep, OncePerCycle
<1> QED BY <1>1, BufferKeeps, MessageKeeps DEF AudioPathNext

LEMMA PathAlwaysSound == AudioPathSpec => []PathSound
<1>1. PathSound /\ [AudioPathNext]_audioPathVars => PathSound'
    BY PathStepKeeps
<1> QED BY <1>1, PathInitSound, PTL DEF AudioPathSpec

-----------------------------------------------------------------------------
(* Processing buffers between the messages leaves the engine as sound as   *)
(* the messages do: the sequencer never indexes a mask that does not fit.  *)
THEOREM SoundWhilePlaying == AudioPathSpec => []EngineIsSound
<1>1. PathSound => EngineIsSound
    BY SoundMeansSound DEF PathSound
<1> QED BY <1>1, PathAlwaysSound, PTL

(* What a user does by mistake can be taken back while the rings play.     *)
THEOREM UndoneWhilePlaying == AudioPathSpec => []EditsAreUndone
<1>1. PathSound => EditsAreUndone
    BY SoundUndoes DEF PathSound
<1> QED BY <1>1, PathAlwaysSound, PTL

(* A ring that a command edits while the rings play is the selected ring   *)
(* afterwards.                                                             *)
THEOREM SelectedWhilePlaying == AudioPathSpec => EditSelects
<1>1. PathSound /\ [AudioPathNext]_audioPathVars => [EditsSelected]_engineVars
    BY PathStepKeeps DEF Keeps
<1>2. [EditsSelected]_engineVars
        => [\A r \in Ring : rings'[r] # rings[r] => selectedRing' = r]_engineVars
    BY DEF EditsSelected
<1> QED BY <1>1, <1>2, PathAlwaysSound, PTL DEF AudioPathSpec, EditSelects

(* Every point of a ring is found exactly once in every cycle, wherever    *)
(* the buffers fall on it and whenever its timeline last changed.          *)
THEOREM PointsFoundOncePerCycle == AudioPathSpec => []OncePerCycle
<1>1. PathSound => OncePerCycle
    BY DEF PathSound
<1> QED BY <1>1, PathAlwaysSound, PTL

(* The playhead of the first ring is that of all rings as long as none is  *)
(* processed while it has no point.                                        *)
THEOREM RingsKeepInStep == AudioPathSpec => []RingsInStepUnlessEmptied
<1>1. PathSound => RingsInStepUnlessEmptied
    BY DEF PathSound
<1> QED BY <1>1, PathAlwaysSound, PTL

(* The hits of a ring neither pile up voices nor starve the other rings.   *)
THEOREM NotesHaveOneVoice == AudioPathSpec => []OneVoicePerNote
<1>1. PathSound => OneVoicePerNote
    BY DEF PathSound, OnePerNote, OneVoicePerNote
<1> QED BY <1>1, PathAlwaysSound, PTL

(* A ring with an active point in a buffer is heard from the start of its  *)
(* sample, in a pool with one voice per ring.                              *)
THEOREM HitsAlwaysHeard == AudioPathSpec => HitsAreHeard
<1> DEFINE Heard == \A r \in DOMAIN SampleSize :
                      Fires(r) => \E v \in VoiceIndex : voices'[v] = Begun(r)
<1>1. PathSound /\ [AudioPathNext]_audioPathVars => Heard
  <2> SUFFICES ASSUME PathSound, [AudioPathNext]_audioPathVars,
                      NEW r \in DOMAIN SampleSize, Fires(r)
               PROVE  \E v \in VoiceIndex : voices'[v] = Begun(r)
      OBVIOUS
  <2>1. phase' # phase
      BY DEF Fires
  <2>2. ProcessBuffer
      BY <2>1 DEF AudioPathNext, HandleMessage, audioPathVars
  <2>3. HasHit(r)
      BY DEF Fires, HasHit
  <2> QED BY <2>2, <2>3, BufferMixed DEF PathSound, Begun
<1>2. Heard => [Heard]_audioPathVars
    OBVIOUS
<1>3. [Heard]_audioPathVars
        => [\A r \in DOMAIN SampleSize :
              Fires(r) => \E v \in VoiceIndex : voices'[v] = Begun(r)]_audioPathVars
    OBVIOUS
<1> HIDE DEF Heard
<1> QED BY <1>1, <1>2, <1>3, PathAlwaysSound, PTL DEF AudioPathSpec, HitsAreHeard

(* A voice stops before the end of its sample only because its own ring    *)
(* was hit again.                                                          *)
THEOREM SamplesAlwaysRingOut == AudioPathSpec => SamplesRingOut
<1> DEFINE Rings == \A v \in VoiceIndex :
                      LET n == voices[v].noteNumber
                      IN  /\ voices[v] # Free
                          /\ voices[v].playbackPosition + Grains <= SampleSize[n]
                          /\ ~ Fires(n)
                          => voices'[v].noteNumber = n
<1>1. PathSound /\ [AudioPathNext]_audioPathVars => Rings
  <2> SUFFICES ASSUME PathSound, [AudioPathNext]_audioPathVars, NEW v \in VoiceIndex,
                      voices[v] # Free,
                      voices[v].playbackPosition + Grains <= SampleSize[voices[v].noteNumber],
                      ~ Fires(voices[v].noteNumber)
               PROVE  voices'[v].noteNumber = voices[v].noteNumber
      OBVIOUS
  <2> DEFINE n == voices[v].noteNumber
  <2>1. voices[v] \in Voice /\ voices[v] # Free
      BY DEF PathSound, Pool
  <2>2. n \in Ring
      BY <2>1, FreeHasNoNote, RingNumbers
  <2>3. CASE ~ ProcessBuffer
    <3>1. voices' = voices
        BY <2>3 DEF AudioPathNext, HandleMessage, audioPathVars
    <3> QED BY <3>1
  <2>4. CASE ProcessBuffer
    <3>1. ~ HasHit(n)
      <4> SUFFICES ASSUME HasHit(n) PROVE FALSE
          OBVIOUS
      <4>1. ~ Idle(n)
        <5> SUFFICES ASSUME Idle(n) PROVE FALSE
            OBVIOUS
        <5>1. PointCount(rings[n]) = 0
            BY FS_EmptySet DEF Idle, PointCount
        <5> QED BY <5>1 DEF HasHit
      <4>2. phase'[n] = (phase[n] + Span) % Ticks
          BY <2>2, <2>4, <4>1 DEF ProcessBuffer, Advance
      <4>3. phase[n] \in Instant
          BY <2>2 DEF PathSound
      <4>4. phase'[n] # phase[n]
          BY <4>2, <4>3, NoInstantBehind, StartStays
      <4> QED BY <4>4 DEF Fires, HasHit
    <3>2. voices'[v] = MixVoice(voices[v])
        BY <2>1, <2>4, <3>1, BufferMixed DEF PathSound
    <3>3. voices[v] \in [noteNumber : DOMAIN SampleSize, playbackPosition : Nat]
        BY <2>1 DEF Voice
    <3> QED BY <2>1, <3>2, <3>3 DEF MixVoice
  <2> QED BY <2>3, <2>4
<1>2. Rings => [Rings]_audioPathVars
    OBVIOUS
<1>3. [Rings]_audioPathVars
        => [\A v \in VoiceIndex :
              LET n == voices[v].noteNumber
              IN  /\ voices[v] # Free
                  /\ voices[v].playbackPosition + Grains <= SampleSize[n]
                  /\ ~ Fires(n)
                  => voices'[v].noteNumber = n]_audioPathVars
    OBVIOUS
<1> HIDE DEF Rings
<1> QED BY <1>1, <1>2, <1>3, PathAlwaysSound, PTL DEF AudioPathSpec, SamplesRingOut
=============================================================================
