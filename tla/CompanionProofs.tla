--------------------------- MODULE CompanionProofs ---------------------------
(***************************************************************************)
(* Proofs about Companion and, at the end, Fleet: for any ring, queue and  *)
(* number of events, starts and restarts, and for any agents and threads.  *)
(*                                                                         *)
(* That a browser misses nothing is proved by following the last event of  *)
(* each thread.  While any event of a thread is in the ring, or scheduled, *)
(* the last one is too, or comes behind it (LatestComes); so a browser     *)
(* that has seen some of a thread has seen the last, or has it ahead       *)
(* (LastWord).  The order of the sequences (Ordered) is what lets an event *)
(* that is dropped, sent or taken off the ring be older than the last.     *)
(***************************************************************************)
EXTENDS Companion, Fleet, SequenceTheorems, TLAPS

\* What a source emits.
Event == [from : Sources, n : Nat \ {0}]

\* The last event of a source.
Latest(s) == [from |-> s, n |-> emitted[s]]

\* Per source, events are in the order of their numbers.
Rising(q) ==
    \A i, j \in 1 .. Len(q) :
        i < j /\ q[i].from = q[j].from => q[i].n < q[j].n

\* On the way to the browser's queue.
Coming == ToSet(scheduled) \cup {emitting[s] : s \in Sources}

\* On the way to the browser.
Flying == ToSet(replay) \cup ToSet(queue) \cup Coming

\* The hub and the stream; a source emits one event at a time.
StreamTypes ==
    /\ history \in Seq(Event) /\ scheduled \in Seq(Event)
    /\ replay \in Seq(Event) /\ queue \in Seq(Event)
    /\ emitted \in [Sources -> Nat]
    /\ emitting \in [Sources -> Event \cup {None}]
    /\ \A s \in Sources : emitting[s] \in {None, Latest(s)}
    /\ stream \in {"off", "replaying", "live"}
    /\ slow \in BOOLEAN
    /\ last \in [Sources -> Nat]

\* Nothing is left of a browser that is gone, nor of a replay that is over.
Fresh ==
    /\ stream = "off" => /\ queue = <<>> /\ replay = <<>> /\ ~slow
                         /\ \A s \in Sources : last[s] = 0
    /\ stream = "live" => replay = <<>>

\* Nowhere does a later event of a source come before an earlier one, and
\* none is later than the one being emitted.
Ordered ==
    /\ Rising(history) /\ Rising(replay) /\ Rising(queue) /\ Rising(scheduled)
    /\ \A e \in ToSet(history) \cup ToSet(replay) \cup ToSet(queue)
                \cup ToSet(scheduled) : e.n <= emitted[e.from]
    /\ \A e \in ToSet(queue), d \in ToSet(scheduled) :
          e.from = d.from => e.n < d.n
    /\ \A e \in ToSet(queue) \cup ToSet(scheduled) :
          emitting[e.from] # None => e.n < emitted[e.from]

\* While an event of a source is in the ring, or on its way, so is the last.
LatestComes ==
    /\ \A e \in ToSet(history) : Latest(e.from) \in ToSet(history)
    /\ \A e \in ToSet(scheduled) : Latest(e.from) \in Coming
    /\ ~slow => /\ \A e \in ToSet(queue) :
                      Latest(e.from) \in ToSet(queue) \cup Coming
                /\ \A e \in ToSet(replay) : Latest(e.from) \in Flying

\* A browser has nothing of a source, its last word, or has that ahead.
LastWord ==
    stream # "off" /\ ~slow =>
        \A s \in Sources : last[s] \in {0, emitted[s]} \/ Latest(s) \in Flying

\* What a browser has to see is on its way.
OwedComes == stream # "off" => owed \subseteq Flying \ {None}

Streaming ==
    /\ StreamTypes /\ Fresh /\ Ordered /\ LatestComes /\ LastWord /\ OwedComes

-----------------------------------------------------------------------------
(* Sequences of events.                                                    *)

\* Events and the last ones, told apart from None.
LEMMA EventFacts ==
    ASSUME NEW e \in Event
    PROVE  e.from \in Sources /\ e.n \in Nat /\ e.n > 0 /\ e # None
BY CompanionAssumption DEF Event, None, Sources

LEMMA LatestFacts ==
    ASSUME NEW s \in Sources
    PROVE  Latest(s) # None /\ Latest(s).from = s /\ Latest(s).n = emitted[s]
BY CompanionAssumption DEF Latest, None, Sources

\* A sequence and the set of its elements.
LEMMA SeqSet ==
    ASSUME NEW q \in Seq(Event)
    PROVE  /\ Len(q) \in Nat
           /\ ToSet(q) \subseteq Event
           /\ \A i \in 1 .. Len(q) : q[i] \in ToSet(q) /\ q[i] \in Event
           /\ \A e \in ToSet(q) : \E i \in 1 .. Len(q) : q[i] = e
           /\ q = <<>> <=> ToSet(q) = {}
<1>1. /\ Len(q) \in Nat /\ DOMAIN q = 1 .. Len(q)
      /\ \A i \in 1 .. Len(q) : q[i] \in Event
  BY LenProperties, ElementOfSeq
<1>2. ToSet(q) = {q[i] : i \in 1 .. Len(q)}
  BY <1>1 DEF ToSet
<1>3. q # <<>> => 1 \in 1 .. Len(q)
  BY <1>1, EmptySeq
<1>4. q = <<>> => ToSet(q) = {}
  BY <1>1, <1>2, EmptySeq
<1> QED
  BY <1>1, <1>2, <1>3, <1>4

LEMMA NoneSet == ToSet(<<>>) = {}
BY DEF ToSet

\* What taking the first event off leaves.
LEMMA Rest ==
    ASSUME NEW q \in Seq(Event), q # <<>>, Rising(q)
    PROVE  /\ Head(q) \in ToSet(q) /\ Head(q) \in Event
           /\ Tail(q) \in Seq(Event)
           /\ Rising(Tail(q))
           /\ ToSet(q) = {Head(q)} \cup ToSet(Tail(q))
           /\ \A e \in ToSet(Tail(q)) :
                 e.from = Head(q).from => Head(q).n < e.n
<1> DEFINE n == Len(q)
           t == Tail(q)
<1>1. n \in Nat \ {0} /\ Head(q) = q[1] /\ q[1] \in Event
  BY SeqSet
<1>2. /\ t \in Seq(Event) /\ Len(t) = n - 1
      /\ \A i \in 1 .. n - 1 : t[i] = q[i + 1]
  BY HeadTailProperties
<1>3. Rising(t)
  BY <1>1, <1>2 DEF Rising
<1>4. ToSet(q) = {q[1]} \cup ToSet(t)
  <2>1. \A i \in 1 .. n : q[i] \in ToSet(q)
    BY SeqSet
  <2>2. \A e \in ToSet(q) : \E i \in 1 .. n : q[i] = e
    BY SeqSet
  <2>3. \A i \in 1 .. n - 1 : t[i] \in ToSet(t)
    BY <1>2, SeqSet
  <2>4. \A e \in ToSet(t) : \E i \in 1 .. n - 1 : t[i] = e
    BY <1>2, SeqSet
  <2> HIDE DEF t, n
  <2>5. ASSUME NEW e \in ToSet(q)
        PROVE  e \in {q[1]} \cup ToSet(t)
    <3>1. PICK i \in 1 .. n : q[i] = e
      BY <2>2
    <3>2. CASE i = 1
      BY <3>1, <3>2
    <3>3. CASE i # 1
      <4>1. i - 1 \in 1 .. n - 1 /\ t[i - 1] = q[i]
        BY <1>1, <1>2, <3>3
      <4> QED
        BY <2>3, <3>1, <4>1
    <3> QED
      BY <3>2, <3>3
  <2>6. ASSUME NEW e \in ToSet(t)
        PROVE  e \in ToSet(q)
    <3>1. PICK i \in 1 .. n - 1 : t[i] = e
      BY <2>4
    <3>2. i + 1 \in 1 .. n /\ q[i + 1] = e
      BY <1>1, <1>2, <3>1
    <3> QED
      BY <2>1, <3>2
  <2>7. q[1] \in ToSet(q)
    BY <1>1, <2>1
  <2> QED
    BY <2>5, <2>6, <2>7
<1>5. ASSUME NEW e \in ToSet(t), e.from = q[1].from
      PROVE  q[1].n < e.n
  <2>1. PICK i \in 1 .. n - 1 : t[i] = e
    BY <1>2, SeqSet
  <2>2. i + 1 \in 1 .. n /\ 1 \in 1 .. n /\ 1 < i + 1 /\ q[i + 1] = e
    BY <1>1, <1>2, <2>1
  <2> QED
    BY <1>5, <2>2 DEF Rising
<1> QED
  BY <1>1, <1>2, <1>3, <1>4, <1>5

\* What appending an event that is later than those of its source makes.
LEMMA Longer ==
    ASSUME NEW q \in Seq(Event), Rising(q), NEW d \in Event,
           \A e \in ToSet(q) : e.from = d.from => e.n < d.n
    PROVE  /\ Append(q, d) \in Seq(Event) /\ Append(q, d) # <<>>
           /\ Rising(Append(q, d))
           /\ ToSet(Append(q, d)) = ToSet(q) \cup {d}
<1> DEFINE n == Len(q)
           t == Append(q, d)
<1>1. /\ n \in Nat /\ t \in Seq(Event) /\ Len(t) = n + 1
      /\ \A i \in 1 .. n : t[i] = q[i]
      /\ t[n + 1] = d
  BY AppendProperties, LenProperties
<1>2. \A i \in 1 .. n : q[i] \in ToSet(q)
  BY SeqSet
<1>3. \A i \in 1 .. n + 1 : i \in 1 .. n \/ i = n + 1
  BY <1>1
<1>4. Rising(t)
  <2> SUFFICES ASSUME NEW i \in 1 .. n + 1, NEW j \in 1 .. n + 1,
                      i < j, t[i].from = t[j].from
               PROVE  t[i].n < t[j].n
    BY <1>1 DEF Rising
  <2>1. i \in 1 .. n
    BY <1>1
  <2>2. CASE j \in 1 .. n
    <3>1. q[i].from = q[j].from
      BY <1>1, <2>1, <2>2
    <3>2. q[i].n < q[j].n
      BY <2>1, <2>2, <3>1 DEF Rising
    <3> QED
      BY <1>1, <2>1, <2>2, <3>2
  <2>3. CASE j = n + 1
    <3>1. t[i] \in ToSet(q) /\ t[j] = d
      BY <1>1, <1>2, <2>1, <2>3
    <3> HIDE DEF t
    <3> QED
      BY <3>1
  <2> QED
    BY <1>3, <2>2, <2>3
<1>5. ToSet(t) = ToSet(q) \cup {d}
  <2>1. \A e \in ToSet(q) : \E i \in 1 .. n : q[i] = e
    BY SeqSet
  <2>2. \A i \in 1 .. n + 1 : t[i] \in ToSet(t)
    BY <1>1, SeqSet
  <2>3. \A e \in ToSet(t) : \E i \in 1 .. n + 1 : t[i] = e
    BY <1>1, SeqSet
  <2>4. ASSUME NEW e \in ToSet(t) PROVE e \in ToSet(q) \cup {d}
    <3>1. PICK i \in 1 .. n + 1 : t[i] = e
      BY <2>3
    <3> HIDE DEF t
    <3> QED
      BY <1>1, <1>2, <1>3, <3>1
  <2>5. ASSUME NEW e \in ToSet(q) PROVE e \in ToSet(t)
    <3>1. PICK i \in 1 .. n : q[i] = e
      BY <2>1
    <3>2. i \in 1 .. n + 1 /\ t[i] = e
      BY <1>1, <3>1
    <3> HIDE DEF t
    <3> QED
      BY <2>2, <3>2
  <2>6. n + 1 \in 1 .. n + 1
    BY <1>1
  <2> HIDE DEF t
  <2> QED
    BY <1>1, <2>2, <2>4, <2>5, <2>6
<1>6. t # <<>>
  BY <1>1
<1> QED
  BY <1>1, <1>4, <1>5, <1>6

\* The first event is not a source's last while others of it follow.
LEMMA FirstIsOlder ==
    ASSUME NEW q \in Seq(Event), q # <<>>, Rising(q),
           NEW m \in [Sources -> Nat],
           \A e \in ToSet(q) : e.n <= m[e.from],
           NEW e \in ToSet(Tail(q))
    PROVE  [from |-> e.from, n |-> m[e.from]] # Head(q)
<1>1. /\ Head(q) \in ToSet(q) /\ Head(q) \in Event /\ e \in ToSet(q)
      /\ e.from = Head(q).from => Head(q).n < e.n
  BY Rest
<1>2. e \in Event
  BY <1>1, SeqSet
<1>3. e.from \in Sources /\ e.n \in Nat /\ Head(q).n \in Nat
      /\ e.n <= m[e.from] /\ m[e.from] \in Nat
  BY <1>1, <1>2, EventFacts
<1>4. SUFFICES ASSUME [from |-> e.from, n |-> m[e.from]] = Head(q) PROVE FALSE
  OBVIOUS
<1>5. Head(q).from = e.from /\ Head(q).n = m[e.from]
  BY <1>4
<1> QED
  BY <1>1, <1>3, <1>5

-----------------------------------------------------------------------------
(* The steps.                                                              *)

\* The deployment and the tools do not touch the hub.
LEMMA StreamingFrame ==
    ASSUME Streaming, UNCHANGED <<hubVars, streamVars>>
    PROVE  Streaming'
<1>1. /\ history' = history /\ emitting' = emitting /\ emitted' = emitted
      /\ scheduled' = scheduled /\ stream' = stream /\ replay' = replay
      /\ queue' = queue /\ owed' = owed /\ slow' = slow /\ last' = last
  BY DEF hubVars, streamVars
<1>2. Coming' = Coming /\ Flying' = Flying
  BY <1>1 DEF Coming, Flying
<1>3. \A s : Latest(s)' = Latest(s)
  BY <1>1 DEF Latest
<1>4. StreamTypes' /\ Fresh'
  BY <1>1, <1>3 DEF Streaming, StreamTypes, Fresh
<1>5. Ordered'
  BY <1>1 DEF Streaming, Ordered
<1>6. LatestComes' /\ LastWord' /\ OwedComes'
  BY <1>1, <1>2, <1>3 DEF Streaming, LatestComes, LastWord, OwedComes
<1> QED
  BY <1>4, <1>5, <1>6 DEF Streaming

\* An event enters the ring: it is its source's last, and on its way.
LEMMA EmitsStep ==
    ASSUME Streaming, NEW s \in Sources, Emits(s)
    PROVE  Streaming'
<1> DEFINE e == [from |-> s, n |-> emitted[s] + 1]
           h == Append(history, e)
<1>1. /\ emitting[s] = None
      /\ emitted' = [emitted EXCEPT ![s] = emitted[s] + 1]
      /\ emitting' = [emitting EXCEPT ![s] = e]
      /\ history' = Newest(h, Ring)
      /\ owed' = IF stream = "off" THEN owed ELSE owed \cup {e}
      /\ scheduled' = scheduled /\ stream' = stream /\ replay' = replay
      /\ queue' = queue /\ slow' = slow /\ last' = last
  BY DEF Emits
<1>2. /\ history \in Seq(Event) /\ scheduled \in Seq(Event)
      /\ replay \in Seq(Event) /\ queue \in Seq(Event)
      /\ emitted \in [Sources -> Nat] /\ DOMAIN emitting = Sources
      /\ \A u \in Sources : emitting[u] \in {None, Latest(u)}
  BY DEF Streaming, StreamTypes
<1>3. e \in Event /\ e.from = s /\ e.n = emitted[s] + 1 /\ e # None
  <2>1. emitted[s] + 1 \in Nat \ {0}
    BY <1>2
  <2>2. e \in Event
    BY <2>1 DEF Event
  <2> QED
    BY <2>2, EventFacts
<1>4. /\ Latest(s)' = e
      /\ \A u \in Sources : u # s => Latest(u)' = Latest(u)
  BY <1>1, <1>2 DEF Latest
<1>5. /\ emitted' \in [Sources -> Nat]
      /\ \A u \in Sources : emitted[u] <= emitted'[u]
      /\ emitted'[s] = emitted[s] + 1
  BY <1>1, <1>2
<1>6. /\ DOMAIN emitting' = Sources /\ emitting'[s] = e
      /\ \A u \in Sources : u # s => emitting'[u] = emitting[u]
  BY <1>1, <1>2
<1>7. \A q \in {history, scheduled, replay, queue} : \A d \in ToSet(q) :
         /\ d.from \in Sources /\ d.n \in Nat /\ d.n <= emitted[d.from]
         /\ d \in Event
  <2>1. \A d \in ToSet(history) \cup ToSet(replay) \cup ToSet(queue)
                 \cup ToSet(scheduled) : d.n <= emitted[d.from]
    BY DEF Streaming, Ordered
  <2>2. \A q \in {history, scheduled, replay, queue} :
           ToSet(q) \subseteq Event
    BY <1>2, SeqSet
  <2> QED
    BY <2>1, <2>2, EventFacts
<1>8. \A d \in ToSet(history) : d.from = s => d.n < e.n
  BY <1>2, <1>3, <1>7
<1>9. Rising(history)
  BY DEF Streaming, Ordered
<1>10. /\ h \in Seq(Event) /\ h # <<>> /\ Rising(h)
       /\ ToSet(h) = ToSet(history) \cup {e}
  <2> HIDE DEF e
  <2> QED
    BY <1>2, <1>3, <1>8, <1>9, Longer
<1>11. \A d \in ToSet(h) : d.from \in Sources /\ d.n <= emitted'[d.from]
  <2> SUFFICES ASSUME NEW d \in ToSet(h)
               PROVE  d.from \in Sources /\ d.n <= emitted'[d.from]
    OBVIOUS
  <2>1. CASE d = e
    BY <1>3, <1>5, <2>1
  <2>2. CASE d \in ToSet(history)
    <3>1. d.from \in Sources /\ d.n \in Nat /\ d.n <= emitted[d.from]
      BY <1>7, <2>2
    <3> QED
      BY <1>2, <1>5, <3>1
  <2> QED
    BY <1>10, <2>1, <2>2
<1>12. \A d \in ToSet(h) : Latest(d.from)' \in ToSet(h)
  <2> SUFFICES ASSUME NEW d \in ToSet(h)
               PROVE  Latest(d.from)' \in ToSet(h)
    OBVIOUS
  <2>1. CASE d.from = s
    BY <1>4, <1>10, <2>1
  <2>2. CASE d.from # s
    <3>1. d \in ToSet(history) /\ d.from \in Sources
      BY <1>3, <1>10, <1>11, <2>2
    <3>2. Latest(d.from) \in ToSet(history)
      BY <3>1 DEF Streaming, LatestComes
    <3> QED
      BY <1>4, <1>10, <2>2, <3>1, <3>2
  <2> QED
    BY <2>1, <2>2
<1>13. /\ history' \in Seq(Event) /\ Rising(history')
       /\ ToSet(history') \subseteq ToSet(h)
       /\ \A d \in ToSet(history') : Latest(d.from)' \in ToSet(history')
  <2>1. CASE history' = h
    BY <1>10, <1>12, <2>1
  <2>2. CASE history' = Tail(h)
    <3>1. /\ Tail(h) \in Seq(Event) /\ Rising(Tail(h))
          /\ ToSet(h) = {Head(h)} \cup ToSet(Tail(h))
      <4> HIDE DEF h
      <4> QED
        BY <1>10, Rest
    <3>2. ASSUME NEW d \in ToSet(Tail(h))
          PROVE  Latest(d.from)' # Head(h)
      <4>1. [from |-> d.from, n |-> emitted'[d.from]] # Head(h)
        <5> HIDE DEF h
        <5> QED
          BY <1>5, <1>10, <1>11, FirstIsOlder
      <4> QED
        BY <4>1 DEF Latest
    <3> HIDE DEF h
    <3>3. \A d \in ToSet(Tail(h)) : Latest(d.from)' \in ToSet(Tail(h))
      BY <1>12, <3>1, <3>2
    <3> QED
      BY <2>2, <3>1, <3>3
  <2> QED
    BY <1>1, <2>1, <2>2 DEF Newest
<1> HIDE DEF h, e
<1>14. StreamTypes'
  <2>1. emitting' \in [Sources -> Event \cup {None}]
    BY <1>1, <1>3 DEF Streaming, StreamTypes
  <2> QED
    BY <1>1, <1>2, <1>4, <1>5, <1>6, <1>13, <2>1 DEF Streaming, StreamTypes
<1>15. Fresh'
  BY <1>1 DEF Streaming, Fresh
<1>16. Ordered'
  <2>1. \A d \in ToSet(history') \cup ToSet(replay) \cup ToSet(queue)
                 \cup ToSet(scheduled) : d.n <= emitted'[d.from]
    <3>1. \A d \in ToSet(history') : d.n <= emitted'[d.from]
      BY <1>11, <1>13
    <3>2. \A d \in ToSet(replay) \cup ToSet(queue) \cup ToSet(scheduled) :
             d.n <= emitted'[d.from]
      BY <1>2, <1>5, <1>7
    <3> QED
      BY <3>1, <3>2
  <2>2. \A d \in ToSet(queue) \cup ToSet(scheduled) :
           emitting'[d.from] # None => d.n < emitted'[d.from]
    <3> SUFFICES ASSUME NEW d \in ToSet(queue) \cup ToSet(scheduled),
                        emitting'[d.from] # None
                 PROVE  d.n < emitted'[d.from]
      OBVIOUS
    <3>1. d.from \in Sources /\ d.n \in Nat /\ d.n <= emitted[d.from]
      BY <1>7
    <3>2. CASE d.from = s
      BY <1>2, <1>5, <3>1, <3>2
    <3>3. CASE d.from # s
      <4>1. emitting[d.from] # None
        BY <1>6, <3>1, <3>3
      <4>2. d.n < emitted[d.from]
        BY <4>1 DEF Streaming, Ordered
      <4> QED
        BY <1>2, <1>5, <3>1, <4>2
    <3> QED
      BY <3>2, <3>3
  <2> QED
    BY <1>1, <1>13, <2>1, <2>2 DEF Streaming, Ordered
<1>17. /\ e \in Coming'
       /\ \A u \in Sources : Latest(u) \in Coming => Latest(u)' \in Coming'
       /\ \A u \in Sources : Latest(u) \in Flying => Latest(u)' \in Flying'
       /\ Coming \ {None} \subseteq Coming'
       /\ Flying \ {None} \subseteq Flying'
  <2>1. {emitting'[u] : u \in Sources} =
           {emitting[u] : u \in Sources \ {s}} \cup {e}
    BY <1>6
  <2>2. Coming' = ToSet(scheduled) \cup {emitting'[u] : u \in Sources}
    BY <1>1 DEF Coming
  <2>3. Flying' = ToSet(replay) \cup ToSet(queue) \cup Coming'
    BY <1>1 DEF Flying
  <2>4. e \in Coming' /\ Coming \ {None} \subseteq Coming'
    BY <1>1, <2>1, <2>2 DEF Coming
  <2>5. Flying \ {None} \subseteq Flying'
    BY <2>3, <2>4 DEF Flying
  <2>6. \A u \in Sources : Latest(u) # None
    BY LatestFacts
  <2>7. e \in Flying'
    BY <2>3, <2>4
  <2> QED
    BY <1>4, <2>4, <2>5, <2>6, <2>7
<1>18. LatestComes'
  <2>1. ASSUME NEW d \in ToSet(scheduled)
        PROVE  Latest(d.from)' \in Coming'
    <3>1. d.from \in Sources /\ Latest(d.from) \in Coming
      BY <1>7 DEF Streaming, LatestComes
    <3> QED
      BY <1>17, <3>1
  <2>2. ASSUME ~slow, NEW d \in ToSet(queue)
        PROVE  Latest(d.from)' \in ToSet(queue) \cup Coming'
    <3>1. d.from \in Sources /\ Latest(d.from) \in ToSet(queue) \cup Coming
      BY <1>7, <2>2 DEF Streaming, LatestComes
    <3> QED
      BY <1>4, <1>17, <3>1
  <2>3. ASSUME ~slow, NEW d \in ToSet(replay)
        PROVE  Latest(d.from)' \in Flying'
    <3>1. d.from \in Sources /\ Latest(d.from) \in Flying
      BY <1>7, <2>3 DEF Streaming, LatestComes
    <3> QED
      BY <1>17, <3>1
  <2> QED
    BY <1>1, <1>13, <2>1, <2>2, <2>3 DEF LatestComes
<1>19. LastWord'
  <2> SUFFICES ASSUME stream # "off", ~slow, NEW u \in Sources
               PROVE  last[u] \in {0, emitted'[u]} \/ Latest(u)' \in Flying'
    BY <1>1 DEF LastWord
  <2>1. last[u] \in {0, emitted[u]} \/ Latest(u) \in Flying
    BY DEF Streaming, LastWord
  <2>2. CASE u = s
    BY <1>4, <1>17, <2>2 DEF Flying
  <2>3. CASE u # s
    <3>1. emitted'[u] = emitted[u]
      BY <1>1, <1>2, <2>3
    <3> QED
      BY <1>17, <2>1, <3>1
  <2> QED
    BY <2>2, <2>3
<1>20. OwedComes'
  <2> SUFFICES ASSUME stream # "off"
               PROVE  owed' \subseteq Flying' \ {None}
    BY <1>1 DEF OwedComes
  <2>1. owed \subseteq Flying \ {None}
    BY DEF Streaming, OwedComes
  <2>2. owed' = owed \cup {e}
    BY <1>1
  <2>3. e \in Flying'
    BY <1>17 DEF Flying
  <2> QED
    BY <1>3, <1>17, <2>1, <2>2, <2>3
<1> QED
  BY <1>14, <1>15, <1>16, <1>18, <1>19, <1>20 DEF Streaming

\* What steps that take events along, and emit none, have to show.
LEMMA Unemitted ==
    ASSUME Streaming, UNCHANGED <<history, emitted>>
    PROVE  /\ \A u : Latest(u)' = Latest(u)
           /\ history' \in Seq(Event) /\ emitted' \in [Sources -> Nat]
           /\ Rising(history')
           /\ \A d \in ToSet(history') : /\ d.n <= emitted'[d.from]
                                         /\ Latest(d.from)' \in ToSet(history')
<1>1. history' = history /\ emitted' = emitted
  OBVIOUS
<1>2. \A u : Latest(u)' = Latest(u)
  BY <1>1 DEF Latest
<1>3. /\ history' \in Seq(Event) /\ emitted' \in [Sources -> Nat]
      /\ Rising(history')
  BY <1>1 DEF Streaming, StreamTypes, Ordered
<1>4. ASSUME NEW d \in ToSet(history')
      PROVE  d.n <= emitted'[d.from] /\ Latest(d.from)' \in ToSet(history')
  BY <1>1, <1>2, <1>4 DEF Streaming, Ordered, LatestComes
<1> QED
  BY <1>2, <1>3, <1>4

\* What is known of the events that are somewhere.
LEMMA Somewhere ==
    ASSUME Streaming, NEW q \in {history, scheduled, replay, queue},
           NEW d \in ToSet(q)
    PROVE  /\ d \in Event /\ d.from \in Sources /\ d.n \in Nat /\ d # None
           /\ d.n <= emitted[d.from] /\ emitted[d.from] \in Nat
<1>1. q \in Seq(Event) /\ emitted \in [Sources -> Nat]
  BY DEF Streaming, StreamTypes
<1>2. d \in Event
  BY <1>1, SeqSet
<1>3. d \in ToSet(history) \cup ToSet(replay) \cup ToSet(queue)
                \cup ToSet(scheduled)
  OBVIOUS
<1>4. d.n <= emitted[d.from]
  BY <1>3 DEF Streaming, Ordered
<1> QED
  BY <1>1, <1>2, <1>4, EventFacts

\* An event moves from its thread to the event loop.
LEMMA ScheduleStep ==
    ASSUME Streaming, NEW s \in Sources, Schedule(s)
    PROVE  Streaming'
<1> DEFINE e == Latest(s)
<1>1. /\ emitting[s] # None
      /\ scheduled' = Append(scheduled, emitting[s])
      /\ emitting' = [emitting EXCEPT ![s] = None]
      /\ history' = history /\ emitted' = emitted /\ stream' = stream
      /\ replay' = replay /\ queue' = queue /\ owed' = owed /\ slow' = slow
      /\ last' = last
  BY DEF Schedule, streamVars
<1>2. /\ scheduled \in Seq(Event) /\ DOMAIN emitting = Sources
      /\ \A u \in Sources : emitting[u] \in {None, Latest(u)}
      /\ emitted \in [Sources -> Nat]
  BY DEF Streaming, StreamTypes
<1>3. emitting[s] = e /\ e.from = s /\ e.n = emitted[s] /\ e # None
  BY <1>1, <1>2, LatestFacts
<1>4. \A d \in ToSet(queue) \cup ToSet(scheduled) : d.from = s => d.n < e.n
  BY <1>1, <1>3 DEF Streaming, Ordered
<1> HIDE DEF e
<1>5. /\ scheduled' \in Seq(Event) /\ Rising(scheduled')
      /\ ToSet(scheduled') = ToSet(scheduled) \cup {e}
      /\ e \in Event
  <2>2. e \in Event
    BY <1>3 DEF Streaming, StreamTypes
  <2>3. Rising(scheduled)
    BY DEF Streaming, Ordered
  <2> QED
    BY <1>1, <1>2, <1>3, <1>4, <2>2, <2>3, Longer
<1>6. /\ DOMAIN emitting' = Sources /\ emitting'[s] = None
      /\ \A u \in Sources : u # s => emitting'[u] = emitting[u]
  BY <1>1, <1>2
<1>7. \A u : Latest(u)' = Latest(u)
  BY <1>1, Unemitted
<1>8. Coming \ {None} \subseteq Coming' /\ Flying \ {None} \subseteq Flying'
  <2>1. \A u \in Sources : emitting[u] \in Coming' \cup {None}
    BY <1>3, <1>5, <1>6 DEF Coming
  <2>2. ToSet(scheduled) \subseteq Coming'
    BY <1>5 DEF Coming
  <2>3. Coming \ {None} \subseteq Coming'
    BY <2>1, <2>2 DEF Coming
  <2> QED
    BY <1>1, <2>3 DEF Flying
<1>9. \A u \in Sources : Latest(u) # None
  BY LatestFacts
<1>10. StreamTypes'
  <2>1. emitting' \in [Sources -> Event \cup {None}]
    BY <1>1 DEF Streaming, StreamTypes
  <2> QED
    BY <1>1, <1>2, <1>5, <1>6, <1>7, <2>1 DEF Streaming, StreamTypes
<1>11. Fresh'
  BY <1>1 DEF Streaming, Fresh
<1>12. Ordered'
  <2>1. \A d \in ToSet(scheduled') : d.n <= emitted[d.from]
    <3>1. \A d \in ToSet(scheduled) : d.n <= emitted[d.from]
      BY DEF Streaming, Ordered
    <3> QED
      BY <1>2, <1>3, <1>5, <3>1
  <2>2. \A c \in ToSet(queue), d \in ToSet(scheduled') :
           c.from = d.from => c.n < d.n
    BY <1>3, <1>4, <1>5 DEF Streaming, Ordered
  <2>3. ASSUME NEW d \in ToSet(queue) \cup ToSet(scheduled'),
               emitting'[d.from] # None
        PROVE  d.n < emitted[d.from]
    <3>1. d # e /\ d \in ToSet(queue) \cup ToSet(scheduled)
      BY <1>3, <1>5, <1>6, <2>3
    <3>2. d.from \in Sources
      BY <3>1, Somewhere
    <3>3. emitting[d.from] # None
      BY <1>1, <1>6, <2>3, <3>2
    <3> QED
      BY <3>1, <3>3 DEF Streaming, Ordered
  <2>4. \A d \in ToSet(history) \cup ToSet(replay) \cup ToSet(queue) :
           d.n <= emitted[d.from]
    BY DEF Streaming, Ordered
  <2>5. Rising(history) /\ Rising(replay) /\ Rising(queue)
    BY DEF Streaming, Ordered
  <2> QED
    BY <1>1, <1>5, <2>1, <2>2, <2>3, <2>4, <2>5 DEF Ordered
<1>13. LatestComes'
  <2>1. ASSUME NEW d \in ToSet(scheduled')
        PROVE  Latest(d.from) \in Coming'
    <3>1. CASE d = e
      BY <1>3, <1>5, <3>1 DEF Coming, e
    <3>2. CASE d \in ToSet(scheduled)
      <4>1. d.from \in Sources /\ Latest(d.from) \in Coming
        BY <3>2, Somewhere DEF Streaming, LatestComes
      <4> QED
        BY <1>8, <1>9, <4>1
    <3> QED
      BY <1>5, <3>1, <3>2
  <2>2. ASSUME ~slow, NEW d \in ToSet(queue)
        PROVE  Latest(d.from) \in ToSet(queue) \cup Coming'
    <3>1. d.from \in Sources /\ Latest(d.from) \in ToSet(queue) \cup Coming
      BY <2>2, Somewhere DEF Streaming, LatestComes
    <3> QED
      BY <1>8, <1>9, <3>1
  <2>3. ASSUME ~slow, NEW d \in ToSet(replay)
        PROVE  Latest(d.from) \in Flying'
    <3>1. d.from \in Sources /\ Latest(d.from) \in Flying
      BY <2>3, Somewhere DEF Streaming, LatestComes
    <3> QED
      BY <1>8, <1>9, <3>1
  <2>4. \A d \in ToSet(history') : Latest(d.from)' \in ToSet(history')
    BY <1>1, Unemitted
  <2> QED
    BY <1>1, <1>7, <2>1, <2>2, <2>3, <2>4 DEF LatestComes
<1>14. LastWord'
  BY <1>1, <1>7, <1>8, <1>9 DEF Streaming, LastWord
<1>15. OwedComes'
  BY <1>1, <1>8 DEF Streaming, OwedComes
<1> QED
  BY <1>10, <1>11, <1>12, <1>13, <1>14, <1>15 DEF Streaming

\* An event leaves the event loop: the set of what is under way is the same, if
\* a browser takes it.
LEMMA DeliverStep ==
    ASSUME Streaming, Deliver
    PROVE  Streaming'
<1> DEFINE e == Head(scheduled)
           rest == Tail(scheduled)
<1>1. /\ scheduled # <<>> /\ scheduled' = rest
      /\ history' = history /\ emitting' = emitting /\ emitted' = emitted
      /\ stream' = stream /\ replay' = replay /\ last' = last
  BY DEF Deliver
<1>2. /\ scheduled \in Seq(Event) /\ queue \in Seq(Event)
      /\ Rising(scheduled) /\ Rising(queue)
      /\ emitted \in [Sources -> Nat]
      /\ stream \in {"off", "replaying", "live"}
  BY DEF Streaming, StreamTypes, Ordered
<1>3. /\ e \in ToSet(scheduled) /\ e \in Event /\ rest \in Seq(Event)
      /\ Rising(rest) /\ ToSet(scheduled) = {e} \cup ToSet(rest)
      /\ \A d \in ToSet(rest) : d.from = e.from => e.n < d.n
  BY <1>1, <1>2, Rest
<1>4. ASSUME NEW d \in ToSet(rest)
      PROVE  Latest(d.from) # e
  <2>1. \A c \in ToSet(scheduled) : c.n <= emitted[c.from]
    BY DEF Streaming, Ordered
  <2> QED
    BY <1>1, <1>2, <2>1, FirstIsOlder DEF Latest
<1> HIDE DEF e, rest
<1>5. /\ \A u : Latest(u)' = Latest(u)
      /\ \A d \in ToSet(history') : Latest(d.from)' \in ToSet(history')
  BY <1>1, Unemitted
<1>6. \A d \in ToSet(rest) : /\ Latest(d.from) \in Coming \ {e}
                             /\ d \in ToSet(scheduled)
  BY <1>3, <1>4 DEF Streaming, LatestComes
<1>7. /\ Coming' \cup {e} = Coming \cup {e}
      /\ Coming = {e} \cup Coming'
      /\ Coming \ {e} \subseteq Coming'
  BY <1>1, <1>3 DEF Coming
<1>8. \A d \in ToSet(scheduled') : Latest(d.from)' \in Coming'
  BY <1>1, <1>5, <1>6, <1>7
<1>9. CASE stream = "off"
  <2>1. queue' = queue /\ owed' = owed /\ slow' = slow
    BY <1>1, <1>9 DEF Deliver, Subscribed
  <2>2. queue = <<>> /\ replay = <<>>
    BY <1>9 DEF Streaming, Fresh
  <2>3. ToSet(queue') = {} /\ ToSet(replay') = {}
    BY <1>1, <2>1, <2>2, NoneSet
  <2>4. StreamTypes'
    BY <1>1, <1>3, <1>5, <2>1 DEF Streaming, StreamTypes
  <2>5. Fresh'
    BY <1>1, <2>1 DEF Streaming, Fresh
  <2>6. Ordered'
    BY <1>1, <1>3, <2>1, <2>3 DEF Streaming, Ordered
  <2>7. LatestComes'
    BY <1>5, <1>8, <2>3 DEF LatestComes
  <2>8. LastWord' /\ OwedComes'
    BY <1>1, <1>9 DEF LastWord, OwedComes
  <2> QED
    BY <2>4, <2>5, <2>6, <2>7, <2>8 DEF Streaming
<1>10. CASE stream # "off" /\ Len(queue) < QueueSize
  <2>1. queue' = Append(queue, e) /\ owed' = owed /\ slow' = slow
    BY <1>1, <1>2, <1>10 DEF Deliver, Subscribed, e
  <2>2. \A d \in ToSet(queue) : d.from = e.from => d.n < e.n
    BY <1>3 DEF Streaming, Ordered
  <2>3. /\ queue' \in Seq(Event) /\ Rising(queue')
        /\ ToSet(queue') = ToSet(queue) \cup {e}
    BY <1>2, <1>3, <2>1, <2>2, Longer
  <2>4. Flying' = Flying
    BY <1>1, <1>7, <2>3 DEF Flying
  <2>5. StreamTypes'
    BY <1>1, <1>3, <1>5, <2>1, <2>3 DEF Streaming, StreamTypes
  <2>6. Fresh'
    BY <1>1, <1>10, <2>1 DEF Streaming, Fresh
  <2>7. Ordered'
    <3>1. \A d \in ToSet(history) \cup ToSet(replay) \cup ToSet(queue')
                   \cup ToSet(scheduled') : d.n <= emitted[d.from]
      BY <1>1, <1>3, <2>3 DEF Streaming, Ordered
    <3>2. \A c \in ToSet(queue'), d \in ToSet(scheduled') :
             c.from = d.from => c.n < d.n
      BY <1>1, <1>3, <2>3 DEF Streaming, Ordered
    <3>3. \A d \in ToSet(queue') \cup ToSet(scheduled') :
             emitting[d.from] # None => d.n < emitted[d.from]
      BY <1>1, <1>3, <2>3 DEF Streaming, Ordered
    <3>4. Rising(history) /\ Rising(replay)
      BY DEF Streaming, Ordered
    <3> QED
      BY <1>1, <1>3, <2>3, <3>1, <3>2, <3>3, <3>4 DEF Ordered
  <2>8. LatestComes'
    <3>1. ASSUME ~slow, NEW d \in ToSet(queue')
          PROVE  Latest(d.from) \in ToSet(queue') \cup Coming'
      <4>1. CASE d = e
        BY <1>3, <1>7, <2>3, <4>1 DEF Streaming, LatestComes
      <4>2. CASE d \in ToSet(queue)
        BY <1>7, <2>3, <3>1, <4>2 DEF Streaming, LatestComes
      <4> QED
        BY <2>3, <4>1, <4>2
    <3>2. ASSUME ~slow, NEW d \in ToSet(replay)
          PROVE  Latest(d.from) \in Flying'
      BY <2>4, <3>2 DEF Streaming, LatestComes
    <3> QED
      BY <1>1, <1>5, <1>8, <2>1, <3>1, <3>2 DEF LatestComes
  <2>9. LastWord' /\ OwedComes'
    BY <1>1, <1>5, <2>1, <2>4 DEF Streaming, LastWord, OwedComes
  <2> QED
    BY <2>5, <2>6, <2>7, <2>8, <2>9 DEF Streaming
<1>11. CASE stream # "off" /\ ~(Len(queue) < QueueSize)
  <2>1. queue' = queue /\ owed' = owed \ {e} /\ slow' = TRUE
    BY <1>1, <1>2, <1>11 DEF Deliver, Subscribed, e
  <2>2. StreamTypes'
    BY <1>1, <1>3, <1>5, <2>1 DEF Streaming, StreamTypes
  <2>3. Fresh'
    BY <1>1, <1>11 DEF Streaming, Fresh
  <2>4. Ordered'
    <3>1. \A d \in ToSet(history) \cup ToSet(replay) \cup ToSet(queue)
                   \cup ToSet(scheduled') : d.n <= emitted[d.from]
      BY <1>1, <1>3 DEF Streaming, Ordered
    <3>2. \A c \in ToSet(queue), d \in ToSet(scheduled') :
             c.from = d.from => c.n < d.n
      BY <1>1, <1>3 DEF Streaming, Ordered
    <3>3. \A d \in ToSet(queue) \cup ToSet(scheduled') :
             emitting[d.from] # None => d.n < emitted[d.from]
      BY <1>1, <1>3 DEF Streaming, Ordered
    <3>4. Rising(history) /\ Rising(replay)
      BY DEF Streaming, Ordered
    <3> QED
      BY <1>1, <1>2, <1>3, <2>1, <3>1, <3>2, <3>3, <3>4 DEF Ordered
  <2>5. LatestComes' /\ LastWord'
    BY <1>5, <1>8, <2>1 DEF LatestComes, LastWord
  <2>6. OwedComes'
    <3>1. owed \subseteq Flying \ {None}
      BY <1>11 DEF Streaming, OwedComes
    <3>2. Flying \ {e} \subseteq Flying'
      BY <1>1, <1>7, <2>1 DEF Flying
    <3> QED
      BY <2>1, <3>1, <3>2 DEF OwedComes
  <2> QED
    BY <2>2, <2>3, <2>4, <2>5, <2>6 DEF Streaming
<1> QED
  BY <1>9, <1>10, <1>11

\* The replay begins with the ring as it is.
LEMMA ConnectStep ==
    ASSUME Streaming, Connect
    PROVE  Streaming'
<1>1. /\ stream = "off" /\ stream' = "replaying"
      /\ replay' = history /\ queue' = <<>> /\ owed' = ToSet(history)
      /\ history' = history /\ emitting' = emitting /\ emitted' = emitted
      /\ scheduled' = scheduled /\ slow' = slow /\ last' = last
  BY DEF Connect, hubVars
<1>2. ~slow /\ \A s \in Sources : last[s] = 0
  BY <1>1 DEF Streaming, Fresh
<1>3. ToSet(queue') = {} /\ <<>> \in Seq(Event) /\ Rising(<<>>)
  BY <1>1, NoneSet DEF Rising
<1>4. Coming' = Coming /\ Flying' = ToSet(history) \cup Coming
  BY <1>1, <1>3 DEF Coming, Flying
<1>5. \A u : Latest(u)' = Latest(u)
  BY <1>1, Unemitted
<1>6. StreamTypes' /\ Fresh'
  BY <1>1, <1>3, <1>5 DEF Streaming, StreamTypes, Fresh
<1>7. Ordered'
  BY <1>1, <1>3 DEF Streaming, Ordered
<1>8. LatestComes'
  BY <1>1, <1>3, <1>4, <1>5 DEF Streaming, LatestComes
<1>9. LastWord'
  BY <1>1, <1>2 DEF LastWord
<1>10. OwedComes'
  BY <1>1, <1>4, Somewhere DEF OwedComes
<1> QED
  BY <1>6, <1>7, <1>8, <1>9, <1>10 DEF Streaming

\* A browser leaves.
LEMMA HungUpStep ==
    ASSUME Streaming, HungUp, UNCHANGED hubVars
    PROVE  Streaming'
<1>1. /\ stream' = "off" /\ replay' = <<>> /\ queue' = <<>>
      /\ slow' = FALSE /\ last' = [s \in Sources |-> 0]
      /\ history' = history /\ emitting' = emitting /\ emitted' = emitted
      /\ scheduled' = scheduled
  BY DEF HungUp, hubVars
<1>2. ToSet(queue') = {} /\ ToSet(replay') = {} /\ <<>> \in Seq(Event)
      /\ Rising(<<>>)
  BY <1>1, NoneSet DEF Rising
<1>3. Coming' = Coming /\ \A u : Latest(u)' = Latest(u)
  BY <1>1, Unemitted DEF Coming
<1>4. StreamTypes' /\ Fresh'
  BY <1>1, <1>2, <1>3 DEF Streaming, StreamTypes, Fresh
<1>5. Ordered'
  BY <1>1, <1>2 DEF Streaming, Ordered
<1>6. LatestComes'
  BY <1>1, <1>2, <1>3 DEF Streaming, LatestComes
<1>7. LastWord' /\ OwedComes'
  BY <1>1 DEF LastWord, OwedComes
<1> QED
  BY <1>4, <1>5, <1>6, <1>7 DEF Streaming

\* A companion that has just started.
LEMMA EmptyHub ==
    ASSUME history = <<>>, scheduled = <<>>,
           emitting = [s \in Sources |-> None],
           emitted = [s \in Sources |-> 0],
           stream = "off", replay = <<>>, queue = <<>>, slow = FALSE,
           last = [s \in Sources |-> 0]
    PROVE  Streaming
<1>1. ToSet(<<>>) = {} /\ <<>> \in Seq(Event) /\ Rising(<<>>)
  BY NoneSet DEF Rising
<1>2. StreamTypes /\ Fresh
  BY <1>1 DEF StreamTypes, Fresh
<1>3. Ordered /\ LatestComes
  BY <1>1 DEF Ordered, LatestComes
<1>4. LastWord /\ OwedComes
  BY DEF LastWord, OwedComes
<1> QED
  BY <1>2, <1>3, <1>4 DEF Streaming

\* Sending an event takes it off one of the sequences; it is its source's last,
\* or that one is still to come.
LEMMA SentStep ==
    ASSUME Streaming, NEW e \in Event, Sent(e), stream # "off",
           UNCHANGED <<slow, hubVars>>,
           ToSet(replay') \subseteq ToSet(replay),
           ToSet(queue') \subseteq ToSet(queue),
           Flying \ {e} \subseteq Flying',
           ~slow => Latest(e.from) \in Flying
    PROVE  LastWord' /\ OwedComes'
<1>1. /\ owed' = owed \ {e} /\ last' = [last EXCEPT ![e.from] = e.n]
      /\ slow' = slow /\ emitted' = emitted /\ history' = history
  BY DEF Sent, hubVars
<1>2. \A u : Latest(u)' = Latest(u)
  BY <1>1, Unemitted
<1>3. e.from \in Sources /\ last \in [Sources -> Nat]
  BY EventFacts DEF Streaming, StreamTypes
<1>4. OwedComes'
  BY <1>1 DEF Streaming, OwedComes
<1>5. LastWord'
  <2> SUFFICES ASSUME ~slow, NEW u \in Sources
               PROVE  last'[u] \in {0, emitted[u]} \/ Latest(u) \in Flying'
    BY <1>1, <1>2 DEF LastWord
  <2>1. CASE u = e.from /\ Latest(u) = e
    <3>1. e.n = emitted[u]
      BY <2>1, LatestFacts
    <3> QED
      BY <1>1, <1>3, <2>1, <3>1
  <2>2. CASE u = e.from /\ Latest(u) # e
    BY <2>2
  <2>3. CASE u # e.from
    <3>1. last'[u] = last[u]
      BY <1>1, <1>3, <2>3
    <3>2. Latest(u) # e
      BY <2>3, LatestFacts
    <3>3. last[u] \in {0, emitted[u]} \/ Latest(u) \in Flying
      BY DEF Streaming, LastWord
    <3> QED
      BY <3>1, <3>2, <3>3
  <2> QED
    BY <2>1, <2>2, <2>3
<1> QED
  BY <1>4, <1>5

LEMMA ReplayStep ==
    ASSUME Streaming, SendReplay
    PROVE  Streaming'
<1>1. /\ stream = "replaying" /\ queue' = queue /\ slow' = slow
      /\ history' = history /\ emitting' = emitting /\ emitted' = emitted
      /\ scheduled' = scheduled
  BY DEF SendReplay, hubVars
<1>2. Coming' = Coming /\ \A u : Latest(u)' = Latest(u)
  BY <1>1, Unemitted DEF Coming
<1>3. CASE replay = <<>>
  <2>1. stream' = "live" /\ replay' = replay /\ owed' = owed /\ last' = last
    BY <1>3 DEF SendReplay
  <2>2. Flying' = Flying
    BY <1>1, <1>2, <2>1 DEF Flying
  <2>3. StreamTypes' /\ Fresh'
    BY <1>1, <1>2, <1>3, <2>1 DEF Streaming, StreamTypes, Fresh
  <2>4. Ordered'
    BY <1>1, <2>1 DEF Streaming, Ordered
  <2>5. LatestComes'
    BY <1>1, <1>2, <2>1, <2>2 DEF Streaming, LatestComes
  <2>6. LastWord' /\ OwedComes'
    BY <1>1, <1>2, <2>1, <2>2 DEF Streaming, LastWord, OwedComes
  <2> QED
    BY <2>3, <2>4, <2>5, <2>6 DEF Streaming
<1>4. CASE replay # <<>>
  <2> DEFINE e == Head(replay)
             rest == Tail(replay)
  <2>1. Sent(e) /\ replay' = rest /\ stream' = stream
    BY <1>4 DEF SendReplay
  <2>2. replay \in Seq(Event) /\ Rising(replay) /\ emitted \in [Sources -> Nat]
    BY DEF Streaming, StreamTypes, Ordered
  <2>3. /\ e \in ToSet(replay) /\ e \in Event /\ rest \in Seq(Event)
        /\ Rising(rest) /\ ToSet(replay) = {e} \cup ToSet(rest)
    BY <1>4, <2>2, Rest
  <2>4. ASSUME NEW d \in ToSet(rest)
        PROVE  Latest(d.from) # e
    <3>1. \A c \in ToSet(replay) : c.n <= emitted[c.from]
      BY DEF Streaming, Ordered
    <3> QED
      BY <1>4, <2>2, <3>1, FirstIsOlder DEF Latest
  <2>5. last' = [last EXCEPT ![e.from] = e.n]
    BY <2>1 DEF Sent
  <2> HIDE DEF e, rest
  <2>6. Flying = Flying' \cup {e}
    BY <1>1, <1>2, <2>1, <2>3 DEF Flying
  <2>7. ~slow => \A d \in ToSet(replay) : Latest(d.from) \in Flying
    BY DEF Streaming, LatestComes
  <2>8. LastWord' /\ OwedComes'
    BY <1>1, <2>1, <2>3, <2>6, <2>7, SentStep DEF hubVars
  <2>9. StreamTypes'
    <3>1. last' \in [Sources -> Nat]
      BY <2>3, <2>5, EventFacts DEF Streaming, StreamTypes
    <3> QED
      BY <1>1, <1>2, <2>1, <2>3, <3>1 DEF Streaming, StreamTypes
  <2>10. Fresh'
    BY <1>1, <2>1 DEF Fresh
  <2>11. Ordered'
    BY <1>1, <2>1, <2>3 DEF Streaming, Ordered
  <2>12. LatestComes'
    <3>1. ASSUME ~slow, NEW d \in ToSet(replay')
          PROVE  Latest(d.from) \in Flying'
      BY <2>1, <2>3, <2>4, <2>6, <2>7, <3>1
    <3> QED
      BY <1>1, <1>2, <3>1 DEF Streaming, LatestComes
  <2> QED
    BY <2>8, <2>9, <2>10, <2>11, <2>12 DEF Streaming
<1> QED
  BY <1>3, <1>4

LEMMA LiveStep ==
    ASSUME Streaming, SendLive
    PROVE  Streaming'
<1> DEFINE e == Head(queue)
           rest == Tail(queue)
<1>1. /\ stream = "live" /\ queue # <<>> /\ Sent(e) /\ queue' = rest
      /\ stream' = stream /\ replay' = replay /\ slow' = slow
      /\ history' = history /\ emitting' = emitting /\ emitted' = emitted
      /\ scheduled' = scheduled
  BY DEF SendLive, hubVars
<1>2. Coming' = Coming /\ \A u : Latest(u)' = Latest(u)
  BY <1>1, Unemitted DEF Coming
<1>3. replay = <<>> /\ ToSet(replay) = {}
  BY <1>1, NoneSet DEF Streaming, Fresh
<1>4. queue \in Seq(Event) /\ Rising(queue) /\ emitted \in [Sources -> Nat]
  BY DEF Streaming, StreamTypes, Ordered
<1>5. /\ e \in ToSet(queue) /\ e \in Event /\ rest \in Seq(Event)
      /\ Rising(rest) /\ ToSet(queue) = {e} \cup ToSet(rest)
  BY <1>1, <1>4, Rest
<1>6. ASSUME NEW d \in ToSet(rest)
      PROVE  Latest(d.from) # e
  <2>1. \A c \in ToSet(queue) : c.n <= emitted[c.from]
    BY DEF Streaming, Ordered
  <2> QED
    BY <1>1, <1>4, <2>1, FirstIsOlder DEF Latest
<1>7. last' = [last EXCEPT ![e.from] = e.n]
  BY <1>1 DEF Sent
<1> HIDE DEF e, rest
<1>8. Flying \ {e} \subseteq Flying'
  BY <1>1, <1>2, <1>5 DEF Flying
<1>9. ~slow =>
         \A d \in ToSet(queue) :
            Latest(d.from) \in ToSet(queue) \cup Coming
  BY DEF Streaming, LatestComes
<1>10. LastWord' /\ OwedComes'
  BY <1>1, <1>5, <1>8, <1>9, SentStep DEF hubVars, Flying
<1>11. StreamTypes'
  <2>1. last' \in [Sources -> Nat]
    BY <1>5, <1>7, EventFacts DEF Streaming, StreamTypes
  <2> QED
    BY <1>1, <1>2, <1>5, <2>1 DEF Streaming, StreamTypes
<1>12. Fresh'
  BY <1>1, <1>3 DEF Fresh
<1>13. Ordered'
  BY <1>1, <1>5 DEF Streaming, Ordered
<1>14. LatestComes'
  <2>1. ASSUME ~slow, NEW d \in ToSet(queue')
        PROVE  Latest(d.from) \in ToSet(queue') \cup Coming'
    BY <1>1, <1>2, <1>5, <1>6, <1>9, <2>1
  <2> QED
    BY <1>1, <1>2, <1>3, <2>1 DEF Streaming, LatestComes
<1> QED
  BY <1>10, <1>11, <1>12, <1>13, <1>14 DEF Streaming

LEMMA StreamingStep ==
    ASSUME Streaming, [Next]_vars
    PROVE  Streaming'
<1>1. CASE UNCHANGED <<hubVars, streamVars>>
  BY <1>1, StreamingFrame
<1>2. ASSUME NEW s \in Sources, Emits(s)
      PROVE  Streaming'
  BY <1>2, EmitsStep
<1>3. CASE FleetEvent \/ Progress \/ Report
  BY <1>2, <1>3 DEF FleetEvent, Progress, Report, Sources
<1>4. ASSUME NEW s \in Sources, Schedule(s)
      PROVE  Streaming'
  BY <1>4, ScheduleStep
<1>5. CASE Deliver \/ Connect \/ SendReplay \/ SendLive
  BY <1>5, DeliverStep, ConnectStep, ReplayStep, LiveStep
<1>6. CASE Disconnect
  BY <1>6, HungUpStep DEF Disconnect
<1>7. CASE Restart
  <2>1. /\ history' = <<>> /\ scheduled' = <<>>
        /\ emitting' = [s \in Sources |-> None]
        /\ emitted' = [s \in Sources |-> 0]
        /\ stream' = "off" /\ replay' = <<>> /\ queue' = <<>> /\ slow' = FALSE
        /\ last' = [s \in Sources |-> 0]
    BY <1>7 DEF Restart, HungUp
  <2>2. ToSet(<<>>) = {} /\ <<>> \in Seq(Event) /\ Rising(<<>>)
    BY NoneSet DEF Rising
  <2>3. StreamTypes' /\ Fresh'
    BY <2>1, <2>2 DEF StreamTypes, Fresh
  <2>4. Ordered' /\ LatestComes'
    BY <2>1, <2>2 DEF Ordered, LatestComes
  <2>5. LastWord' /\ OwedComes'
    BY <2>1 DEF LastWord, OwedComes
  <2> QED
    BY <2>3, <2>4, <2>5 DEF Streaming
<1>8. ASSUME NEW r \in Requests, Create(r)
      PROVE  UNCHANGED <<hubVars, streamVars>>
  BY <1>8 DEF Create
<1>9. ASSUME NEW end \in Ends, CreateEnds(end)
      PROVE  UNCHANGED <<hubVars, streamVars>>
  BY <1>9 DEF CreateEnds
<1>10. WorkerEnds => UNCHANGED <<hubVars, streamVars>>
  BY DEF WorkerEnds
<1>11. CreateHangs \/ Start \/ Refuse => UNCHANGED <<hubVars, streamVars>>
  BY DEF CreateHangs, Start, Refuse, Others
<1>12. ASSUME NEW i \in Tries, ToolStep(i) \/ WorkHangs(i) \/ Raise(i)
       PROVE  UNCHANGED <<hubVars, streamVars>>
  BY <1>12 DEF ToolStep, WorkHangs, Raise, Spawn, SpawnFails, WorkEnds, Wait,
     LoginReports, RailwayReports, DockerReports, C3Reports, Reports,
     ThreadStep
<1>13. Recheck => UNCHANGED <<hubVars, streamVars>>
  BY DEF Recheck, ThreadStep
<1>14. UNCHANGED vars => UNCHANGED <<hubVars, streamVars>>
  BY DEF vars
<1> QED
  BY <1>1, <1>3, <1>4, <1>5, <1>6, <1>7, <1>8, <1>9, <1>10, <1>11, <1>12, <1>13,
     <1>14
  DEF Next, DeployStep, StreamStep

-----------------------------------------------------------------------------
(* The theorems.                                                           *)

LEMMA StreamingHolds == Spec => []Streaming
<1>1. Init => Streaming
  BY EmptyHub DEF Init
<1>2. Streaming /\ [Next]_vars => Streaming'
  BY StreamingStep
<1> QED
  BY <1>1, <1>2, PTL DEF Spec

\* A browser misses nothing of the fleet's and the deployment's events but what
\* was dropped because it was a full queue behind, and ends with the last word
\* of each thread that emits, of any number of them, however emits, schedules,
\* replay and disconnects are interleaved.
THEOREM StreamMissesNothing == Spec => []StreamIsWhole
<1>1. InFlight = Flying \ {None}
  BY DEF InFlight, Flying, Coming
<1>2. \A s \in Sources : Latest(s) # None
  BY LatestFacts
<1>3. Streaming => StreamIsWhole
  BY <1>1, <1>2 DEF Streaming, OwedComes, LastWord, StreamIsWhole
<1> QED
  BY <1>3, StreamingHolds, PTL

-----------------------------------------------------------------------------
(* The fleet, which runs as a thread of the companion or on the hosted     *)
(* runner.                                                                 *)

\* No worktree has lessons its source lacks.
NoNews == \A a \in Agents : notes[a] # "new"

\* A supervisor that is down runs nothing and handles nothing; who is being
\* enrolled has a row.
Down ==
    /\ ~up => run = "none" /\ handler = "idle"
    /\ host = "companion" => handler = "idle"
    /\ handler = "enroll" => row # "none"

\* Between two runs, and at the start of one, no lesson waits to be carried
\* back; later one only waits where this run has spawned.
Carried ==
    /\ run \in {"none", "prepare", "report", "winding"} => loop = NoLoops
    /\ run \in {"none", "prepare", "winding"} => NoNews
    /\ run = "spawn" =>
          \A a \in todo : loop[a] = "none" /\ notes[a] # "new"

\* The invariant of a run.
Run == FleetTypeOK /\ Down /\ Carried /\ FleetIsEnrolled

-----------------------------------------------------------------------------
\* What the steps make of notes and processes is of their types.
LEMMA LeftBehindNothing ==
    ASSUME FleetTypeOK
    PROVE  /\ LeftBehind \in [Agents -> {"same", "left"}]
           /\ SyncedBack \in [Agents -> {"same", "left"}]
<1>1. LeftBehind \in [Agents -> {"same", "left"}]
  BY DEF FleetTypeOK, LeftBehind
<1> QED
  BY <1>1 DEF SyncedBack

LEMMA OrphanTypes ==
    ASSUME FleetTypeOK
    PROVE  \A o \in {LeftRunning, CutOff, NoLoops} :
              o \in [Agents -> {"none", "fresh", "heard", "deaf"}]
<1>1. LeftRunning \in [Agents -> {"none", "fresh", "heard", "deaf"}]
  BY DEF FleetTypeOK, LeftRunning
<1>2. CutOff \in [Agents -> {"none", "fresh", "heard", "deaf"}]
  BY DEF CutOff
<1> QED
  BY <1>1, <1>2 DEF NoLoops

LEMMA NoLoopsType ==
    NoLoops \in [Agents -> {"none", "born", "running"} \cup Roles]
BY DEF NoLoops

\* A run is given up.
LEMMA AbandonStep ==
    ASSUME Run, NEW o \in {LeftRunning, CutOff, NoLoops}, Abandon(o),
           host' = host, source' = source, plan' = plan, file' = file,
           up' \in BOOLEAN,
           ui' \in {"idle", "starting", "running", "stopping", "stopped",
                    "error"},
           row' \in {"none", "stopped", "running", "error"},
           handler' \in {"idle", "enroll", "purge"},
           ~up' => handler' = "idle",
           host = "companion" => handler' = "idle",
           handler' = "enroll" => row' # "none"
    PROVE  Run'
<1>1. /\ run' = "none" /\ stop' = FALSE /\ todo' = {} /\ loop' = NoLoops
      /\ orphan' = o /\ notes' = LeftBehind
  BY DEF Abandon
<1>2. FleetTypeOK
  BY DEF Run
<1>3. /\ orphan' \in [Agents -> {"none", "fresh", "heard", "deaf"}]
      /\ notes' \in [Agents -> {"same", "left"}]
      /\ loop' \in [Agents -> {"none", "born", "running"} \cup Roles]
  BY <1>1, <1>2, OrphanTypes, LeftBehindNothing, NoLoopsType
<1>4. FleetTypeOK'
  <2>1. notes' \in [Agents -> {"same", "new", "left"}]
    BY <1>3
  <2> QED
    BY <1>1, <1>2, <1>3, <2>1 DEF FleetTypeOK
<1>5. Down'
  BY <1>1 DEF Down
<1>6. Carried'
  BY <1>1, <1>3 DEF Carried, NoNews, NoLoops
<1>7. FleetIsEnrolled'
  BY <1>1 DEF FleetIsEnrolled
<1> QED
  BY <1>4, <1>5, <1>6, <1>7 DEF Run

\* The steps of cmd_run that do not end it.
LEMMA RunStepKeeps ==
    ASSUME Run, RunStep, ~Fail
    PROVE  Run'
<1> USE DEF Run
<1>1. CASE Prepare
  <2>1. FleetTypeOK' /\ Down' /\ FleetIsEnrolled'
    BY <1>1 DEF Prepare, FleetTypeOK, Down, FleetIsEnrolled, desk,
       lessons, settings
  <2>2. Carried'
    BY <1>1 DEF Prepare, FleetTypeOK, Carried, NoNews, NoLoops, lessons
  <2> QED
    BY <2>1, <2>2
<1>2. CASE Announce
  <2>1. FleetTypeOK' /\ Down' /\ FleetIsEnrolled'
    BY <1>2 DEF Announce, FleetTypeOK, Down, FleetIsEnrolled, lessons,
       settings
  <2>2. Carried'
    BY <1>2 DEF Announce, Carried
  <2> QED
    BY <2>1, <2>2
<1>3. CASE Monitor
  <2>1. FleetTypeOK' /\ Down' /\ FleetIsEnrolled'
    BY <1>3 DEF Monitor, FleetTypeOK, Down, FleetIsEnrolled, desk,
       lessons, settings
  <2>2. Mine = {} => loop = NoLoops
    BY DEF Mine, NoLoops, FleetTypeOK
  <2>3. Carried'
    BY <1>3, <2>2 DEF Monitor, Carried, NoLoops
  <2> QED
    BY <2>1, <2>3
<1>4. CASE Terminate
  <2>1. FleetTypeOK' /\ Down' /\ FleetIsEnrolled'
    BY <1>4, NoLoopsType
    DEF Terminate, Terminated, FleetTypeOK, Down, FleetIsEnrolled, desk,
        lessons,
        settings
  <2>2. Carried'
    BY <1>4 DEF Terminate, Terminated, Carried, NoLoops
  <2> QED
    BY <2>1, <2>2
<1>5. CASE ReportStopped
  <2>1. notes' \in [Agents -> {"same", "left"}]
    BY <1>5, LeftBehindNothing DEF ReportStopped
  <2>2. notes' \in [Agents -> {"same", "new", "left"}]
    BY <2>1
  <2>3. FleetTypeOK' /\ Down' /\ FleetIsEnrolled'
    BY <1>5, <2>2 DEF ReportStopped, FleetTypeOK, Down, FleetIsEnrolled, settings
  <2>4. Carried'
    BY <1>5, <2>1 DEF ReportStopped, Carried, NoNews, NoLoops
  <2> QED
    BY <2>3, <2>4
<1>6. CASE WindUp
  <2>1. FleetTypeOK' /\ Down' /\ FleetIsEnrolled'
    BY <1>6 DEF WindUp, FleetTypeOK, Down, FleetIsEnrolled, desk,
       lessons, settings
  <2>2. Carried'
    BY <1>6 DEF WindUp, Carried, NoNews, NoLoops, lessons
  <2> QED
    BY <2>1, <2>2
<1>7. ASSUME NEW a \in Agents, SpawnAgent(a)
      PROVE  Run'
  <2>1. PICK r \in Roles : file' = [file EXCEPT ![a] = r]
    BY <1>7 DEF SpawnAgent
  <2>2. /\ run = "spawn" /\ todo' = todo \ {a}
        /\ loop' = [loop EXCEPT ![a] = "born"]
        /\ notes' \in {notes, [notes EXCEPT ![a] = "same"]}
        /\ UNCHANGED <<host, up, run, stop, orphan, source, plan, desk>>
    BY <1>7 DEF SpawnAgent, Seeded
  <2>3. file' \in [Agents -> Roles]
    BY <2>1 DEF FleetTypeOK
  <2>4. loop' \in [Agents -> {"none", "born", "running"} \cup Roles]
    BY <2>2 DEF FleetTypeOK
  <2>5. notes' \in [Agents -> {"same", "new", "left"}]
    BY <2>2 DEF FleetTypeOK
  <2>6. FleetTypeOK' /\ Down' /\ FleetIsEnrolled'
    BY <2>2, <2>3, <2>4, <2>5 DEF FleetTypeOK, Down, FleetIsEnrolled, desk
  <2>7. \A b \in todo' : loop'[b] = "none" /\ notes'[b] # "new"
    BY <2>2 DEF FleetTypeOK, Carried
  <2>8. Carried'
    BY <2>2, <2>7 DEF Carried
  <2> QED
    BY <2>6, <2>8
<1> QED
  BY <1>1, <1>2, <1>3, <1>4, <1>5, <1>6, <1>7 DEF RunStep

\* A launch or its end fails.
LEMMA FailStep ==
    ASSUME Run, Fail
    PROVE  Run'
<1>1. CASE host = "companion"
  <2>1. Abandon(LeftRunning) /\ ui' = "error"
    BY <1>1 DEF Fail
  <2> QED
    BY <2>1, AbandonStep DEF Fail, Run, FleetTypeOK, Down, settings
<1>2. CASE host # "companion"
  <2>1. Abandon(CutOff) /\ ui' = ui
    BY <1>2 DEF Fail
  <2> QED
    BY <2>1, AbandonStep DEF Fail, Run, FleetTypeOK, Down, settings
<1> QED
  BY <1>1, <1>2

\* A launch begins.
LEMMA LaunchedStep ==
    ASSUME Run, run = "none", up', Launched,
           UNCHANGED <<host, loop, orphan, lessons, settings>>,
           up' \in BOOLEAN,
           ui' \in {"idle", "starting", "running", "stopping", "stopped",
                    "error"},
           row' \in {"none", "stopped", "running", "error"},
           handler' = "idle",
           host = "hosted" => row' # "none"
    PROVE  Run'
<1>1. run' = "prepare" /\ todo' = Agents /\ stop' = FALSE
  BY DEF Launched
<1>2. FleetTypeOK'
  BY <1>1 DEF Run, FleetTypeOK, lessons, settings
<1>3. Down' /\ FleetIsEnrolled'
  BY <1>1 DEF Down, FleetIsEnrolled
<1>4. Carried'
  BY <1>1 DEF Run, Carried, NoNews, NoLoops, lessons
<1> QED
  BY <1>2, <1>3, <1>4 DEF Run

\* What the loops and the contributor's files do.
LEMMA LoopsStep ==
    ASSUME Run, NEW a \in Agents,
           \/ SyncTick(a) \/ LoopStarts(a)
           \/ LoopLearns(a) \/ LoopExits(a)
           \/ OrphanWorks(a) \/ OrphanEnds(a)
    PROVE  Run'
<1> USE DEF Run
<1>1. CASE SyncTick(a)
  BY <1>1 DEF SyncTick, FleetTypeOK, Down, Carried, NoNews, NoLoops,
     FleetIsEnrolled, desk, lessons
<1>2. CASE LoopReads(a)
  <2>1. FleetTypeOK' /\ Down' /\ FleetIsEnrolled'
    BY <1>2 DEF LoopReads, FleetTypeOK, Down, FleetIsEnrolled, desk,
       lessons,
       settings
  <2>2. Carried'
    BY <1>2 DEF LoopReads, FleetTypeOK, Carried, NoNews, NoLoops, lessons
  <2> QED
    BY <2>1, <2>2
<1>3. CASE LoopWrites(a)
  <2>1. FleetTypeOK' /\ Down' /\ FleetIsEnrolled'
    BY <1>3 DEF LoopWrites, FleetTypeOK, Down, FleetIsEnrolled, desk,
       lessons, Roles
  <2>2. Carried'
    BY <1>3 DEF LoopWrites, FleetTypeOK, Carried, NoNews, NoLoops, lessons,
       Roles
  <2> QED
    BY <2>1, <2>2
<1>4. CASE LoopLearns(a)
  <2>1. FleetTypeOK' /\ Down' /\ FleetIsEnrolled'
    BY <1>4 DEF LoopLearns, FleetTypeOK, Down, FleetIsEnrolled, desk,
       settings
  <2>2. Carried'
    BY <1>4 DEF LoopLearns, FleetTypeOK, Carried, NoNews, NoLoops
  <2> QED
    BY <2>1, <2>2
<1>5. CASE LoopExits(a)
  <2>1. FleetTypeOK' /\ Down' /\ FleetIsEnrolled'
    BY <1>5 DEF LoopExits, FleetTypeOK, Down, FleetIsEnrolled, desk,
       lessons,
       settings
  <2>2. Carried'
    BY <1>5 DEF LoopExits, FleetTypeOK, Carried, NoNews, NoLoops, lessons
  <2> QED
    BY <2>1, <2>2
<1>6. CASE OrphanWorks(a)
  <2>1. /\ UNCHANGED <<host, up, run, todo, stop, loop, source, plan, desk>>
        /\ \E o \in {"heard", orphan[a]} : orphan' \in
              {orphan, [orphan EXCEPT ![a] = o]}
        /\ file' = file \/ \E r \in Roles : file' = [file EXCEPT ![a] = r]
        /\ notes' \in {notes, [notes EXCEPT ![a] = "left"]}
    BY <1>6 DEF OrphanWorks
  <2>2. file' \in [Agents -> Roles]
    BY <2>1 DEF FleetTypeOK
  <2>3. orphan' \in [Agents -> {"none", "fresh", "heard", "deaf"}]
    BY <2>1 DEF FleetTypeOK
  <2>4. /\ notes' \in [Agents -> {"same", "new", "left"}]
        /\ \A b \in Agents : notes'[b] = "new" => notes[b] = "new"
    BY <2>1 DEF FleetTypeOK
  <2>5. FleetTypeOK' /\ Down' /\ FleetIsEnrolled'
    BY <2>1, <2>2, <2>3, <2>4 DEF FleetTypeOK, Down, FleetIsEnrolled, desk
  <2>6. Carried'
    BY <2>1, <2>4 DEF FleetTypeOK, Carried, NoNews
  <2> QED
    BY <2>5, <2>6
<1>7. CASE OrphanEnds(a)
  <2>1. FleetTypeOK' /\ Down' /\ FleetIsEnrolled'
    BY <1>7 DEF OrphanEnds, FleetTypeOK, Down, FleetIsEnrolled, desk,
       lessons,
       settings
  <2>2. Carried'
    BY <1>7 DEF OrphanEnds, Carried, NoNews, lessons
  <2> QED
    BY <2>1, <2>2
<1> QED
  BY <1>1, <1>2, <1>3, <1>4, <1>5, <1>6, <1>7 DEF LoopStarts

\* The plan and the shared notes file.
LEMMA FilesStep ==
    ASSUME Run, EditPlan \/ WriteSource
    PROVE  Run'
<1>1. /\ UNCHANGED <<host, up, run, todo, stop, loop, orphan, notes, file,
                     desk>>
      /\ plan' \in Roles /\ source' \in BOOLEAN
  BY DEF EditPlan, WriteSource, Run, FleetTypeOK, lessons, settings
<1>2. FleetTypeOK'
  BY <1>1 DEF Run, FleetTypeOK, desk
<1>3. Down' /\ Carried' /\ FleetIsEnrolled'
  BY <1>1 DEF Run, Down, Carried, NoNews, FleetIsEnrolled, desk
<1> QED
  BY <1>2, <1>3 DEF Run

\* The companion's requests and its death.
LEMMA CompanionStep ==
    ASSUME Run,
           \/ StartPressed \/ StopPressed
           \/ CompanionDies \/ CompanionStarts
    PROVE  Run'
<1>1. CASE StartPressed
  BY <1>1, LaunchedStep DEF StartPressed, Run, FleetTypeOK, Down
<1>2. CASE StopPressed
  BY <1>2 DEF StopPressed, Run, FleetTypeOK, Down, Carried, NoNews, NoLoops,
     FleetIsEnrolled, lessons, settings
<1>3. CASE CompanionDies
  BY <1>3, AbandonStep DEF CompanionDies, Run, FleetTypeOK, Down, settings
<1>4. CASE CompanionStarts
  BY <1>4 DEF CompanionStarts, Run, FleetTypeOK, Down, Carried, NoNews,
     NoLoops,
     FleetIsEnrolled, desk, lessons, settings
<1> QED
  BY <1>1, <1>2, <1>3, <1>4

\* Enroll and Purge stop what runs, or wait for it.
LEMMA SignalledStep ==
    ASSUME Run, Idle, Signalled, handler' \in {"enroll", "purge"},
           row' \in {"none", "stopped", "running", "error"},
           handler' = "enroll" => row' # "none",
           UNCHANGED <<host, up, source, settings, ui>>
    PROVE  Run'
<1>1. CASE run \in {"prepare", "spawn"}
  BY <1>1, AbandonStep DEF Signalled, Idle, Run, FleetTypeOK, settings
<1>2. CASE run \notin {"prepare", "spawn"}
  <2>1. stop' = (run # "none") /\ UNCHANGED <<run, todo, loop, orphan, notes>>
    BY <1>2 DEF Signalled
  <2>2. FleetTypeOK'
    BY <2>1 DEF Run, FleetTypeOK, settings
  <2>3. Down' /\ FleetIsEnrolled'
    BY <2>1 DEF Idle, Down, FleetIsEnrolled
  <2>4. Carried'
    BY <2>1 DEF Run, Carried, NoNews
  <2> QED
    BY <2>2, <2>3, <2>4 DEF Run
<1> QED
  BY <1>1, <1>2

\* The hosted runner's handlers, and the container's death and start.
LEMMA RunnerStep ==
    ASSUME Run,
           \/ HandlerStep \/ Enroll \/ Purge
           \/ ContainerDies \/ RunnerStarts
    PROVE  Run'
<1>0. FleetTypeOK /\ Down /\ FleetIsEnrolled
  BY DEF Run
<1>1. CASE KillFleet
  BY <1>0, <1>1, AbandonStep DEF KillFleet, FleetTypeOK, Down, settings,
     desk
<1>2. CASE EnrollLaunches
  <2>1. /\ run = "none" /\ handler = "enroll" /\ handler' = "idle" /\ up
        /\ UNCHANGED <<host, up, loop, orphan, lessons, settings, ui>>
    BY <1>0, <1>2 DEF EnrollLaunches, FleetTypeOK, Down
  <2>2. CASE Launched /\ row' \in {"running", "error", row}
    BY <1>0, <2>1, <2>2, LaunchedStep DEF Down, FleetTypeOK
  <2>3. CASE row' \in {"error", row} /\ UNCHANGED <<run, todo, stop>>
    BY <2>1, <2>3 DEF Run, FleetTypeOK, Down, Carried, NoNews, NoLoops,
       FleetIsEnrolled, lessons, settings
  <2> QED
    BY <1>2, <2>2, <2>3 DEF EnrollLaunches
<1>3. CASE PurgeEnds
  BY <1>3 DEF PurgeEnds, Run, FleetTypeOK, Down, Carried, NoNews, NoLoops,
     FleetIsEnrolled, lessons, settings
<1>4. CASE Enroll
  BY <1>0, <1>4, SignalledStep DEF Enroll, FleetTypeOK
<1>5. CASE Purge
  BY <1>0, <1>5, SignalledStep DEF Purge, FleetTypeOK
<1>6. CASE ContainerDies
  BY <1>0, <1>6, AbandonStep DEF ContainerDies, FleetTypeOK, settings
<1>7. CASE RunnerStarts
  <2>1. /\ run = "none" /\ handler = "idle" /\ up' = TRUE /\ handler' = "idle"
        /\ host = "hosted"
        /\ UNCHANGED <<host, loop, orphan, lessons, settings, ui,
                       handler>>
    BY <1>0, <1>7 DEF RunnerStarts, Down
  <2>2. CASE Resumable /\ Launched /\ UNCHANGED row
    BY <1>0, <2>1, <2>2, LaunchedStep DEF Resumable, FleetTypeOK
  <2>3. CASE row' \in {row, "error"} /\ UNCHANGED <<run, todo, stop>>
    BY <2>1, <2>3 DEF Run, FleetTypeOK, Down, Carried, NoNews, NoLoops,
       FleetIsEnrolled, lessons, settings
  <2> QED
    BY <1>7, <2>2, <2>3 DEF RunnerStarts
<1> QED
  BY <1>1, <1>2, <1>3, <1>4, <1>5, <1>6, <1>7 DEF HandlerStep

LEMMA FleetHolds == FleetSpec => []Run
<1>1. FleetInit => Run
  <2> SUFFICES ASSUME FleetInit PROVE Run
    OBVIOUS
  <2>1. /\ orphan \in [Agents -> {"none", "fresh", "heard", "deaf"}]
        /\ notes \in [Agents -> {"same", "new", "left"}]
        /\ plan \in Roles /\ file \in [Agents -> Roles]
        /\ loop \in [Agents -> {"none", "born", "running"} \cup Roles]
    BY NoLoopsType DEF FleetInit, NoLoops, Roles
  <2>2. FleetTypeOK
    BY <2>1 DEF FleetInit, FleetTypeOK
  <2>3. Down /\ Carried /\ FleetIsEnrolled
    BY DEF FleetInit, Down, Carried, NoNews, FleetIsEnrolled
  <2> QED
    BY <2>2, <2>3 DEF Run
<1>2. Run /\ [FleetNext]_fleetVars => Run'
  <2> SUFFICES ASSUME Run, [FleetNext]_fleetVars PROVE Run'
    OBVIOUS
  <2>1. CASE UNCHANGED fleetVars
    BY <2>1 DEF fleetVars, Run, FleetTypeOK, Down, Carried, NoNews, NoLoops,
       FleetIsEnrolled, desk, lessons, settings
  <2> QED
    BY <2>1, RunStepKeeps, FailStep, LoopsStep, FilesStep, CompanionStep,
       RunnerStep
    DEF FleetNext, RunStep
<1> QED
  BY <1>1, <1>2, PTL DEF FleetSpec

\* The hosted runner runs a fleet only for a contributor who has an enrolment,
\* whatever fails, restarts or is removed, and whoever else is enrolled.
THEOREM HostedIsEnrolled == FleetSpec => []FleetIsEnrolled
  BY FleetHolds, PTL DEF Run

\* A lesson a run could still carry back is not overwritten by a later launch.
THEOREM LessonsAreKept == FleetSpec => LessonsKept
<1>1. ASSUME Run, [FleetNext]_fleetVars, NEW a \in Agents,
             notes[a] = "new", notes'[a] = "same"
      PROVE  run = "report"
  <2> USE <1>1 
  <2>1. ASSUME NEW b \in Agents, SpawnAgent(b)
        PROVE  FALSE
    BY <2>1 DEF SpawnAgent, Seeded, Run, FleetTypeOK, Carried
  <2>2. ASSUME NEW o, Abandon(o)
        PROVE  FALSE
    BY <2>2 DEF Abandon, LeftBehind
  <2>3. notes' = notes => FALSE
    OBVIOUS
  <2>4. CASE RunStep
    BY <2>1, <2>2, <2>3, <2>4
    DEF RunStep, Prepare, Fail, Announce, Monitor, Terminate,
        ReportStopped, WindUp,
        lessons
  <2>5. CASE HandlerStep
    BY <2>2, <2>3, <2>5
    DEF HandlerStep, KillFleet, EnrollLaunches, PurgeEnds, lessons
  <2>6. ASSUME NEW b \in Agents,
               \/ SyncTick(b) \/ LoopStarts(b)
               \/ LoopLearns(b) \/ LoopExits(b)
               \/ OrphanWorks(b) \/ OrphanEnds(b)
        PROVE  FALSE
    BY <2>6
    DEF SyncTick, LoopStarts, LoopReads, LoopWrites, LoopLearns,
        LoopExits,
        OrphanWorks, OrphanEnds, lessons, Run, FleetTypeOK
  <2>7. CASE \/ EditPlan \/ WriteSource \/ StartPressed \/ StopPressed
             \/ CompanionDies \/ CompanionStarts
    BY <2>2, <2>3, <2>7
    DEF EditPlan, WriteSource, StartPressed, StopPressed,
        CompanionDies,
        CompanionStarts, lessons
  <2>8. CASE Enroll \/ Purge \/ ContainerDies \/ RunnerStarts
    BY <2>2, <2>3, <2>8
    DEF Enroll, Purge, Signalled, ContainerDies, RunnerStarts,
        lessons
  <2>9. CASE UNCHANGED fleetVars
    BY <2>3, <2>9 DEF fleetVars, lessons
  <2> QED
    BY <2>4, <2>5, <2>6, <2>7, <2>8, <2>9 DEF FleetNext
<1>2. Run /\ [FleetNext]_fleetVars =>
        \A a \in Agents :
           notes[a] = "new" /\ notes'[a] = "same" => run = "report"
  BY <1>1
<1> QED
  BY <1>2, FleetHolds, PTL DEF FleetSpec, LessonsKept
=============================================================================
