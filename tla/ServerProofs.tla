---------------------------- MODULE ServerProofs -----------------------------
(***************************************************************************)
(* Theorems about what is shared and limited: the API's queue of events    *)
(* and its pool of connections through start, service and shutdown         *)
(* (WebServer); the requests that the source adapters make of a site       *)
(* (SiteClients), and how they are spaced (RequestPace); and the lists     *)
(* that the API hands out page by page (Pages). They hold for every number *)
(* of requests, connections, callers and rows and every limit.             *)
(***************************************************************************)
EXTENDS WebServer, SiteClients, RequestPace, Pages, FiniteSetTheorems, WellFoundedInduction, TLAPS

-----------------------------------------------------------------------------
(***************************************************************************)
(* Sequences of events in the order of their numbers.                      *)
(***************************************************************************)
Rising(s) == \A i, j \in 1..Len(s) : i < j => s[i] < s[j]

Below(A, B) == \A a \in A, b \in B : a < b

LEMMA SetOfEmpty == ToSet(<<>>) = {}
  BY DEF ToSet

LEMMA SetOfSeq ==
    ASSUME NEW s \in Seq(Nat)
    PROVE  ToSet(s) \subseteq Nat /\ (\A i \in 1..Len(s) : s[i] \in ToSet(s))
           /\ \A x \in ToSet(s) : \E i \in 1..Len(s) : s[i] = x
  BY DEF ToSet

LEMMA SetOfAppend ==
    ASSUME NEW s \in Seq(Nat), NEW e \in Nat
    PROVE  Append(s, e) \in Seq(Nat) /\ ToSet(Append(s, e)) = ToSet(s) \cup {e}
<1>1. /\ Len(Append(s, e)) = Len(s) + 1 /\ Len(s) \in Nat
      /\ \A i \in 1..Len(s) : Append(s, e)[i] = s[i]
      /\ Append(s, e)[Len(s) + 1] = e
      /\ DOMAIN Append(s, e) = 1..(Len(s) + 1) /\ DOMAIN s = 1..Len(s)
  OBVIOUS
<1> QED BY <1>1 DEF ToSet

LEMMA SetOfConcat ==
    ASSUME NEW s \in Seq(Nat), NEW t \in Seq(Nat)
    PROVE  s \o t \in Seq(Nat) /\ ToSet(s \o t) = ToSet(s) \cup ToSet(t)
<1>1. /\ Len(s \o t) = Len(s) + Len(t) /\ Len(s) \in Nat /\ Len(t) \in Nat
      /\ \A i \in 1..Len(s) : (s \o t)[i] = s[i]
      /\ \A i \in 1..Len(t) : (s \o t)[Len(s) + i] = t[i]
      /\ DOMAIN (s \o t) = 1..(Len(s) + Len(t)) /\ DOMAIN s = 1..Len(s) /\ DOMAIN t = 1..Len(t)
      /\ s \o t \in Seq(Nat)
  OBVIOUS
<1>2. ToSet(s \o t) \subseteq ToSet(s) \cup ToSet(t)
  <2>1. ASSUME NEW i \in 1..(Len(s) + Len(t)) PROVE (s \o t)[i] \in ToSet(s) \cup ToSet(t)
    <3>1. CASE i \in 1..Len(s)
      BY <1>1, <3>1 DEF ToSet
    <3>2. CASE i \notin 1..Len(s)
      <4>1. i - Len(s) \in 1..Len(t) /\ Len(s) + (i - Len(s)) = i
        BY <1>1, <3>2
      <4> QED BY <1>1, <4>1 DEF ToSet
    <3> QED BY <3>1, <3>2
  <2> QED BY <1>1, <2>1 DEF ToSet
<1>3. ToSet(s) \subseteq ToSet(s \o t)
  BY <1>1 DEF ToSet
<1>4. ToSet(t) \subseteq ToSet(s \o t)
  <2>1. \A i \in 1..Len(t) : Len(s) + i \in 1..(Len(s) + Len(t))
    BY <1>1
  <2> QED BY <1>1, <2>1 DEF ToSet
<1> QED BY <1>1, <1>2, <1>3, <1>4

LEMMA RisingAppend ==
    ASSUME NEW s \in Seq(Nat), NEW e \in Nat, Rising(s), Below(ToSet(s), {e})
    PROVE  Rising(Append(s, e))
  BY SetOfSeq DEF Rising, Below

LEMMA RisingConcat ==
    ASSUME NEW s \in Seq(Nat), NEW t \in Seq(Nat), Rising(s), Rising(t), Below(ToSet(s), ToSet(t))
    PROVE  Rising(s \o t)
<1>1. /\ Len(s \o t) = Len(s) + Len(t) /\ Len(s) \in Nat /\ Len(t) \in Nat
      /\ \A i \in 1..Len(s) : (s \o t)[i] = s[i]
      /\ \A i \in (Len(s) + 1)..(Len(s) + Len(t)) : (s \o t)[i] = t[i - Len(s)]
  OBVIOUS
<1>2. ASSUME NEW i \in 1..(Len(s) + Len(t)), NEW j \in 1..(Len(s) + Len(t)), i < j
      PROVE  (s \o t)[i] < (s \o t)[j]
  <2>1. CASE j <= Len(s)
    BY <1>1, <1>2, <2>1 DEF Rising
  <2>2. CASE i > Len(s)
    <3>1. /\ i - Len(s) \in 1..Len(t) /\ j - Len(s) \in 1..Len(t) /\ i - Len(s) < j - Len(s)
      BY <1>1, <1>2, <2>2
    <3>2. t[i - Len(s)] < t[j - Len(s)]
      BY <3>1 DEF Rising
    <3> QED BY <1>1, <1>2, <2>2, <3>2
  <2>3. CASE i <= Len(s) /\ j > Len(s)
    <3>1. i \in 1..Len(s) /\ j - Len(s) \in 1..Len(t)
      BY <1>1, <1>2, <2>3
    <3>2. s[i] < t[j - Len(s)]
      BY <3>1, SetOfSeq DEF Below
    <3> QED BY <1>1, <1>2, <2>3, <3>1, <3>2
  <2> QED BY <1>1, <2>1, <2>2, <2>3, SMTT(40)
<1> QED BY <1>1, <1>2 DEF Rising

-----------------------------------------------------------------------------
(***************************************************************************)
(* The queue: the flusher's rows are older than the rows of the final      *)
(* flush, and those than the buffer, so that neither order nor rows are    *)
(* lost when a flush ends, fails or is cut.                                *)
(***************************************************************************)
FlusherAt == {"none", "waiting", "opening", "writing", "done"}
StopperAt == {"none", "draining", "opening", "writing", "stopped"}

QueueShape ==
  /\ issued \in Nat /\ stopAt \in Nat /\ stopAt <= issued
  /\ buffer \in Seq(Nat) /\ table \in Seq(Nat)
  /\ written \subseteq Nat /\ dropped \subseteq Nat /\ cut \subseteq Nat
  /\ flusher \in [at : FlusherAt, conn : BOOLEAN, rows : Seq(Nat)]
  /\ flusher.at # "writing" => flusher.rows = <<>>
  /\ stopper \in [at : StopperAt, rows : Seq(Nat)]
  /\ stopper.at \notin {"opening", "writing"} => stopper.rows = <<>>
  /\ stopper.at \in {"opening", "writing", "stopped"} => flusher.at \in {"none", "done"}

\* Rows of the table, of the flusher, of the final flush and of the buffer, in
\* the order of the calls.
Ordered(t, f, d, b) ==
  /\ Rising(t) /\ Rising(f) /\ Rising(d) /\ Rising(b)
  /\ Below(ToSet(t), ToSet(f)) /\ Below(ToSet(t), ToSet(d)) /\ Below(ToSet(t), ToSet(b))
  /\ Below(ToSet(f), ToSet(d)) /\ Below(ToSet(f), ToSet(b)) /\ Below(ToSet(d), ToSet(b))

\* The first n events are in one of six places, and none is lost or counted twice.
Placed(n, T, F, D, B, w, lost, c) ==
  /\ 1..n = B \cup F \cup D \cup w \cup lost \cup c
  /\ w \subseteq T /\ T \subseteq w \cup c
  /\ lost \cap (T \cup B \cup F \cup D) = {}

QueueOrder == Ordered(table, flusher.rows, stopper.rows, buffer)

QueuePlaces ==
  /\ Placed(issued, ToSet(table), ToSet(flusher.rows), ToSet(stopper.rows), ToSet(buffer),
            written, dropped, cut)
  /\ stopper.at \in {"opening", "writing", "stopped"} =>
        1..stopAt \subseteq written \cup dropped \cup cut \cup ToSet(stopper.rows)

QueueInv == QueueShape /\ QueueOrder /\ QueuePlaces

\* The parts of the queue that a step moves events between.
Flushed == ToSet(flusher.rows)
Draining == ToSet(stopper.rows)
Buffered == ToSet(buffer)
Tabled == ToSet(table)

LEMMA QueueInvTells == QueueInv => EventsAreAccountedFor
<1> SUFFICES ASSUME QueueInv PROVE EventsAreAccountedFor
  OBVIOUS
<1>1. /\ table \in Seq(Nat) /\ buffer \in Seq(Nat)
      /\ flusher.rows \in Seq(Nat) /\ stopper.rows \in Seq(Nat)
      /\ stopper.at = "stopped" => stopper.rows = <<>>
  BY DEF QueueInv, QueueShape
<1>2. \A i, j \in DOMAIN table : i < j => table[i] < table[j]
  <2>1. DOMAIN table = 1..Len(table) /\ Rising(table)
    BY <1>1 DEF QueueInv, QueueOrder, Ordered
  <2> QED BY <2>1 DEF Rising
<1>3. Tabled \cap (Flushed \cup Draining \cup Buffered) = {}
  <2>1. Tabled \subseteq Nat
    BY <1>1, SetOfSeq DEF Tabled
  <2> QED BY <2>1 DEF QueueInv, QueueOrder, Ordered, Below, Tabled, Flushed, Draining, Buffered
<1>4. stopper.at = "stopped" => 1..stopAt \subseteq written \cup dropped \cup cut
  BY <1>1, SetOfEmpty DEF QueueInv, QueuePlaces
<1> QED BY <1>2, <1>3, <1>4
        DEF QueueInv, QueuePlaces, Placed, EventsAreAccountedFor, InFlight, Tabled, Flushed, Draining, Buffered

LEMMA QueueInitInv == QueueInit => QueueInv
<1> SUFFICES ASSUME QueueInit PROVE QueueInv
  OBVIOUS
<1> USE DEF QueueInit
<1>1. QueueShape
  <2>1. <<>> \in Seq(Nat)
    OBVIOUS
  <2> QED BY <2>1 DEF QueueShape, FlusherAt, StopperAt
<1>2. QueueOrder
  BY SetOfEmpty DEF QueueOrder, Ordered, Rising, Below
<1>3. QueuePlaces
  BY SetOfEmpty DEF QueuePlaces, Placed
<1> QED BY <1>1, <1>2, <1>3 DEF QueueInv

\* What the steps need to know of the state before them.
LEMMA QueueFacts ==
    ASSUME QueueInv
    PROVE  /\ issued \in Nat /\ stopAt \in Nat /\ stopAt <= issued
           /\ buffer \in Seq(Nat) /\ table \in Seq(Nat)
           /\ flusher.rows \in Seq(Nat) /\ stopper.rows \in Seq(Nat)
           /\ flusher.conn \in BOOLEAN
           /\ Flushed \subseteq 1..issued /\ Draining \subseteq 1..issued
           /\ Buffered \subseteq 1..issued /\ Tabled \subseteq 1..issued
<1>1. /\ issued \in Nat /\ stopAt \in Nat /\ stopAt <= issued
      /\ buffer \in Seq(Nat) /\ table \in Seq(Nat)
      /\ flusher.rows \in Seq(Nat) /\ stopper.rows \in Seq(Nat)
      /\ flusher.conn \in BOOLEAN
  BY DEF QueueInv, QueueShape
<1>2. /\ Flushed \subseteq 1..issued /\ Draining \subseteq 1..issued
      /\ Buffered \subseteq 1..issued /\ Tabled \subseteq 1..issued
  BY DEF QueueInv, QueuePlaces, Placed, Flushed, Draining, Buffered, Tabled
<1> QED BY <1>1, <1>2

LEMMA OrderOfFlushed ==
    ASSUME NEW t \in Seq(Nat), NEW f \in Seq(Nat), NEW d \in Seq(Nat), NEW b \in Seq(Nat),
           Ordered(t, f, d, b)
    PROVE  Ordered(t, <<>>, d, b) /\ Ordered(t \o f, <<>>, d, b)
<1>1. Rising(<<>>) /\ ToSet(<<>>) = {}
  BY SetOfEmpty DEF Rising
<1>2. Rising(t \o f) /\ ToSet(t \o f) = ToSet(t) \cup ToSet(f)
  BY SetOfConcat, RisingConcat DEF Ordered
<1> QED BY <1>1, <1>2 DEF Ordered, Below

LEMMA OrderOfDrained ==
    ASSUME NEW t \in Seq(Nat), NEW d \in Seq(Nat), NEW b \in Seq(Nat), Ordered(t, <<>>, d, b)
    PROVE  Ordered(t, <<>>, <<>>, b) /\ Ordered(t \o d, <<>>, <<>>, b)
<1>1. Rising(<<>>) /\ ToSet(<<>>) = {}
  BY SetOfEmpty DEF Rising
<1>2. Rising(t \o d) /\ ToSet(t \o d) = ToSet(t) \cup ToSet(d)
  BY SetOfConcat, RisingConcat DEF Ordered
<1> QED BY <1>1, <1>2 DEF Ordered, Below

LEMMA OrderOfTaken ==
    ASSUME NEW t \in Seq(Nat), NEW b \in Seq(Nat), Ordered(t, <<>>, <<>>, b)
    PROVE  Ordered(t, b, <<>>, <<>>) /\ Ordered(t, <<>>, b, <<>>)
<1>1. ToSet(<<>>) = {}
  BY SetOfEmpty
<1> QED BY <1>1 DEF Ordered, Below

LEMMA OrderOfAppended ==
    ASSUME NEW t \in Seq(Nat), NEW f \in Seq(Nat), NEW d \in Seq(Nat), NEW b \in Seq(Nat),
           NEW n \in Nat, Ordered(t, f, d, b),
           ToSet(t) \subseteq 1..n, ToSet(f) \subseteq 1..n, ToSet(d) \subseteq 1..n,
           ToSet(b) \subseteq 1..n
    PROVE  Ordered(t, f, d, Append(b, n + 1))
<1>1. ToSet(Append(b, n + 1)) = ToSet(b) \cup {n + 1}
  BY SetOfAppend
<1>2. Below(ToSet(t), {n + 1}) /\ Below(ToSet(f), {n + 1}) /\ Below(ToSet(d), {n + 1})
      /\ Below(ToSet(b), {n + 1})
  BY DEF Below
<1>3. Rising(Append(b, n + 1))
  BY <1>2, RisingAppend DEF Ordered
<1> QED BY <1>1, <1>2, <1>3 DEF Ordered, Below

LEMMA BelowIsApart ==
    ASSUME NEW A, NEW B, Below(A, B), A \subseteq Nat
    PROVE  A \cap B = {}
<1>1. ASSUME NEW x \in A, x \in B PROVE FALSE
  <2>1. x < x /\ x \in Nat
    BY <1>1 DEF Below
  <2> QED BY <2>1
<1> QED BY <1>1

LEMMA OrderKeepsApart ==
    ASSUME NEW t \in Seq(Nat), NEW f \in Seq(Nat), NEW d \in Seq(Nat), NEW b \in Seq(Nat),
           Ordered(t, f, d, b)
    PROVE  /\ ToSet(t) \cap (ToSet(f) \cup ToSet(d) \cup ToSet(b)) = {}
           /\ ToSet(f) \cap (ToSet(d) \cup ToSet(b)) = {}
           /\ ToSet(d) \cap ToSet(b) = {}
<1>1. ToSet(t) \subseteq Nat /\ ToSet(f) \subseteq Nat /\ ToSet(d) \subseteq Nat
  BY SetOfSeq
<1>2. /\ ToSet(t) \cap ToSet(f) = {} /\ ToSet(t) \cap ToSet(d) = {} /\ ToSet(t) \cap ToSet(b) = {}
      /\ ToSet(f) \cap ToSet(d) = {} /\ ToSet(f) \cap ToSet(b) = {} /\ ToSet(d) \cap ToSet(b) = {}
  BY <1>1, BelowIsApart DEF Ordered
<1> QED BY <1>2

\* What becomes of the rows of a flush: written, counted or cut.
LEMMA PlacesOfFlushed ==
    ASSUME NEW n, NEW T, NEW F, NEW D, NEW B, NEW w, NEW lost, NEW c,
           Placed(n, T, F, D, B, w, lost, c),
           T \cap F = {}, F \cap (D \cup B) = {}
    PROVE  /\ Placed(n, T \cup F, {}, D, B, w \cup F, lost, c)
           /\ Placed(n, T, {}, D, B, w, lost \cup F, c)
           /\ Placed(n, T, {}, D, B, w, lost, c \cup F)
           /\ Placed(n, T \cup F, {}, D, B, w, lost, c \cup F)
  BY DEF Placed

LEMMA PlacesOfDrained ==
    ASSUME NEW n, NEW T, NEW D, NEW B, NEW w, NEW lost, NEW c,
           Placed(n, T, {}, D, B, w, lost, c), T \cap D = {}, D \cap B = {}
    PROVE  /\ Placed(n, T \cup D, {}, {}, B, w \cup D, lost, c)
           /\ Placed(n, T, {}, {}, B, w, lost \cup D, c)
           /\ Placed(n, T, {}, {}, B, w, lost, c \cup D)
  BY DEF Placed

LEMMA PlacesOfTaken ==
    ASSUME NEW n, NEW T, NEW B, NEW w, NEW lost, NEW c, Placed(n, T, {}, {}, B, w, lost, c)
    PROVE  Placed(n, T, B, {}, {}, w, lost, c) /\ Placed(n, T, {}, B, {}, w, lost, c)
  BY DEF Placed

LEMMA PlacesOfIssued ==
    ASSUME NEW n \in Nat, NEW T, NEW F, NEW D, NEW B, NEW w, NEW lost, NEW c,
           Placed(n, T, F, D, B, w, lost, c), T \subseteq 1..n
    PROVE  /\ Placed(n + 1, T, F, D, B \cup {n + 1}, w, lost, c)
           /\ Placed(n + 1, T, F, D, B, w, lost \cup {n + 1}, c)
<1>1. 1..(n + 1) = (1..n) \cup {n + 1} /\ n + 1 \notin 1..n
  OBVIOUS
<1>2. 1..n = B \cup F \cup D \cup w \cup lost \cup c
  BY DEF Placed
<1> QED BY <1>1, <1>2 DEF Placed

-----------------------------------------------------------------------------
(***************************************************************************)
(* The queue's steps.                                                      *)
(***************************************************************************)
QueueStep == Enqueue \/ StartFlusher \/ Stop \/ FlusherStep \/ StopperStep

LEMMA FlusherKeepsShape == QueueInv /\ FlusherStep => QueueShape'
<1> SUFFICES ASSUME QueueInv, FlusherStep PROVE QueueShape'
  OBVIOUS
<1> USE DEF FlusherAt, StopperAt
<1>1. QueueShape
  BY DEF QueueInv
<1>2. /\ flusher \in [at : FlusherAt, conn : BOOLEAN, rows : Seq(Nat)]
      /\ buffer \in Seq(Nat) /\ table \in Seq(Nat) /\ <<>> \in Seq(Nat)
      /\ table \o flusher.rows \in Seq(Nat)
      /\ written \subseteq Nat /\ dropped \subseteq Nat
      /\ ToSet(flusher.rows) \subseteq Nat
      /\ flusher.at \notin {"none", "done"} => stopper.at \in {"none", "draining"}
  BY <1>1, SetOfSeq DEF QueueShape
<1>3. ASSUME NEW conn \in BOOLEAN, EndRound(conn), buffer' = buffer
      PROVE  /\ flusher' \in [at : FlusherAt, conn : BOOLEAN, rows : Seq(Nat)]
             /\ flusher'.rows = <<>>
  BY <1>2, <1>3 DEF EndRound
<1>4. ASSUME TakeRows
      PROVE  /\ flusher' \in [at : FlusherAt, conn : BOOLEAN, rows : Seq(Nat)]
             /\ flusher'.at = "writing" /\ buffer' \in Seq(Nat)
  BY <1>2, <1>4 DEF TakeRows
<1>5. CASE WakeIdle
  BY <1>1, <1>2, <1>3, <1>5 DEF WakeIdle, Wakes, QueueShape
<1>6. CASE WakeConnected
  BY <1>1, <1>2, <1>4, <1>6 DEF WakeConnected, Wakes, QueueShape
<1>7. CASE WakeUnconnected
  BY <1>1, <1>2, <1>7 DEF WakeUnconnected, Wakes, QueueShape
<1>8. CASE FlusherOpens
  BY <1>1, <1>2, <1>4, <1>8 DEF FlusherOpens, QueueShape
<1>9. CASE FlusherOpenFails
  BY <1>1, <1>2, <1>3, <1>9 DEF FlusherOpenFails, QueueShape
<1>10. CASE FlusherWrites
  BY <1>1, <1>2, <1>3, <1>10 DEF FlusherWrites, QueueShape
<1>11. CASE FlusherWriteFails
  BY <1>1, <1>2, <1>3, <1>11 DEF FlusherWriteFails, QueueShape
<1> QED BY <1>5, <1>6, <1>7, <1>8, <1>9, <1>10, <1>11 DEF FlusherStep

LEMMA OthersKeepShape ==
    QueueInv /\ (Enqueue \/ StartFlusher \/ Stop \/ StopperStep) => QueueShape'
<1> SUFFICES ASSUME QueueInv, Enqueue \/ StartFlusher \/ Stop \/ StopperStep PROVE QueueShape'
  OBVIOUS
<1> USE DEF FlusherAt, StopperAt
<1>1. QueueShape
  BY DEF QueueInv
<1>2. /\ stopper \in [at : StopperAt, rows : Seq(Nat)]
      /\ buffer \in Seq(Nat) /\ table \in Seq(Nat) /\ <<>> \in Seq(Nat)
      /\ table \o flusher.rows \in Seq(Nat) /\ table \o stopper.rows \in Seq(Nat)
      /\ ToSet(flusher.rows) \subseteq Nat /\ ToSet(stopper.rows) \subseteq Nat
      /\ issued + 1 \in Nat /\ Append(buffer, issued + 1) \in Seq(Nat)
  BY <1>1, SetOfSeq DEF QueueShape
<1>3. ASSUME FinalFlush
      PROVE  /\ stopper' \in [at : StopperAt, rows : Seq(Nat)] /\ buffer' \in Seq(Nat)
             /\ stopper'.at \notin {"opening", "writing"} => stopper'.rows = <<>>
  BY <1>2, <1>3 DEF FinalFlush
<1>4. CASE Enqueue
  <2>1. /\ issued' \in Nat /\ stopAt \in Nat /\ stopAt <= issued'
    BY <1>1, <1>2, <1>4 DEF Enqueue, QueueShape
  <2>2. buffer' \in Seq(Nat) /\ dropped' \subseteq Nat
    BY <1>1, <1>2, <1>4, <2>1 DEF Enqueue, QueueShape
  <2>3. UNCHANGED <<table, written, flusher, stopper, stopAt, cut>>
    BY <1>4 DEF Enqueue
  <2> QED BY <1>1, <2>1, <2>2, <2>3 DEF QueueShape
<1>5. CASE StartFlusher
  BY <1>1, <1>2, <1>5 DEF StartFlusher, QueueShape
<1>6. CASE Stop
  <2>1. /\ stopAt' = issued /\ UNCHANGED <<issued, table, written, dropped, flusher, cut>>
        /\ stopper.at = "none"
    BY <1>6 DEF Stop
  <2>2. CASE flusher.at \in {"none", "done"}
    <3>1. FinalFlush
      BY <1>6, <2>2 DEF Stop
    <3> QED BY <1>1, <1>3, <2>1, <2>2, <3>1, SMTT(40) DEF QueueShape
  <2>3. CASE flusher.at \notin {"none", "done"}
    <3>1. stopper' = [stopper EXCEPT !.at = "draining"] /\ buffer' = buffer
      BY <1>6, <2>3 DEF Stop
    <3>2. stopper' \in [at : StopperAt, rows : Seq(Nat)] /\ stopper'.at = "draining"
          /\ stopper'.rows = <<>>
      BY <1>1, <1>2, <2>1, <3>1 DEF QueueShape
    <3> QED BY <1>1, <1>2, <2>1, <3>1, <3>2 DEF QueueShape
  <2> QED BY <2>2, <2>3
<1>7. CASE Drained
  BY <1>1, <1>2, <1>3, <1>7 DEF Drained, QueueShape
<1>8. CASE CutFlusher
  BY <1>1, <1>2, <1>3, <1>8 DEF CutFlusher, QueueShape
<1>9. CASE StopperOpens
  BY <1>1, <1>2, <1>9 DEF StopperOpens, QueueShape
<1>10. CASE StopperOpenFails
  BY <1>1, <1>2, <1>10 DEF StopperOpenFails, QueueShape
<1>11. CASE StopperWrites
  BY <1>1, <1>2, <1>11 DEF StopperWrites, QueueShape
<1>12. CASE StopperWriteFails
  BY <1>1, <1>2, <1>12 DEF StopperWriteFails, QueueShape
<1> QED BY <1>4, <1>5, <1>6, <1>7, <1>8, <1>9, <1>10, <1>11, <1>12 DEF StopperStep

LEMMA FlusherKeepsInv == QueueInv /\ FlusherStep => QueueInv'
<1> SUFFICES ASSUME QueueInv, FlusherStep PROVE QueueInv'
  OBVIOUS
<1> DEFINE T == ToSet(table)  F == ToSet(flusher.rows)  D == ToSet(stopper.rows)
           B == ToSet(buffer)
<1>1. /\ table \in Seq(Nat) /\ buffer \in Seq(Nat) /\ <<>> \in Seq(Nat)
      /\ flusher.rows \in Seq(Nat) /\ stopper.rows \in Seq(Nat)
      /\ Ordered(table, flusher.rows, stopper.rows, buffer)
      /\ Placed(issued, T, F, D, B, written, dropped, cut)
  BY QueueFacts DEF QueueInv, QueueOrder, QueuePlaces
<1>2. T \cap F = {} /\ F \cap (D \cup B) = {}
  BY <1>1, OrderKeepsApart
<1>3. stopper'.at \notin {"opening", "writing", "stopped"} /\ UNCHANGED <<stopper, issued, cut>>
      /\ stopper.rows = <<>>
  BY DEF QueueInv, QueueShape, FlusherStep, WakeIdle, WakeConnected, WakeUnconnected, Wakes,
         FlusherOpens, FlusherOpenFails, FlusherWrites, FlusherWriteFails
<1>4. ToSet(<<>>) = {} /\ D = {}
  BY <1>3, SetOfEmpty
<1>5. CASE WakeIdle \/ WakeUnconnected \/ FlusherOpenFails
  <2>1. flusher'.rows = <<>> /\ flusher.rows = <<>> /\ UNCHANGED <<buffer, table, written, dropped>>
    BY <1>5 DEF WakeIdle, WakeUnconnected, FlusherOpenFails, Wakes, EndRound, QueueInv, QueueShape
  <2>2. Ordered(table', flusher'.rows, stopper'.rows, buffer')
    BY <1>1, <1>3, <2>1
  <2>3. Placed(issued', ToSet(table'), ToSet(flusher'.rows), ToSet(stopper'.rows),
               ToSet(buffer'), written', dropped', cut')
    BY <1>1, <1>3, <2>1
  <2> QED BY <1>3, <2>2, <2>3, FlusherKeepsShape DEF QueueInv, QueueOrder, QueuePlaces
<1>6. CASE WakeConnected \/ FlusherOpens
  <2>1. /\ flusher.rows = <<>> /\ flusher'.rows = buffer /\ buffer' = <<>>
        /\ UNCHANGED <<table, written, dropped>>
    BY <1>6, SMTT(40) DEF WakeConnected, FlusherOpens, Wakes, TakeRows, QueueInv, QueueShape
  <2>2. Ordered(table', flusher'.rows, stopper'.rows, buffer')
    BY <1>1, <1>3, <2>1, OrderOfTaken
  <2>3. Placed(issued', ToSet(table'), ToSet(flusher'.rows), ToSet(stopper'.rows),
               ToSet(buffer'), written', dropped', cut')
    BY <1>1, <1>3, <1>4, <2>1, PlacesOfTaken
  <2> QED BY <1>3, <2>2, <2>3, FlusherKeepsShape DEF QueueInv, QueueOrder, QueuePlaces
<1>7. CASE FlusherWrites \/ FlusherWriteFails
  <2>1. /\ flusher'.rows = <<>> /\ buffer' = buffer
        /\ \/ table' = table \o flusher.rows /\ written' = written \cup F /\ dropped' = dropped
           \/ table' = table /\ written' = written /\ dropped' = dropped \cup F
    BY <1>7 DEF FlusherWrites, FlusherWriteFails, EndRound
  <2>2. Ordered(table', flusher'.rows, stopper'.rows, buffer')
    BY <1>1, <1>3, <2>1, OrderOfFlushed
  <2>3. ToSet(table \o flusher.rows) = T \cup F
    BY <1>1, SetOfConcat
  <2>4. Placed(issued', ToSet(table'), ToSet(flusher'.rows), ToSet(stopper'.rows),
               ToSet(buffer'), written', dropped', cut')
    <3>1. /\ Placed(issued, T \cup F, {}, D, B, written \cup F, dropped, cut)
          /\ Placed(issued, T, {}, D, B, written, dropped \cup F, cut)
      BY <1>1, <1>2, PlacesOfFlushed
    <3>2. ToSet(flusher'.rows) = {} /\ ToSet(stopper'.rows) = D /\ ToSet(buffer') = B
      BY <1>3, <1>4, <2>1
    <3> HIDE DEF T, F, D, B
    <3> QED BY <1>3, <2>1, <2>3, <3>1, <3>2 DEF T
  <2> QED BY <1>3, <2>2, <2>4, FlusherKeepsShape DEF QueueInv, QueueOrder, QueuePlaces
<1> QED BY <1>5, <1>6, <1>7 DEF FlusherStep

LEMMA EnqueueKeepsInv == QueueInv /\ (Enqueue \/ StartFlusher) => QueueInv'
<1> SUFFICES ASSUME QueueInv, Enqueue \/ StartFlusher PROVE QueueInv'
  OBVIOUS
<1>1. /\ table \in Seq(Nat) /\ buffer \in Seq(Nat) /\ issued \in Nat
      /\ flusher.rows \in Seq(Nat) /\ stopper.rows \in Seq(Nat)
      /\ ToSet(table) \subseteq 1..issued /\ ToSet(flusher.rows) \subseteq 1..issued
      /\ ToSet(stopper.rows) \subseteq 1..issued /\ ToSet(buffer) \subseteq 1..issued
      /\ Ordered(table, flusher.rows, stopper.rows, buffer)
      /\ Placed(issued, ToSet(table), ToSet(flusher.rows), ToSet(stopper.rows), ToSet(buffer),
                written, dropped, cut)
  BY QueueFacts DEF QueueInv, QueueOrder, QueuePlaces, Tabled, Flushed, Draining, Buffered
<1>2. CASE StartFlusher
  <2>1. flusher'.rows = flusher.rows
        /\ UNCHANGED <<issued, buffer, table, written, dropped, stopper, stopAt, cut>>
    BY <1>2 DEF StartFlusher, QueueInv, QueueShape
  <2> QED BY <1>2, <2>1, OthersKeepShape DEF QueueInv, QueueOrder, QueuePlaces
<1>3. CASE Enqueue
  <2>1. /\ issued' = issued + 1
        /\ UNCHANGED <<table, written, flusher, stopper, stopAt, cut>>
        /\ \/ buffer' = buffer /\ dropped' = dropped \cup {issued + 1}
           \/ buffer' = Append(buffer, issued + 1) /\ dropped' = dropped
    BY <1>3 DEF Enqueue
  <2>2. ToSet(Append(buffer, issued + 1)) = ToSet(buffer) \cup {issued + 1}
    BY <1>1, SetOfAppend
  <2>3. Ordered(table', flusher'.rows, stopper'.rows, buffer')
    BY <1>1, <2>1, OrderOfAppended
  <2>4. Placed(issued', ToSet(table'), ToSet(flusher'.rows), ToSet(stopper'.rows),
               ToSet(buffer'), written', dropped', cut')
    <3> DEFINE T == ToSet(table)  F == ToSet(flusher.rows)  D == ToSet(stopper.rows)
               B == ToSet(buffer)
    <3>1. /\ Placed(issued + 1, T, F, D, B \cup {issued + 1}, written, dropped, cut)
          /\ Placed(issued + 1, T, F, D, B, written, dropped \cup {issued + 1}, cut)
      BY <1>1, PlacesOfIssued
    <3> QED BY <2>1, <2>2, <3>1
  <2>5. written \subseteq written' /\ dropped \subseteq dropped' /\ cut' = cut
    BY <2>1
  <2> QED BY <1>3, <2>1, <2>3, <2>4, <2>5, OthersKeepShape DEF QueueInv, QueueOrder, QueuePlaces
<1> QED BY <1>2, <1>3

\* The final flush takes the buffer once neither task holds rows.
LEMMA FinalFlushTakes ==
    ASSUME NEW t \in Seq(Nat), NEW n, NEW w, NEW lost, NEW c, buffer \in Seq(Nat),
           Ordered(t, <<>>, <<>>, buffer),
           Placed(n, ToSet(t), {}, {}, ToSet(buffer), w, lost, c), FinalFlush
    PROVE  /\ Ordered(t, <<>>, stopper'.rows, buffer')
           /\ Placed(n, ToSet(t), {}, ToSet(stopper'.rows), ToSet(buffer'), w, lost, c)
           /\ 1..n \subseteq w \cup lost \cup c \cup ToSet(stopper'.rows)
<1>1. stopper'.rows = buffer /\ buffer' = <<>>
  BY DEF FinalFlush
<1>2. Ordered(t, <<>>, stopper'.rows, buffer')
  BY <1>1, OrderOfTaken
<1>3. Placed(n, ToSet(t), {}, ToSet(buffer), {}, w, lost, c)
  BY PlacesOfTaken
<1>4. 1..n \subseteq w \cup lost \cup c \cup ToSet(buffer)
  BY DEF Placed
<1> QED BY <1>1, <1>2, <1>3, <1>4, SetOfEmpty

LEMMA StopKeepsInv == QueueInv /\ (Stop \/ Drained \/ CutFlusher) => QueueInv'
<1> SUFFICES ASSUME QueueInv, Stop \/ Drained \/ CutFlusher PROVE QueueInv'
  OBVIOUS
<1> DEFINE T == ToSet(table)  F == ToSet(flusher.rows)  B == ToSet(buffer)
<1>1. /\ table \in Seq(Nat) /\ buffer \in Seq(Nat) /\ <<>> \in Seq(Nat)
      /\ flusher.rows \in Seq(Nat) /\ stopper.rows = <<>> /\ ToSet(<<>>) = {}
      /\ stopAt \in Nat /\ issued \in Nat /\ stopAt <= issued
      /\ flusher.at # "writing" => flusher.rows = <<>>
      /\ stopper.at \in {"none", "draining"}
  BY SetOfEmpty DEF QueueInv, QueueShape, Stop, Drained, CutFlusher
<1>2. /\ Ordered(table, flusher.rows, <<>>, buffer)
      /\ Placed(issued, T, F, {}, B, written, dropped, cut)
  BY <1>1 DEF QueueInv, QueueOrder, QueuePlaces
<1>3. QueueShape'
  BY OthersKeepShape DEF StopperStep
<1>4. CASE Stop /\ flusher.at \notin {"none", "done"}
  <2>1. /\ stopper'.rows = <<>> /\ stopper'.at = "draining"
        /\ UNCHANGED <<issued, buffer, table, written, dropped, flusher, cut>>
    BY <1>1, <1>4 DEF Stop, QueueInv, QueueShape
  <2> QED BY <1>1, <1>2, <1>3, <2>1 DEF QueueInv, QueueOrder, QueuePlaces
<1>5. CASE (Stop /\ flusher.at \in {"none", "done"}) \/ Drained
  <2>1. /\ FinalFlush /\ flusher.rows = <<>> /\ stopAt' \in {stopAt, issued}
        /\ UNCHANGED <<issued, table, written, dropped, flusher, cut>>
    BY <1>1, <1>5 DEF Stop, Drained
  <2>2. /\ Ordered(table, <<>>, stopper'.rows, buffer')
        /\ Placed(issued, T, {}, ToSet(stopper'.rows), ToSet(buffer'), written, dropped, cut)
        /\ 1..issued \subseteq written \cup dropped \cup cut \cup ToSet(stopper'.rows)
    <3>1. /\ Ordered(table, <<>>, <<>>, buffer)
          /\ Placed(issued, ToSet(table), {}, {}, ToSet(buffer), written, dropped, cut)
      BY <1>1, <1>2, <2>1
    <3> QED BY <1>1, <2>1, <3>1, FinalFlushTakes, ZenonT(60)
  <2>3. 1..stopAt' \subseteq 1..issued
    BY <1>1, <2>1
  <2> HIDE DEF F, B
  <2> QED BY <1>1, <1>3, <2>1, <2>2, <2>3 DEF QueueInv, QueueOrder, QueuePlaces
<1>6. CASE CutFlusher
  <2>1. /\ FinalFlush /\ flusher'.rows = <<>> /\ cut' = cut \cup F
        /\ table' \in {table, table \o flusher.rows}
        /\ UNCHANGED <<issued, written, dropped, stopAt>>
    BY <1>6 DEF CutFlusher
  <2>2. T \cap F = {} /\ F \cap ({} \cup B) = {}
    <3>1. T \subseteq Nat /\ F \subseteq Nat
      BY <1>1, SetOfSeq
    <3>2. Below(T, F) /\ Below(F, B)
      BY <1>2 DEF Ordered
    <3>3. T \cap F = {} /\ F \cap B = {}
      BY <3>1, <3>2, BelowIsApart
    <3> QED BY <3>3
  <2>3. table' \in Seq(Nat) /\ Ordered(table', <<>>, <<>>, buffer)
    <3>1. Ordered(table, <<>>, <<>>, buffer) /\ Ordered(table \o flusher.rows, <<>>, <<>>, buffer)
      <4> HIDE DEF T, F, B
      <4> QED BY <1>1, <1>2, OrderOfFlushed
    <3>2. table \o flusher.rows \in Seq(Nat)
      BY <1>1
    <3> QED BY <1>1, <2>1, <3>1, <3>2
  <2>4. ToSet(table') = T \/ ToSet(table') = T \cup F
    BY <1>1, <2>1, SetOfConcat, ZenonT(60)
  <2>5. /\ Placed(issued, T, {}, {}, B, written, dropped, cut \cup F)
        /\ Placed(issued, T \cup F, {}, {}, B, written, dropped, cut \cup F)
    BY <1>2, <2>2, PlacesOfFlushed
  <2>6. Placed(issued, ToSet(table'), {}, {}, B, written, dropped, cut')
    <3> HIDE DEF T, F, B
    <3> QED BY <2>1, <2>4, <2>5
  <2>7. /\ Ordered(table', <<>>, stopper'.rows, buffer')
        /\ Placed(issued, ToSet(table'), {}, ToSet(stopper'.rows), ToSet(buffer'),
                  written, dropped, cut')
        /\ 1..issued \subseteq written \cup dropped \cup cut' \cup ToSet(stopper'.rows)
    <3> HIDE DEF T, F
    <3> QED BY <1>1, <2>1, <2>3, <2>6, FinalFlushTakes, SMTT(40)
  <2>8. 1..stopAt' \subseteq 1..issued
    BY <1>1, <2>1
  <2> HIDE DEF F, B, T
  <2> QED BY <1>1, <1>3, <2>1, <2>7, <2>8 DEF QueueInv, QueueOrder, QueuePlaces
<1> QED BY <1>4, <1>5, <1>6

LEMMA StopperKeepsInv ==
    QueueInv /\ (StopperOpens \/ StopperOpenFails \/ StopperWrites \/ StopperWriteFails)
    => QueueInv'
<1> SUFFICES ASSUME QueueInv,
                    StopperOpens \/ StopperOpenFails \/ StopperWrites \/ StopperWriteFails
             PROVE  QueueInv'
  OBVIOUS
<1> DEFINE T == ToSet(table)  D == ToSet(stopper.rows)  B == ToSet(buffer)
<1>1. /\ table \in Seq(Nat) /\ buffer \in Seq(Nat) /\ stopper.rows \in Seq(Nat)
      /\ flusher.rows = <<>> /\ <<>> \in Seq(Nat) /\ ToSet(<<>>) = {}
      /\ stopper.at \in {"opening", "writing"}
  BY SetOfEmpty DEF QueueInv, QueueShape, StopperOpens, StopperOpenFails, StopperWrites,
                    StopperWriteFails
<1>2. /\ Ordered(table, <<>>, stopper.rows, buffer)
      /\ Placed(issued, T, {}, D, B, written, dropped, cut)
      /\ 1..stopAt \subseteq written \cup dropped \cup cut \cup D
  BY <1>1 DEF QueueInv, QueueOrder, QueuePlaces
<1>3. QueueShape'
  BY OthersKeepShape DEF StopperStep
<1>4. CASE StopperOpens
  <2>1. stopper'.rows = stopper.rows
        /\ UNCHANGED <<issued, buffer, table, written, dropped, flusher, stopAt, cut>>
    BY <1>4 DEF StopperOpens, QueueInv, QueueShape
  <2> QED BY <1>1, <1>2, <1>3, <2>1 DEF QueueInv, QueueOrder, QueuePlaces
<1>5. CASE StopperOpenFails \/ StopperWrites \/ StopperWriteFails
  <2>1. /\ stopper'.rows = <<>> /\ UNCHANGED <<issued, buffer, flusher, stopAt>>
        /\ \/ /\ table' = table \o stopper.rows /\ written' = written \cup D
              /\ UNCHANGED <<dropped, cut>>
           \/ table' = table /\ dropped' = dropped \cup D /\ UNCHANGED <<written, cut>>
           \/ table' = table /\ cut' = cut \cup D /\ UNCHANGED <<written, dropped>>
    BY <1>5 DEF StopperOpenFails, StopperWrites, StopperWriteFails
  <2>2. T \cap D = {} /\ D \cap B = {}
    <3>1. T \subseteq Nat /\ D \subseteq Nat
      BY <1>1, SetOfSeq
    <3>2. Below(T, D) /\ Below(D, B)
      BY <1>2 DEF Ordered
    <3> QED BY <3>1, <3>2, BelowIsApart
  <2>3. Ordered(table', <<>>, <<>>, buffer)
    BY <1>1, <1>2, <2>1, OrderOfDrained
  <2>4. ToSet(table \o stopper.rows) = T \cup D
    BY <1>1, SetOfConcat
  <2>5. /\ Placed(issued, T \cup D, {}, {}, B, written \cup D, dropped, cut)
        /\ Placed(issued, T, {}, {}, B, written, dropped \cup D, cut)
        /\ Placed(issued, T, {}, {}, B, written, dropped, cut \cup D)
    BY <1>2, <2>2, PlacesOfDrained
  <2>6. Placed(issued, ToSet(table'), {}, {}, B, written', dropped', cut')
    <3> HIDE DEF D, B
    <3> QED BY <2>1, <2>4, <2>5
  <2>7. 1..stopAt \subseteq written' \cup dropped' \cup cut'
    BY <1>2, <2>1
  <2> HIDE DEF D, T
  <2> QED BY <1>1, <1>3, <2>1, <2>3, <2>6, <2>7 DEF QueueInv, QueueOrder, QueuePlaces
<1> QED BY <1>4, <1>5

LEMMA QueueStepInv == QueueInv /\ (QueueStep \/ UNCHANGED queueVars) => QueueInv'
<1>1. QueueInv /\ UNCHANGED queueVars => QueueInv'
  BY DEF queueVars, QueueInv, QueueShape, QueueOrder, QueuePlaces
<1> QED BY <1>1, FlusherKeepsInv, EnqueueKeepsInv, StopKeepsInv, StopperKeepsInv
        DEF QueueStep, StopperStep

-----------------------------------------------------------------------------
(***************************************************************************)
(* The pool: every open connection is with one request, on its way back or *)
(* idle, and every slot is free, with a request or with a hand-back.       *)
(***************************************************************************)
Using == {r \in Requests : req[r] = "using"}
Opening == {r \in Requests : req[r] = "opening"}
Counted == {c \in open : returning[c] # "closing"}

PoolShape ==
  /\ slots \in Nat /\ opened \in Nat
  /\ idle \subseteq Conns /\ open \subseteq Conns /\ dirty \subseteq open
  /\ closed \in {"no", "closing", "yes"}
  /\ req \in [Requests -> RequestStates]
  /\ lease \in [Requests -> [conn : Conns \cup {None}, done : BOOLEAN]]
  /\ returning \in [Conns -> ReturnStates]
  /\ \A r \in Requests : IF req[r] = "using" THEN lease[r].done = FALSE ELSE lease[r].done = TRUE

PoolPlaces ==
  /\ \A r, s \in Using : lease[r].conn = lease[s].conn => r = s
  /\ \A r \in Using : lease[r].conn \in open \ idle /\ returning[lease[r].conn] = "no"
  /\ \A c \in idle : c \in open /\ returning[c] = "no" /\ c \notin dirty
  /\ \A c \in Returns : c \in open
  /\ \A c \in dirty : returning[c] # "release"
  /\ \A c \in open : c \in idle \cup Returns \/ \E r \in Using : lease[r].conn = c
  /\ closed = "yes" => idle = {}

PoolCount ==
  /\ slots + Cardinality(Borrowers) + Cardinality(Returns) = PoolSize
  /\ closed = "no" => /\ opened = Cardinality(Counted)
                      /\ Cardinality(open) + Cardinality(Opening) <= PoolSize

PoolInv == PoolShape /\ PoolPlaces /\ PoolCount

PoolStep ==
  \/ \E r \in Requests : RequestStep(r)
  \/ \E c \in Conns : ReturnStep(c)
  \/ CloseIdle \/ StartClose \/ FinishClose

LEMMA BorrowersAre ==
    ASSUME PoolShape
    PROVE  Borrowers = {r \in Requests : req[r] \in {"granted", "opening", "using"}}
  BY DEF PoolShape, Borrowers

LEMMA PoolIsFinite ==
    ASSUME PoolShape
    PROVE  /\ IsFiniteSet(Borrowers) /\ IsFiniteSet(Returns) /\ IsFiniteSet(open)
           /\ IsFiniteSet(Using) /\ IsFiniteSet(Opening) /\ IsFiniteSet(Counted)
           /\ Cardinality(Borrowers) \in Nat /\ Cardinality(Returns) \in Nat
           /\ Cardinality(open) \in Nat /\ Cardinality(Counted) \in Nat
           /\ Cardinality(Using) \in Nat /\ Cardinality(Opening) \in Nat
           /\ PoolSize \in Nat
<1>1. /\ Borrowers \subseteq Requests /\ Using \subseteq Requests /\ Opening \subseteq Requests
      /\ Returns \subseteq Conns /\ open \subseteq Conns /\ Counted \subseteq Conns
  BY DEF Borrowers, Using, Opening, Returns, Counted, PoolShape
<1>2. IsFiniteSet(Requests) /\ IsFiniteSet(Conns) /\ PoolSize \in Nat
  BY PoolAssumption
<1>3. /\ IsFiniteSet(Borrowers) /\ IsFiniteSet(Returns) /\ IsFiniteSet(open)
      /\ IsFiniteSet(Using) /\ IsFiniteSet(Opening) /\ IsFiniteSet(Counted)
  BY <1>1, <1>2, FS_Subset
<1> QED BY <1>2, <1>3, FS_CardinalityType

\* The same of the next state.
LEMMA BorrowersAreNext ==
    ASSUME PoolShape'
    PROVE  Borrowers' = {r \in Requests : req'[r] \in {"granted", "opening", "using"}}
  BY DEF PoolShape, Borrowers

LEMMA PoolIsFiniteNext ==
    ASSUME PoolShape'
    PROVE  /\ Cardinality(Borrowers') \in Nat /\ Cardinality(Returns') \in Nat
           /\ Cardinality(open') \in Nat /\ Cardinality(Counted') \in Nat
           /\ Cardinality(Opening') \in Nat /\ PoolSize \in Nat
<1>1. /\ Borrowers' \subseteq Requests /\ Opening' \subseteq Requests
      /\ Returns' \subseteq Conns /\ open' \subseteq Conns /\ Counted' \subseteq Conns
  BY DEF Borrowers, Opening, Returns, Counted, PoolShape
<1> QED BY <1>1, PoolAssumption, FS_Subset, FS_CardinalityType

LEMMA OneMore ==
    ASSUME NEW S, NEW x, IsFiniteSet(S), x \notin S
    PROVE  Cardinality(S \cup {x}) = Cardinality(S) + 1
  BY FS_AddElement

LEMMA OneLess ==
    ASSUME NEW S, NEW x, IsFiniteSet(S), x \in S
    PROVE  Cardinality(S \ {x}) + 1 = Cardinality(S)
<1>1. Cardinality(S \ {x}) = Cardinality(S) - 1 /\ Cardinality(S) \in Nat
  BY FS_RemoveElement, FS_CardinalityType
<1> QED BY <1>1

\* With no idle connection, there are at most as many open ones as requests
\* that use one and hand-backs together.
LEMMA OpenWithoutIdle ==
    ASSUME PoolInv, idle = {}
    PROVE  Cardinality(open) <= Cardinality(Using) + Cardinality(Returns)
<1> DEFINE held == {c \in Conns : \E r \in Using : lease[r].conn = c}
           conn == [r \in Using |-> lease[r].conn]
<1>1. \A r \in Using : lease[r].conn \in Conns
  BY DEF PoolInv, PoolShape, PoolPlaces
<1>2. open \subseteq held \cup Returns /\ held \subseteq Conns
  BY DEF PoolInv, PoolShape, PoolPlaces
<1>3. IsFiniteSet(Using) /\ IsFiniteSet(Returns) /\ IsFiniteSet(open)
      /\ Cardinality(Using) \in Nat /\ Cardinality(Returns) \in Nat /\ Cardinality(open) \in Nat
  BY PoolIsFinite DEF PoolInv
<1>4. conn \in Surjection(Using, held)
  BY <1>1 DEF Surjection, held
<1> HIDE DEF held, conn
<1>5. IsFiniteSet(held) /\ Cardinality(held) <= Cardinality(Using) /\ Cardinality(held) \in Nat
  <2>1. IsFiniteSet(held) /\ Cardinality(held) <= Cardinality(Using)
    BY <1>3, <1>4, FS_Surjection
  <2> QED BY <2>1, FS_CardinalityType
<1>6. IsFiniteSet(held \cup Returns)
      /\ Cardinality(held \cup Returns)
           = Cardinality(held) + Cardinality(Returns) - Cardinality(held \cap Returns)
  BY <1>3, <1>5, FS_Union
<1>7. Cardinality(held \cap Returns) \in Nat
  BY <1>5, FS_Subset, FS_CardinalityType
<1>8. Cardinality(open) <= Cardinality(held \cup Returns)
  BY <1>2, <1>6, FS_Subset
<1>9. Cardinality(held \cup Returns) \in Nat
  BY <1>6, FS_CardinalityType
<1> QED BY <1>3, <1>5, <1>6, <1>7, <1>8, <1>9

\* Requests that use, open and wait to open are borrowers of their own.
LEMMA BorrowersAtLeast ==
    ASSUME PoolInv, NEW r \in Requests, req[r] = "granted"
    PROVE  Cardinality(Using) + Cardinality(Opening) + 1 <= Cardinality(Borrowers)
<1>1. IsFiniteSet(Using) /\ IsFiniteSet(Opening) /\ IsFiniteSet(Borrowers)
      /\ Cardinality(Using) \in Nat /\ Cardinality(Opening) \in Nat
      /\ Cardinality(Borrowers) \in Nat
  BY PoolIsFinite DEF PoolInv
<1>2. Using \cap Opening = {} /\ r \notin Using \cup Opening
      /\ (Using \cup Opening) \cup {r} \subseteq Borrowers
  BY BorrowersAre DEF Using, Opening, PoolInv
<1>3. IsFiniteSet(Using \cup Opening)
      /\ Cardinality(Using \cup Opening) = Cardinality(Using) + Cardinality(Opening)
  <2>1. IsFiniteSet(Using \cup Opening)
        /\ Cardinality(Using \cup Opening)
             = Cardinality(Using) + Cardinality(Opening) - Cardinality(Using \cap Opening)
    BY <1>1, FS_Union
  <2>2. Cardinality(Using \cap Opening) = 0
    BY <1>2, FS_EmptySet
  <2> QED BY <1>1, <2>1, <2>2
<1>4. Cardinality((Using \cup Opening) \cup {r}) = Cardinality(Using \cup Opening) + 1
  BY <1>2, <1>3, OneMore
<1>5. Cardinality((Using \cup Opening) \cup {r}) <= Cardinality(Borrowers)
  BY <1>1, <1>2, FS_Subset
<1> QED BY <1>3, <1>4, <1>5

LEMMA PoolInvTells == PoolInv => PoolIsSound
<1> SUFFICES ASSUME PoolInv PROVE PoolIsSound
  OBVIOUS
<1>1. PoolShape /\ PoolPlaces /\ PoolCount
  BY DEF PoolInv
<1>2. ASSUME NEW c \in Conns, NEW r \in Holders(c)
      PROVE  r \in Using /\ lease[r].conn = c
  BY <1>1, <1>2 DEF PoolShape, Holders, Using
<1>3. ConnectionsAreExclusive
  <2>1. \A c \in Conns : returning[c] # "no" => c \in Returns
    BY DEF Returns
  <2> QED BY <1>1, <1>2, <2>1 DEF ConnectionsAreExclusive, PoolPlaces
<1>4. closed = "no" => opened = Cardinality({c \in open : returning[c] # "closing"})
                       /\ Cardinality(open) <= PoolSize
  BY <1>1, PoolIsFinite DEF PoolCount, Counted
<1>5. closed = "yes" /\ Returns = {} /\ (\A r \in Requests : req[r] = "idle") => open = {}
  BY <1>1 DEF PoolPlaces, Using
<1> QED BY <1>1, <1>3, <1>4, <1>5 DEF PoolIsSound, SlotsAreConserved, PoolCount

LEMMA PoolInitInv == PoolInit => PoolInv
<1> SUFFICES ASSUME PoolInit PROVE PoolInv
  OBVIOUS
<1> USE DEF PoolInit
<1>1. PoolShape
  BY PoolAssumption DEF PoolShape, RequestStates, ReturnStates, NoLease
<1>2. Borrowers = {} /\ Returns = {} /\ Using = {} /\ Opening = {} /\ Counted = {}
  BY DEF Borrowers, Returns, Using, Opening, Counted, NoLease
<1>3. PoolPlaces
  BY <1>2 DEF PoolPlaces
<1>4. PoolCount
  BY <1>2, FS_EmptySet, PoolAssumption DEF PoolCount
<1> QED BY <1>1, <1>3, <1>4 DEF PoolInv

\* A request that uses no connection moves on, and nothing else does.
Moves(r, from, to) ==
  /\ req[r] = from /\ req' = [req EXCEPT ![r] = to]
  /\ from # "using" /\ to # "using" /\ to \in RequestStates
  /\ UNCHANGED <<idle, open, opened, closed, dirty, lease, returning>>

LEMMA MovesKeepsPlaces ==
    ASSUME PoolInv, NEW r \in Requests, NEW from, NEW to, Moves(r, from, to), slots' \in Nat
    PROVE  PoolShape' /\ PoolPlaces' /\ Returns' = Returns /\ Counted' = Counted
           /\ Using' = Using
<1>1. PoolShape /\ PoolPlaces
  BY DEF PoolInv
<1>2. \A x \in Requests : req'[x] = IF x = r THEN to ELSE req[x]
  BY <1>1 DEF Moves, PoolShape
<1>3. PoolShape'
  BY <1>1, <1>2 DEF Moves, PoolShape
<1>4. Using' = Using /\ Returns' = Returns /\ Counted' = Counted
  BY <1>2 DEF Moves, Using, Returns, Counted
<1>5. PoolPlaces'
  BY <1>1, <1>4 DEF Moves, PoolPlaces
<1> QED BY <1>3, <1>4, <1>5

\* The sets of borrowers after a request has moved on.
LEMMA MovesBorrowers ==
    ASSUME PoolInv, NEW r \in Requests, NEW from, NEW to, Moves(r, from, to), slots' \in Nat
    PROVE  /\ Borrowers' = IF to \in {"granted", "opening"} THEN Borrowers \cup {r}
                           ELSE Borrowers \ {r}
           /\ Opening' = IF to = "opening" THEN Opening \cup {r} ELSE Opening \ {r}
           /\ r \in Borrowers <=> from \in {"granted", "opening"}
           /\ r \in Opening <=> from = "opening"
<1>1. PoolShape /\ PoolShape'
  BY MovesKeepsPlaces DEF PoolInv
<1>2. /\ Borrowers = {x \in Requests : req[x] \in {"granted", "opening", "using"}}
      /\ Borrowers' = {x \in Requests : req'[x] \in {"granted", "opening", "using"}}
  BY <1>1, BorrowersAre, BorrowersAreNext
<1>3. \A x \in Requests : req'[x] = IF x = r THEN to ELSE req[x]
  BY <1>1 DEF Moves, PoolShape
<1> QED BY <1>2, <1>3 DEF Moves, Opening

LEMMA WaitingKeepsInv ==
    ASSUME PoolInv, NEW r \in Requests, Arrive(r) \/ TakeSlot(r) \/ GiveUp(r) \/ DropSlot(r)
    PROVE  PoolInv'
<1>1. /\ IsFiniteSet(Borrowers) /\ Cardinality(Borrowers) \in Nat /\ Cardinality(Returns) \in Nat
      /\ slots \in Nat
  BY PoolIsFinite DEF PoolInv, PoolShape
<1>2. ASSUME NEW from \in {"idle", "waiting", "granted"}, NEW to \in {"idle", "waiting", "granted"},
             from # to, Moves(r, from, to), slots' \in Nat,
             slots' = IF to = "granted" THEN slots - 1
                      ELSE IF from = "granted" THEN slots + 1 ELSE slots
      PROVE  PoolInv'
  <2>1. PoolShape' /\ PoolPlaces' /\ Returns' = Returns /\ Counted' = Counted
    BY <1>2, MovesKeepsPlaces
  <2>2. /\ Borrowers' = IF to = "granted" THEN Borrowers \cup {r} ELSE Borrowers \ {r}
        /\ Opening' = Opening \ {r} /\ r \notin Opening
        /\ r \in Borrowers <=> from = "granted"
    BY <1>2, MovesBorrowers
  <2>3. Opening' = Opening
    BY <2>2
  <2>4. slots' + Cardinality(Borrowers') = slots + Cardinality(Borrowers)
    <3>1. CASE to = "granted"
      <4>1. Borrowers' = Borrowers \cup {r} /\ r \notin Borrowers /\ slots' = slots - 1
        BY <1>2, <2>2, <3>1
      <4>2. Cardinality(Borrowers') = Cardinality(Borrowers) + 1
        BY <1>1, <4>1, OneMore
      <4> QED BY <1>1, <4>1, <4>2
    <3>2. CASE from = "granted"
      <4>1. Borrowers' = Borrowers \ {r} /\ r \in Borrowers /\ slots' = slots + 1
        BY <1>2, <2>2, <3>2
      <4>2. Cardinality(Borrowers') + 1 = Cardinality(Borrowers)
        BY <1>1, <4>1, OneLess
      <4>3. Cardinality(Borrowers') \in Nat
        BY <1>1, <4>1, FS_RemoveElement, FS_CardinalityType
      <4> QED BY <1>1, <4>1, <4>2, <4>3
    <3>3. CASE from # "granted" /\ to # "granted"
      BY <1>2, <2>2, <3>3
    <3> QED BY <3>1, <3>2, <3>3
  <2>5. UNCHANGED <<open, opened, closed>>
    BY <1>2 DEF Moves
  <2>6. PoolCount'
    <3>1. Cardinality(Borrowers') \in Nat /\ PoolSize \in Nat /\ slots' \in Nat
      BY <2>1, PoolIsFiniteNext DEF PoolShape
    <3> QED BY <1>1, <2>1, <2>3, <2>4, <2>5, <3>1 DEF PoolInv, PoolCount
  <2> QED BY <2>1, <2>6 DEF PoolInv
<1> USE DEF RequestStates
<1>3. CASE Arrive(r)
  BY <1>1, <1>2, <1>3 DEF Arrive, Moves
<1>4. CASE TakeSlot(r)
  BY <1>1, <1>2, <1>4 DEF TakeSlot, Moves
<1>5. CASE GiveUp(r)
  BY <1>1, <1>2, <1>5 DEF GiveUp, Moves
<1>6. CASE DropSlot(r)
  BY <1>1, <1>2, <1>6 DEF DropSlot, Moves
<1> QED BY <1>3, <1>4, <1>5, <1>6

LEMMA StartOpeningKeepsInv ==
    ASSUME PoolInv, NEW r \in Requests, StartOpening(r)
    PROVE  PoolInv'
<1>1. Moves(r, "granted", "opening") /\ slots' = slots /\ slots \in Nat /\ idle = {}
  BY DEF StartOpening, Moves, RequestStates, PoolInv, PoolShape
<1>2. PoolShape' /\ PoolPlaces' /\ Returns' = Returns /\ Counted' = Counted
  BY <1>1, MovesKeepsPlaces
<1>3. Borrowers' = Borrowers /\ Opening' = Opening \cup {r} /\ r \notin Opening
  BY <1>1, MovesBorrowers
<1>4. /\ Cardinality(open) <= Cardinality(Using) + Cardinality(Returns)
      /\ Cardinality(Using) + Cardinality(Opening) + 1 <= Cardinality(Borrowers)
      /\ slots + Cardinality(Borrowers) + Cardinality(Returns) = PoolSize
  BY <1>1, OpenWithoutIdle, BorrowersAtLeast DEF PoolInv, PoolCount, Moves
<1>5. /\ Cardinality(Opening') = Cardinality(Opening) + 1
      /\ Cardinality(open) \in Nat /\ Cardinality(Opening) \in Nat /\ Cardinality(Using) \in Nat
      /\ Cardinality(Returns) \in Nat /\ Cardinality(Borrowers) \in Nat /\ PoolSize \in Nat
  BY <1>3, OneMore, PoolIsFinite DEF PoolInv
<1>6. Cardinality(open) + Cardinality(Opening') <= PoolSize
  BY <1>1, <1>4, <1>5
<1>7. UNCHANGED <<open, opened, closed>>
  BY <1>1 DEF Moves
<1>8. PoolCount'
  BY <1>1, <1>2, <1>3, <1>6, <1>7 DEF PoolInv, PoolCount
<1> QED BY <1>2, <1>8 DEF PoolInv

LEMMA OpenFailsKeepsInv ==
    ASSUME PoolInv, NEW r \in Requests, OpenFails(r)
    PROVE  PoolInv'
<1>1. Moves(r, "opening", "idle") /\ slots' = slots + 1 /\ slots \in Nat
  BY DEF OpenFails, Moves, RequestStates, PoolInv, PoolShape
<1>2. PoolShape' /\ PoolPlaces' /\ Returns' = Returns /\ Counted' = Counted
  BY <1>1, MovesKeepsPlaces
<1>3. Borrowers' = Borrowers \ {r} /\ Opening' = Opening \ {r} /\ r \in Opening /\ r \in Borrowers
  BY <1>1, MovesBorrowers
<1>4. /\ Cardinality(Opening') + 1 = Cardinality(Opening)
      /\ Cardinality(Borrowers') + 1 = Cardinality(Borrowers)
  BY <1>3, OneLess, PoolIsFinite DEF PoolInv
<1>5. /\ Cardinality(open) \in Nat /\ Cardinality(Opening') \in Nat /\ PoolSize \in Nat
      /\ Cardinality(Returns) \in Nat /\ Cardinality(Borrowers') \in Nat
  BY <1>2, PoolIsFinite, PoolIsFiniteNext DEF PoolInv
<1>6. UNCHANGED <<open, opened, closed>>
  BY <1>1 DEF Moves
<1>7. PoolCount'
  BY <1>1, <1>2, <1>4, <1>5, <1>6 DEF PoolInv, PoolCount
<1> QED BY <1>2, <1>7 DEF PoolInv

\* A request gets a connection that nobody else has.
LEMMA UseIdleKeepsInv ==
    ASSUME PoolInv, NEW r \in Requests, UseIdle(r)
    PROVE  PoolInv'
<1>1. PoolShape /\ PoolPlaces
  BY DEF PoolInv
<1>2. PICK c \in idle : idle' = idle \ {c}
                        /\ lease' = [lease EXCEPT ![r] = [conn |-> c, done |-> FALSE]]
  BY DEF UseIdle
<1>3. /\ req[r] = "granted" /\ req' = [req EXCEPT ![r] = "using"]
      /\ UNCHANGED <<slots, open, opened, closed, dirty, returning>> /\ closed = "no"
      /\ c \in Conns /\ c \in open /\ returning[c] = "no" /\ c \notin dirty
  BY <1>1, <1>2 DEF UseIdle, IsClosed, PoolShape, PoolPlaces
<1>4. \A x \in Requests : /\ req'[x] = IF x = r THEN "using" ELSE req[x]
                          /\ lease'[x] = IF x = r THEN [conn |-> c, done |-> FALSE] ELSE lease[x]
  BY <1>1, <1>2, <1>3 DEF PoolShape
<1>5. PoolShape'
  BY <1>1, <1>2, <1>3, <1>4 DEF PoolShape, RequestStates
<1>6. Using' = Using \cup {r} /\ r \notin Using /\ Opening' = Opening /\ Returns' = Returns
      /\ Counted' = Counted
  BY <1>3, <1>4 DEF Using, Opening, Returns, Counted
<1>7. Borrowers' = Borrowers
  BY <1>1, <1>3, <1>4, <1>5, BorrowersAre, BorrowersAreNext, SMTT(40)
<1>8. PoolPlaces'
  <2>1. \A x \in Using : lease'[x] = lease[x] /\ lease[x].conn # c /\ x # r
    BY <1>1, <1>2, <1>4, <1>6 DEF PoolPlaces, Using
  <2>2. lease'[r].conn = c
    BY <1>4
  <2> QED BY <1>1, <1>2, <1>3, <1>6, <2>1, <2>2 DEF PoolPlaces
<1>9. PoolCount'
  BY <1>3, <1>6, <1>7 DEF PoolInv, PoolCount
<1> QED BY <1>5, <1>8, <1>9 DEF PoolInv

LEMMA OpenedKeepsInv ==
    ASSUME PoolInv, NEW r \in Requests, Opened(r)
    PROVE  PoolInv'
<1>1. PoolShape /\ PoolPlaces
  BY DEF PoolInv
<1>2. PICK c \in Conns \ open : open' = open \cup {c}
                        /\ lease' = [lease EXCEPT ![r] = [conn |-> c, done |-> FALSE]]
  BY DEF Opened
<1>3. /\ req[r] = "opening" /\ req' = [req EXCEPT ![r] = "using"] /\ opened' = opened + 1
      /\ UNCHANGED <<slots, idle, closed, dirty, returning>>
      /\ c \notin idle /\ returning[c] = "no" /\ c \notin dirty
  BY <1>1, <1>2 DEF Opened, PoolShape, PoolPlaces, Returns
<1>4. \A x \in Requests : /\ req'[x] = IF x = r THEN "using" ELSE req[x]
                          /\ lease'[x] = IF x = r THEN [conn |-> c, done |-> FALSE] ELSE lease[x]
  BY <1>1, <1>2, <1>3 DEF PoolShape
<1>5. PoolShape'
  BY <1>1, <1>2, <1>3, <1>4 DEF PoolShape, RequestStates
<1>6. Using' = Using \cup {r} /\ r \notin Using /\ Opening' = Opening \ {r} /\ r \in Opening
      /\ Returns' = Returns
  BY <1>3, <1>4 DEF Using, Opening, Returns
<1>7. Borrowers' = Borrowers
  BY <1>1, <1>3, <1>4, <1>5, BorrowersAre, BorrowersAreNext, SMTT(40)
<1>8. PoolPlaces'
  <2>1. \A x \in Using : lease'[x] = lease[x] /\ lease[x].conn # c /\ x # r
    BY <1>1, <1>2, <1>4, <1>6 DEF PoolPlaces, Using
  <2>2. lease'[r].conn = c
    BY <1>4
  <2> QED BY <1>1, <1>2, <1>3, <1>6, <2>1, <2>2 DEF PoolPlaces
<1>9. Counted' = Counted \cup {c} /\ c \notin Counted
  BY <1>2, <1>3 DEF Counted
<1>10. /\ Cardinality(Counted') = Cardinality(Counted) + 1
       /\ Cardinality(open') = Cardinality(open) + 1
       /\ Cardinality(Opening') + 1 = Cardinality(Opening)
  BY <1>1, <1>2, <1>6, <1>9, PoolIsFinite, OneMore, OneLess
<1>11. /\ Cardinality(open) \in Nat /\ Cardinality(Opening') \in Nat /\ PoolSize \in Nat
  BY <1>1, <1>5, PoolIsFinite, PoolIsFiniteNext
<1>12. PoolCount'
  BY <1>3, <1>6, <1>7, <1>10, <1>11 DEF PoolInv, PoolCount
<1> QED BY <1>5, <1>8, <1>12 DEF PoolInv

LEMMA WriteKeepsInv ==
    ASSUME PoolInv, NEW r \in Requests, Write(r) \/ Commit(r)
    PROVE  PoolInv'
<1>1. PoolShape /\ PoolPlaces /\ PoolCount
  BY DEF PoolInv
<1>2. /\ r \in Using /\ UNCHANGED <<slots, idle, open, opened, closed, req, lease, returning>>
      /\ dirty' \in {dirty \cup {lease[r].conn}, dirty \ {lease[r].conn}}
  BY DEF Write, Commit, Using
<1>3. lease[r].conn \in open \ idle /\ returning[lease[r].conn] = "no"
  BY <1>1, <1>2 DEF PoolPlaces
<1>4. PoolShape'
  BY <1>1, <1>2, <1>3 DEF PoolShape
<1>5. Using' = Using /\ Opening' = Opening /\ Returns' = Returns /\ Counted' = Counted
      /\ Borrowers' = Borrowers
  BY <1>2 DEF Using, Opening, Returns, Counted, Borrowers
<1>6. PoolPlaces'
  BY <1>1, <1>2, <1>3, <1>5 DEF PoolPlaces
<1>7. PoolCount'
  BY <1>1, <1>2, <1>5 DEF PoolCount
<1> QED BY <1>4, <1>6, <1>7 DEF PoolInv

\* The lease of a request that uses a connection is finished: its hand-back
\* starts, and the request goes on without it or ends.
LEMMA FinishKeepsInv ==
    ASSUME PoolInv, NEW r \in Requests, NEW to \in {"slow", "idle"}, req[r] = "using",
           req' = [req EXCEPT ![r] = to], FinishLease(r),
           UNCHANGED <<slots, idle, open, opened, closed, dirty>>
    PROVE  PoolInv'
<1> DEFINE c == lease[r].conn
<1>1. PoolShape /\ PoolPlaces /\ PoolCount
  BY DEF PoolInv
<1>2. /\ r \in Using /\ c \in open /\ c \in Conns /\ c \notin idle /\ returning[c] = "no"
      /\ lease[r].done = FALSE
  BY <1>1 DEF PoolPlaces, PoolShape, Using
<1>3. lease' = [lease EXCEPT ![r].done = TRUE] /\ returning' = [returning EXCEPT ![c] = "rollback"]
  BY <1>2 DEF FinishLease, Finished
<1> HIDE DEF c
<1>4. /\ \A x \in Requests : /\ req'[x] = IF x = r THEN to ELSE req[x]
                             /\ lease'[x].conn = lease[x].conn
                             /\ lease'[x].done = IF x = r THEN TRUE ELSE lease[x].done
      /\ \A x \in Conns : returning'[x] = IF x = c THEN "rollback" ELSE returning[x]
      /\ lease' \in [Requests -> [conn : Conns \cup {None}, done : BOOLEAN]]
  BY <1>1, <1>2, <1>3 DEF PoolShape
<1>5. PoolShape'
  <2>1. req' \in [Requests -> RequestStates] /\ returning' \in [Conns -> ReturnStates]
    BY <1>1, <1>3 DEF PoolShape, RequestStates, ReturnStates
  <2>2. \A x \in Requests : IF req'[x] = "using" THEN lease'[x].done = FALSE
                            ELSE lease'[x].done = TRUE
    BY <1>1, <1>4 DEF PoolShape
  <2> QED BY <1>1, <1>4, <2>1, <2>2 DEF PoolShape
<1>6. /\ Using' = Using \ {r} /\ Opening' = Opening /\ Returns' = Returns \cup {c}
      /\ c \notin Returns /\ Counted' = Counted
  BY <1>1, <1>2, <1>4 DEF Using, Opening, Returns, Counted, PoolShape
<1>7. Borrowers' = Borrowers \ {r} /\ r \in Borrowers
  <2>1. /\ Borrowers = {x \in Requests : req[x] \in {"granted", "opening", "using"}}
        /\ Borrowers' = {x \in Requests : req'[x] \in {"granted", "opening", "using"}}
    BY <1>1, <1>5, BorrowersAre, BorrowersAreNext
  <2>2. \A x \in Requests : req'[x] = IF x = r THEN to ELSE req[x]
    BY <1>4
  <2>3. to \notin {"granted", "opening", "using"}
    OBVIOUS
  <2> QED BY <2>1, <2>2, <2>3
<1>8. PoolPlaces'
  <2>1. \A x \in Using' : x \in Using /\ lease'[x].conn = lease[x].conn /\ lease[x].conn # c
    BY <1>1, <1>2, <1>4, <1>6 DEF PoolPlaces, Using, c
  <2>2. \A x \in Using : x \in Using' \/ lease[x].conn = c
    BY <1>6 DEF c
  <2>3. \A x \in open : x \in Conns
    BY <1>1 DEF PoolShape
  <2>4. \A x \in open : x \in idle \cup Returns' \/ \E y \in Using' : lease'[y].conn = x
    BY <1>1, <1>6, <2>1, <2>2 DEF PoolPlaces
  <2>5. \A x \in Returns' : x \in open
    BY <1>1, <1>2, <1>6 DEF PoolPlaces
  <2>6. \A x \in idle : x \in open /\ returning'[x] = "no" /\ x \notin dirty
    BY <1>1, <1>2, <1>4, <2>3 DEF PoolPlaces
  <2>7. \A x \in dirty : returning'[x] # "release"
    BY <1>1, <1>4, <2>3 DEF PoolPlaces, PoolShape
  <2>8. \A x \in Using' : lease'[x].conn \in open \ idle /\ returning'[lease'[x].conn] = "no"
    BY <1>1, <1>4, <2>1, <2>3 DEF PoolPlaces
  <2>9. \A x, y \in Using' : lease'[x].conn = lease'[y].conn => x = y
    BY <1>1, <2>1 DEF PoolPlaces
  <2>10. closed' = "yes" => idle' = {}
    BY <1>1 DEF PoolPlaces
  <2> QED BY <2>4, <2>5, <2>6, <2>7, <2>8, <2>9, <2>10 DEF PoolPlaces
<1>9. PoolCount'
  <2>1. /\ Cardinality(Borrowers') + 1 = Cardinality(Borrowers)
        /\ Cardinality(Returns') = Cardinality(Returns) + 1
    BY <1>1, <1>6, <1>7, PoolIsFinite, OneMore, OneLess
  <2>2. Cardinality(Borrowers') \in Nat /\ Cardinality(Returns) \in Nat /\ slots \in Nat
    BY <1>1, <1>5, PoolIsFinite, PoolIsFiniteNext DEF PoolShape
  <2> QED BY <1>1, <1>6, <2>1, <2>2 DEF PoolCount
<1> QED BY <1>5, <1>8, <1>9 DEF PoolInv

LEMMA EndKeepsInv ==
    ASSUME PoolInv, NEW r \in Requests, ReleaseEarly(r) \/ EndRequest(r)
    PROVE  PoolInv'
<1>1. CASE ReleaseEarly(r)
  BY <1>1, FinishKeepsInv DEF ReleaseEarly
<1>2. CASE EndRequest(r) /\ req[r] = "using"
  BY <1>2, FinishKeepsInv DEF EndRequest
<1>3. CASE EndRequest(r) /\ req[r] = "slow"
  <2>1. lease[r].done = TRUE
    BY <1>3 DEF PoolInv, PoolShape
  <2>2. Moves(r, "slow", "idle") /\ slots' = slots /\ slots \in Nat
    BY <1>3, <2>1 DEF EndRequest, FinishLease, Finished, Moves, RequestStates, PoolInv, PoolShape
  <2>3. PoolShape' /\ PoolPlaces' /\ Returns' = Returns /\ Counted' = Counted
    BY <2>2, MovesKeepsPlaces
  <2>4. Borrowers' = Borrowers /\ Opening' = Opening
    BY <2>2, MovesBorrowers
  <2>5. PoolCount'
    BY <2>2, <2>3, <2>4 DEF PoolInv, PoolCount, Moves
  <2> QED BY <2>3, <2>5 DEF PoolInv
<1> QED BY <1>1, <1>2, <1>3 DEF EndRequest

\* A hand-back goes on: the connection's place in it changes, and with it its
\* transaction.
LEMMA ReturningKeepsInv ==
    ASSUME PoolInv, NEW c \in Returns, NEW to \in {"release", "closing"},
           returning' = [returning EXCEPT ![c] = to], dirty' \in {dirty, dirty \ {c}},
           to = "release" => dirty' = dirty \ {c} /\ returning[c] = "rollback" /\ opened' = opened,
           to = "closing" => returning[c] # "closing" /\ opened' = Less(opened),
           UNCHANGED <<slots, idle, open, closed, req, lease>>
    PROVE  PoolInv'
<1>1. PoolShape /\ PoolPlaces /\ PoolCount /\ c \in Conns /\ c \in open /\ returning[c] # "no"
  BY DEF PoolInv, PoolPlaces, Returns
<1>2. /\ \A x \in Conns : returning'[x] = IF x = c THEN to ELSE returning[x]
      /\ to # "no"
  BY <1>1 DEF PoolShape
<1>3. PoolShape'
  BY <1>1 DEF PoolShape, ReturnStates, Less
<1>4. Using' = Using /\ Opening' = Opening /\ Returns' = Returns /\ Borrowers' = Borrowers
  BY <1>1, <1>2 DEF Using, Opening, Returns, Borrowers
<1>5. \A x \in Using : lease[x].conn # c /\ lease[x].conn \in Conns
  BY <1>1 DEF PoolPlaces, PoolShape
<1>6. \A x \in idle : x # c /\ x \in Conns
  BY <1>1 DEF PoolPlaces, PoolShape
<1>7. PoolPlaces'
  <2>1. \A x \in dirty' : returning'[x] # "release"
    BY <1>1, <1>2 DEF PoolPlaces, PoolShape
  <2>2. \A x \in Using' : lease'[x].conn \in open' \ idle' /\ returning'[lease'[x].conn] = "no"
    BY <1>1, <1>2, <1>4, <1>5 DEF PoolPlaces
  <2>3. \A x \in idle' : x \in open' /\ returning'[x] = "no" /\ x \notin dirty'
    BY <1>1, <1>2, <1>6 DEF PoolPlaces
  <2> QED BY <1>1, <1>4, <2>1, <2>2, <2>3 DEF PoolPlaces
<1>8. PoolCount'
  <2>1. CASE to = "release"
    <3>1. Counted' = Counted
      BY <1>1, <1>2, <2>1 DEF Counted, PoolShape
    <3> QED BY <1>1, <1>4, <2>1, <3>1 DEF PoolCount
  <2>2. CASE to = "closing"
    <3>1. Counted' = Counted \ {c} /\ c \in Counted
      BY <1>1, <1>2, <2>2 DEF Counted, PoolShape
    <3>2. Cardinality(Counted') + 1 = Cardinality(Counted)
      BY <1>1, <3>1, PoolIsFinite, OneLess
    <3>3. Cardinality(Counted') \in Nat
      BY <1>3, PoolIsFiniteNext
    <3>4. closed = "no" => opened' = Cardinality(Counted')
      BY <1>1, <2>2, <3>2, <3>3 DEF PoolCount, Less
    <3> QED BY <1>1, <1>4, <3>4 DEF PoolCount
  <2> QED BY <2>1, <2>2
<1> QED BY <1>3, <1>7, <1>8 DEF PoolInv

LEMMA ReleaseKeepsInv ==
    ASSUME PoolInv, NEW c \in Conns, Release(c)
    PROVE  PoolInv'
<1>1. /\ PoolShape /\ PoolPlaces /\ PoolCount /\ returning[c] = "release" /\ c \in Returns
      /\ closed = "no" /\ idle' = idle \cup {c} /\ slots' = slots + 1
      /\ returning' = [returning EXCEPT ![c] = "no"]
      /\ UNCHANGED <<open, opened, closed, dirty, req, lease>>
  BY DEF Release, IsClosed, PoolInv, PoolShape, Returns
<1>2. /\ \A x \in Conns : returning'[x] = IF x = c THEN "no" ELSE returning[x]
      /\ c \in open /\ c \notin dirty
  BY <1>1 DEF PoolShape, PoolPlaces
<1>3. PoolShape'
  BY <1>1 DEF PoolShape, ReturnStates
<1>4. Using' = Using /\ Opening' = Opening /\ Returns' = Returns \ {c} /\ Borrowers' = Borrowers
      /\ Counted' = Counted
  BY <1>1, <1>2 DEF Using, Opening, Returns, Borrowers, Counted, PoolShape
<1>5. \A x \in Using : lease[x].conn # c /\ lease[x].conn \in Conns
  BY <1>1 DEF PoolPlaces, PoolShape
<1>6. PoolPlaces'
  <2>1. \A x \in Using' : lease'[x].conn \in open' \ idle' /\ returning'[lease'[x].conn] = "no"
    BY <1>1, <1>2, <1>4, <1>5 DEF PoolPlaces
  <2>2. \A x \in idle' : x \in open' /\ returning'[x] = "no" /\ x \notin dirty'
    BY <1>1, <1>2 DEF PoolPlaces, PoolShape
  <2>3. \A x \in dirty' : returning'[x] # "release"
    BY <1>1, <1>2 DEF PoolPlaces, PoolShape
  <2>4. \A x \in open' : x \in idle' \cup Returns' \/ \E y \in Using' : lease'[y].conn = x
    BY <1>1, <1>4 DEF PoolPlaces
  <2> QED BY <1>1, <1>4, <2>1, <2>2, <2>3, <2>4 DEF PoolPlaces
<1>7. PoolCount'
  <2>1. Cardinality(Returns') + 1 = Cardinality(Returns)
    BY <1>1, <1>4, PoolIsFinite, OneLess
  <2>2. Cardinality(Returns') \in Nat /\ Cardinality(Borrowers) \in Nat /\ slots \in Nat
    BY <1>1, <1>3, PoolIsFinite, PoolIsFiniteNext DEF PoolShape
  <2> QED BY <1>1, <1>4, <2>1, <2>2 DEF PoolCount
<1> QED BY <1>3, <1>6, <1>7 DEF PoolInv

LEMMA ClosedKeepsInv ==
    ASSUME PoolInv, NEW c \in Conns, Closed(c)
    PROVE  PoolInv'
<1>1. /\ PoolShape /\ PoolPlaces /\ PoolCount /\ returning[c] = "closing" /\ c \in Returns
      /\ open' = open \ {c} /\ dirty' = dirty \ {c} /\ slots' = slots + 1
      /\ returning' = [returning EXCEPT ![c] = "no"]
      /\ UNCHANGED <<idle, opened, closed, req, lease>>
  BY DEF Closed, PoolInv, PoolShape, Returns
<1>2. /\ \A x \in Conns : returning'[x] = IF x = c THEN "no" ELSE returning[x]
      /\ c \in open /\ c \notin idle
  BY <1>1 DEF PoolShape, PoolPlaces
<1>3. PoolShape'
  <2>1. idle' \subseteq Conns /\ open' \subseteq Conns /\ dirty' \subseteq open'
    BY <1>1 DEF PoolShape
  <2> QED BY <1>1, <2>1 DEF PoolShape, ReturnStates
<1>4. Using' = Using /\ Opening' = Opening /\ Returns' = Returns \ {c} /\ Borrowers' = Borrowers
      /\ Counted' = Counted
  BY <1>1, <1>2 DEF Using, Opening, Returns, Borrowers, Counted, PoolShape
<1>5. \A x \in Using : lease[x].conn # c /\ lease[x].conn \in Conns
  BY <1>1 DEF PoolPlaces, PoolShape
<1>6. PoolPlaces'
  <2>1. \A x \in Using' : lease'[x].conn \in open' \ idle' /\ returning'[lease'[x].conn] = "no"
    BY <1>1, <1>2, <1>4, <1>5 DEF PoolPlaces
  <2>2. \A x \in idle' : x \in open' /\ returning'[x] = "no" /\ x \notin dirty'
    BY <1>1, <1>2 DEF PoolPlaces, PoolShape
  <2>3. \A x \in dirty' : returning'[x] # "release"
    BY <1>1, <1>2 DEF PoolPlaces, PoolShape
  <2>4. \A x \in open' : x \in idle' \cup Returns' \/ \E y \in Using' : lease'[y].conn = x
    BY <1>1, <1>4 DEF PoolPlaces
  <2>5. \A x \in Returns' : x \in open'
    BY <1>1, <1>4 DEF PoolPlaces
  <2> QED BY <1>1, <1>4, <2>1, <2>2, <2>3, <2>4, <2>5 DEF PoolPlaces
<1>7. PoolCount'
  <2>1. /\ Cardinality(Returns') + 1 = Cardinality(Returns)
        /\ Cardinality(open') + 1 = Cardinality(open)
    BY <1>1, <1>2, <1>4, PoolIsFinite, OneLess
  <2>2. /\ Cardinality(Returns') \in Nat /\ Cardinality(Borrowers) \in Nat /\ slots \in Nat
        /\ Cardinality(open') \in Nat /\ Cardinality(Opening) \in Nat /\ PoolSize \in Nat
    BY <1>1, <1>3, PoolIsFinite, PoolIsFiniteNext DEF PoolShape
  <2> QED BY <1>1, <1>4, <2>1, <2>2 DEF PoolCount
<1> QED BY <1>3, <1>6, <1>7 DEF PoolInv

LEMMA ReturnKeepsInv ==
    ASSUME PoolInv, NEW c \in Conns, ReturnStep(c)
    PROVE  PoolInv'
<1>1. CASE RolledBack(c)
  BY <1>1, ReturningKeepsInv DEF RolledBack, Returns
<1>2. CASE StartClosing(c)
  BY <1>2, ReturningKeepsInv DEF StartClosing, Returns
<1> QED BY <1>1, <1>2, ReleaseKeepsInv, ClosedKeepsInv DEF ReturnStep

LEMMA CloseKeepsInv ==
    ASSUME PoolInv, CloseIdle \/ StartClose \/ FinishClose
    PROVE  PoolInv'
<1>1. PoolShape /\ PoolPlaces /\ PoolCount
  BY DEF PoolInv
<1>2. CASE StartClose
  <2>1. Using' = Using /\ Returns' = Returns /\ Borrowers' = Borrowers
    BY <1>2 DEF StartClose, Using, Returns, Borrowers
  <2>2. closed' = "closing" /\ UNCHANGED <<slots, idle, open, opened, dirty, req, lease, returning>>
    BY <1>2 DEF StartClose
  <2> QED BY <1>1, <2>1, <2>2 DEF PoolInv, PoolShape, PoolPlaces, PoolCount
<1>3. CASE FinishClose
  <2>1. Using' = Using /\ Returns' = Returns /\ Borrowers' = Borrowers
    BY <1>3 DEF FinishClose, Using, Returns, Borrowers
  <2>2. closed' = "yes" /\ idle = {} /\ opened' = 0
        /\ UNCHANGED <<slots, idle, open, dirty, req, lease, returning>>
    BY <1>3 DEF FinishClose
  <2> QED BY <1>1, <2>1, <2>2 DEF PoolInv, PoolShape, PoolPlaces, PoolCount
<1>4. CASE CloseIdle
  <2>1. PICK c \in idle : idle' = idle \ {c} /\ open' = open \ {c}
    BY <1>4 DEF CloseIdle
  <2>2. closed = "closing" /\ UNCHANGED <<slots, opened, closed, dirty, req, lease, returning>>
    BY <1>4 DEF CloseIdle
  <2>3. c \in open /\ returning[c] = "no" /\ c \notin dirty
    BY <1>1 DEF PoolPlaces
  <2>4. Using' = Using /\ Returns' = Returns /\ Borrowers' = Borrowers
    BY <2>2 DEF Using, Returns, Borrowers
  <2>5. PoolShape'
    BY <1>1, <2>1, <2>2, <2>3 DEF PoolShape
  <2>6. PoolPlaces'
    <3>1. \A x \in Using : lease[x].conn # c
      BY <1>1 DEF PoolPlaces
    <3>2. c \notin Returns
      BY <2>3 DEF Returns
    <3> QED BY <1>1, <2>1, <2>2, <2>3, <2>4, <3>1, <3>2 DEF PoolPlaces
  <2>7. PoolCount'
    BY <1>1, <2>2, <2>4 DEF PoolCount
  <2> QED BY <2>5, <2>6, <2>7 DEF PoolInv
<1> QED BY <1>2, <1>3, <1>4

LEMMA PoolStepInv == PoolInv /\ (PoolStep \/ UNCHANGED poolVars) => PoolInv'
<1>1. ASSUME PoolInv, UNCHANGED poolVars PROVE PoolInv'
  <2>1. Using' = Using /\ Returns' = Returns /\ Borrowers' = Borrowers /\ Counted' = Counted
        /\ Opening' = Opening
    BY <1>1 DEF poolVars, Using, Returns, Borrowers, Counted, Opening
  <2> QED BY <1>1, <2>1 DEF poolVars, PoolInv, PoolShape, PoolPlaces, PoolCount
<1>2. ASSUME PoolInv, NEW r \in Requests, RequestStep(r) PROVE PoolInv'
  BY <1>2, WaitingKeepsInv, StartOpeningKeepsInv, OpenFailsKeepsInv, UseIdleKeepsInv,
     OpenedKeepsInv, WriteKeepsInv, EndKeepsInv DEF RequestStep
<1> QED BY <1>1, <1>2, ReturnKeepsInv, CloseKeepsInv DEF PoolStep

-----------------------------------------------------------------------------
(***************************************************************************)
(* The process.                                                            *)
(***************************************************************************)
LEMMA ServerSteps ==
    [Next]_serverVars => /\ PoolStep \/ UNCHANGED poolVars
                         /\ QueueStep \/ UNCHANGED queueVars
  BY DEF Next, serverVars, PoolStep, QueueStep, Startup, Request, Record, BeginShutdown, ClosePool,
         ShutDown, Background, Down

\* However requests end, are cancelled or outlive the shutdown: no connection
\* and no slot is shared, lost or given back twice, and no transaction reaches
\* the next request.
THEOREM PoolSound == Spec => []PoolIsSound
<1>1. Init => PoolInv
  BY PoolInitInv DEF Init
<1>2. PoolInv /\ [Next]_serverVars => PoolInv'
  BY ServerSteps, PoolStepInv
<1> QED BY <1>1, <1>2, PoolInvTells, PTL DEF Spec

\* However flushes fail, are cut by the shutdown or race the requests: every
\* event is in one place, rows have the order of the calls, and a stop that
\* returned has dealt with what was recorded before it.
THEOREM EventsAccounted == Spec => []EventsAreAccountedFor
<1>1. Init => QueueInv
  BY QueueInitInv DEF Init
<1>2. QueueInv /\ [Next]_serverVars => QueueInv'
  BY ServerSteps, QueueStepInv
<1> QED BY <1>1, <1>2, QueueInvTells, PTL DEF Spec

-----------------------------------------------------------------------------
(***************************************************************************)
(* SiteClients.                                                            *)
(***************************************************************************)
ClientJob == [at: {"idle", "list", "recheck"}, page: Nat, attempt: Nat, todo: SUBSET Due,
              row: Nat, errors: Nat, sent: Nat, listed: Nat]

ClientsShape ==
    /\ site \in Sites /\ clock \in Nat /\ standing \subseteq Due
    /\ job \in ClientJob /\ job.attempt <= MaxRetries[site]
    /\ budget \in Int /\ failures \in Nat /\ pausedUntil \in Nat
    /\ streak \in [count: Nat, at: Nat \cup {NoTime}]

\* hh: what is spent was sent, and a listing overruns its part of the budget by
\* the retries of its last page at most.
BudgetTells ==
    site = "hh" /\ job.at # "idle" =>
       /\ budget = RunBudget - job.sent /\ budget >= 0
       /\ job.at = "list" /\ job.attempt = 0 => job.sent <= ListBudget + MaxRetries["hh"]
       /\ job.at = "list" /\ job.attempt > 0 => job.sent <= ListBudget - 1 + job.attempt
       /\ job.at = "recheck" => job.listed <= ListBudget + MaxRetries["hh"]

\* vacancy_gov: the breaker has counted all that was refused in a row, and a
\* run it trips in has no request left.
BreakerTells ==
    site = "vacancy_gov" =>
       /\ job.at = "recheck" => failures <= job.errors
       /\ job.at # "idle" =>
             clock >= pausedUntil \/ (job.at = "recheck" /\ job.errors >= Consecutive)
       /\ Pause > 0 => streak.count <= failures
       /\ streak.at # NoTime =>
             streak.at + Pause <= pausedUntil \/ (Pause = 0 /\ streak.at <= clock)

ClientsInv == ClientsShape /\ BudgetTells /\ BreakerTells

LEMMA ClientsNumbers ==
    /\ RunBudget \in Nat \ {0} /\ Reserve \in Nat /\ Pause \in Nat
    /\ Consecutive \in Nat \ {0} /\ Threshold \in Nat \ {0} /\ Consecutive <= Threshold
    /\ \A s \in Sites : MaxRetries[s] \in Nat
    /\ "hh" \in Sites
BY ClientsAssumption DEF Sites

\* The listing's part of the budget is at least one request, and leaves the rest.
LEMMA ListBudgetLeaves ==
    /\ ListBudget \in Nat \ {0}
    /\ ListBudget = RunBudget - Least2(Reserve, RunBudget \div 4)
    /\ Least2(Reserve, RunBudget \div 4) \in Nat
<1> DEFINE quarter == RunBudget \div 4
           kept == Least2(Reserve, quarter)
<1>1. quarter \in Nat /\ 4 * quarter <= RunBudget
  BY ClientsNumbers
<1> HIDE DEF quarter
<1>2. kept \in Nat /\ kept <= quarter
  BY <1>1, ClientsNumbers DEF Least2
<1>3. RunBudget - kept >= 1
  BY <1>1, <1>2, ClientsNumbers
<1>4. Most2(1, RunBudget - kept) = RunBudget - kept
  BY <1>2, <1>3, ClientsNumbers DEF Most2
<1> QED BY <1>2, <1>3, <1>4, ClientsNumbers DEF ListBudget, quarter

LEMMA ClientsInvTells == ClientsInv => BudgetIsKept
<1> SUFFICES ASSUME ClientsInv, site = "hh", job.at # "idle"
             PROVE  /\ job.sent <= RunBudget
                    /\ job.at = "recheck" =>
                         RunBudget - job.listed
                            >= Least2(Reserve, RunBudget \div 4) - MaxRetries["hh"]
  BY DEF BudgetIsKept
<1>1. /\ job.sent \in Nat /\ job.listed \in Nat /\ budget = RunBudget - job.sent /\ budget >= 0
      /\ job.at = "recheck" => job.listed <= ListBudget + MaxRetries["hh"]
  BY DEF ClientsInv, ClientsShape, BudgetTells, ClientJob
<1> QED BY <1>1, ClientsNumbers, ListBudgetLeaves

LEMMA NoJobIsOne ==
    /\ NoJob \in ClientJob /\ NoJob.at = "idle" /\ NoJob.attempt = 0
    /\ NoJob.sent = 0 /\ NoJob.errors = 0
BY DEF NoJob, ClientJob

LEMMA ClientsStart == ClientsInit => ClientsInv
<1> SUFFICES ASSUME ClientsInit PROVE ClientsInv
  OBVIOUS
<1>1. ClientsShape
  BY NoJobIsOne, ClientsNumbers DEF ClientsInit, ClientsShape, NoStreak, NoTime
<1>2. BudgetTells
  BY NoJobIsOne DEF ClientsInit, BudgetTells
<1>3. BreakerTells
  BY NoJobIsOne DEF ClientsInit, BreakerTells, NoStreak
<1> QED BY <1>1, <1>2, <1>3 DEF ClientsInv

-----------------------------------------------------------------------------
\* What an answer of vacancy_gov is read as.
LEMMA GovAnswers ==
    ASSUME site = "vacancy_gov", NEW a \in Answers, NEW detail \in BOOLEAN
    PROVE  /\ Reads(a, detail) = "body" => a = "good"
           /\ Reads(a, detail) # "error" => a \in {"good", "missing"}
           /\ a = "good" => Reads(a, detail) # "error"
           /\ a \in {"good", "missing"} => ~Retried(a)
BY DEF Reads, GovReads, Answers, Retried, Transient

LEMMA BreakerCounts ==
    ASSUME ClientsInv, site = "vacancy_gov", clock >= pausedUntil,
           job.at \in {"list", "recheck"},
           NEW a \in Answers, NEW rows, AskSite(a, rows)
    PROVE  /\ failures' \in Nat /\ pausedUntil' \in Nat
           /\ streak' \in [count: Nat, at: Nat \cup {NoTime}]
           /\ Retried(a) => UNCHANGED <<failures, pausedUntil, streak>>
           /\ failures' <= failures + 1
           /\ Reads(a, job.at = "recheck") # "error" => failures' = 0 /\ UNCHANGED pausedUntil
           /\ pausedUntil' # pausedUntil => failures + 1 >= Threshold \/ Threshold = 1
           /\ Pause > 0 => streak'.count <= failures'
           /\ streak'.at # NoTime =>
                 streak'.at + Pause <= pausedUntil' \/ (Pause = 0 /\ streak'.at <= clock)
<1> DEFINE before == IF a \in {"good", "odd", "hollow", "missing"} THEN 0 ELSE failures
           what == Reads(a, job.at = "recheck")
           refused == what = "error" /\ a \notin {"odd", "hollow", "missing"}
           tooMany == refused /\ streak.count + 1 >= Threshold
<1>1. /\ clock \in Nat /\ failures \in Nat /\ pausedUntil \in Nat
      /\ streak \in [count: Nat, at: Nat \cup {NoTime}]
      /\ streak.count \in Nat /\ streak.at \in Nat \cup {NoTime}
      /\ Pause > 0 => streak.count <= failures
      /\ streak.at # NoTime =>
            streak.at + Pause <= pausedUntil \/ (Pause = 0 /\ streak.at <= clock)
  BY DEF ClientsInv, ClientsShape, BreakerTells
<1>2. CASE Retried(a)
  <2>1. UNCHANGED <<failures, pausedUntil, streak>>
    BY <1>2 DEF AskSite, RecordFailure
  <2>2. what = "error"
    BY <1>2, GovAnswers
  <2> QED BY <1>1, <1>2, <2>1, <2>2
<1>3. CASE ~Retried(a)
  <2>1. /\ what # "error" => a \in {"good", "missing"}
        /\ refused => before = failures
    BY GovAnswers DEF Answers
  <2>2. before \in Nat /\ before <= failures
    BY <1>1
  <2>3. /\ what # "error" => failures' = before /\ pausedUntil' = pausedUntil
        /\ what = "error" /\ before + 1 >= Threshold => failures' = 0 /\ pausedUntil' = clock + Pause
        /\ what = "error" /\ ~(before + 1 >= Threshold) =>
              failures' = before + 1 /\ pausedUntil' = pausedUntil
    BY <1>3 DEF AskSite, RecordFailure
  <2>4. streak' = [count |-> IF refused /\ ~tooMany /\ pausedUntil' = pausedUntil
                             THEN streak.count + 1 ELSE 0,
                   at |-> IF tooMany THEN clock ELSE streak.at]
    BY <1>3 DEF AskSite, Extended
  <2> HIDE DEF before, what, refused, tooMany
  <2>5. /\ streak'.count = IF refused /\ ~tooMany /\ pausedUntil' = pausedUntil
                           THEN streak.count + 1 ELSE 0
        /\ streak'.at = IF tooMany THEN clock ELSE streak.at
        /\ streak' \in [count: Nat, at: Nat \cup {NoTime}]
    BY <1>1, <2>4
  <2>6. what # "error" => failures' = 0
    BY <2>1, <2>3 DEF before
  <2>7. failures' \in Nat /\ pausedUntil' \in Nat /\ failures' <= failures + 1
    BY <1>1, <2>2, <2>3, ClientsNumbers
  <2>8. pausedUntil' # pausedUntil => failures + 1 >= Threshold
    BY <1>1, <2>2, <2>3, ClientsNumbers
  <2>9. Pause > 0 => streak'.count <= failures'
    <3>1. SUFFICES ASSUME Pause > 0, refused, ~tooMany, pausedUntil' = pausedUntil
                   PROVE  streak.count + 1 <= failures'
      BY <2>5, <2>7
    <3>2. what = "error" /\ before = failures
      BY <2>1, <3>1 DEF refused
    <3>3. ~(before + 1 >= Threshold)
      BY <1>1, <2>3, <3>1, <3>2, ClientsNumbers
    <3> QED BY <1>1, <2>3, <3>1, <3>2, <3>3
  <2>10. streak'.at # NoTime =>
            streak'.at + Pause <= pausedUntil' \/ (Pause = 0 /\ streak'.at <= clock)
    <3>1. CASE tooMany
      <4>1. what = "error" /\ before = failures /\ streak.count + 1 >= Threshold
        BY <2>1, <3>1 DEF refused, tooMany
      <4>2. CASE Pause > 0
        <5>1. pausedUntil' = clock + Pause
          BY <1>1, <2>3, <4>1, <4>2, ClientsNumbers
        <5> QED BY <1>1, <2>5, <3>1, <5>1, ClientsNumbers
      <4>3. CASE Pause = 0
        BY <1>1, <2>5, <3>1, <4>3
      <4> QED BY <4>2, <4>3, ClientsNumbers
    <3>2. CASE ~tooMany
      <4>1. pausedUntil' >= pausedUntil
        BY <1>1, <2>2, <2>3, ClientsNumbers
      <4> QED BY <1>1, <2>5, <2>7, <3>2, <4>1, ClientsNumbers
    <3> QED BY <3>1, <3>2
  <2> QED BY <1>3, <2>3, <2>5, <2>6, <2>7, <2>8, <2>9, <2>10 DEF what
<1> QED BY <1>2, <1>3
-----------------------------------------------------------------------------
\* ClientJob, whatever its numbers are drawn from.
JobOf(Places, Todos, Numbers) ==
    [at: Places, page: Numbers, attempt: Numbers, todo: Todos, row: Numbers, errors: Numbers,
     sent: Numbers, listed: Numbers]

LEMMA ClientJobIsOne == ClientJob = JobOf({"idle", "list", "recheck"}, SUBSET Due, Nat)
BY DEF ClientJob, JobOf

AskedAgain(q, attempt, sent, r) == [q EXCEPT !.attempt = attempt, !.sent = sent, !.row = r]
PageAhead(q, page, sent) == [q EXCEPT !.page = page, !.attempt = 0, !.sent = sent]
NextRow(q, todo, sent, errors) ==
    [q EXCEPT !.todo = todo, !.attempt = 0, !.row = 0, !.sent = sent, !.errors = errors]

LEMMA JobsOf ==
    ASSUME NEW Places, NEW Todos, NEW Numbers, NEW q \in JobOf(Places, Todos, Numbers),
           NEW n \in Numbers, NEW m \in Numbers, NEW k \in Numbers, NEW t \in Todos, 0 \in Numbers
    PROVE  /\ AskedAgain(q, n, m, k) \in JobOf(Places, Todos, Numbers)
           /\ PageAhead(q, n, m) \in JobOf(Places, Todos, Numbers)
           /\ NextRow(q, t, m, n) \in JobOf(Places, Todos, Numbers)
BY DEF JobOf, AskedAgain, PageAhead, NextRow

LEMMA JobSteps ==
    ASSUME NEW q \in ClientJob, NEW n \in Nat, NEW m \in Nat, NEW k \in Nat, NEW t \in SUBSET Due
    PROVE  /\ AskedAgain(q, n, m, k) \in ClientJob
           /\ PageAhead(q, n, m) \in ClientJob
           /\ NextRow(q, t, m, n) \in ClientJob
BY ClientJobIsOne, JobsOf

\* The records that a step makes of the job.
LEMMA JobsMade ==
    ASSUME job \in ClientJob, standing \subseteq Due, NEW r \in Nat
    PROVE  /\ AskAgain(r) \in ClientJob
           /\ AskAgain(r).at = job.at /\ AskAgain(r).attempt = job.attempt + 1
           /\ AskAgain(r).sent = job.sent + 1 /\ AskAgain(r).listed = job.listed
           /\ AskAgain(r).errors = job.errors
           /\ \A n \in Nat : /\ Recheck(n) \in ClientJob /\ Recheck(n).at = "recheck"
                             /\ Recheck(n).attempt = 0 /\ Recheck(n).sent = n
                             /\ Recheck(n).listed = n /\ Recheck(n).errors = 0
<1>1. job.attempt + 1 \in Nat /\ job.sent + 1 \in Nat
  BY DEF ClientJob
<1>2. AskAgain(r) = AskedAgain(job, job.attempt + 1, job.sent + 1, r)
  BY DEF AskAgain, AskedAgain
<1>3. AskAgain(r) \in ClientJob
  BY <1>1, <1>2, JobSteps
<1>4. /\ AskAgain(r).at = job.at /\ AskAgain(r).attempt = job.attempt + 1
      /\ AskAgain(r).sent = job.sent + 1 /\ AskAgain(r).listed = job.listed
      /\ AskAgain(r).errors = job.errors
  BY DEF AskAgain, ClientJob
<1>5. ASSUME NEW n \in Nat
      PROVE  /\ Recheck(n) \in ClientJob /\ Recheck(n).at = "recheck"
             /\ Recheck(n).attempt = 0 /\ Recheck(n).sent = n
             /\ Recheck(n).listed = n /\ Recheck(n).errors = 0
  BY DEF Recheck, NoJob, ClientJob
<1> QED BY <1>3, <1>4, <1>5

\* What a request spends, for hh.
LEMMA SpendCounts ==
    ASSUME ClientsInv, job.at # "idle", NEW a \in Answers, NEW rows, AskSite(a, rows)
    PROVE  /\ UNCHANGED <<site, clock>> /\ budget' \in Int
           /\ site = "hh" => /\ budget' = RunBudget - (job.sent + 1) /\ budget' >= 0
<1>1. /\ budget \in Int /\ job.sent \in Nat
      /\ site = "hh" => budget = RunBudget - job.sent /\ budget >= 0
  BY DEF ClientsInv, ClientsShape, BudgetTells, ClientJob
<1>2. /\ UNCHANGED <<site, clock>>
      /\ budget' = IF site = "hh" THEN budget - 1 ELSE budget
      /\ site = "hh" => budget > 0
  BY DEF AskSite, Spend, CanSpend
<1> QED BY <1>1, <1>2, ClientsNumbers

\* The three counters of the breaker, whatever the source.
LEMMA CountersStay ==
    ASSUME ClientsInv, NEW a \in Answers, NEW rows, AskSite(a, rows)
    PROVE  /\ failures' \in Nat /\ pausedUntil' \in Nat
           /\ streak' \in [count: Nat, at: Nat \cup {NoTime}]
<1>1. /\ clock \in Nat /\ failures \in Nat /\ pausedUntil \in Nat
      /\ streak \in [count: Nat, at: Nat \cup {NoTime}]
      /\ streak.count \in Nat /\ streak.at \in Nat \cup {NoTime}
  BY DEF ClientsInv, ClientsShape
<1>2. failures' \in Nat /\ pausedUntil' \in Nat
  BY <1>1, ClientsNumbers DEF AskSite, RecordFailure
<1>3. \A refused \in BOOLEAN : Extended(refused) \in [count: Nat, at: Nat \cup {NoTime}]
  BY <1>1 DEF Extended
<1> DEFINE was == Reads(a, job.at = "recheck") = "error" /\ a \notin {"odd", "hollow", "missing"}
<1>4. was \in BOOLEAN
  OBVIOUS
<1>5. streak' = streak \/ streak' = Extended(was)
  BY DEF AskSite
<1> QED BY <1>1, <1>2, <1>3, <1>4, <1>5

-----------------------------------------------------------------------------
LEMMA BeginRunKeeps == ClientsInv /\ BeginRun => ClientsInv'
<1> SUFFICES ASSUME ClientsInv, BeginRun PROVE ClientsInv'
  OBVIOUS
<1>1. /\ job' \in ClientJob /\ job'.at = "list" /\ job'.attempt = 0 /\ job'.sent = 0
      /\ UNCHANGED <<site, clock, standing, failures, pausedUntil, streak>>
      /\ site = "hh" => budget' = RunBudget
      /\ budget' \in Int /\ clock >= pausedUntil
  BY ClientsNumbers DEF BeginRun, NoJob, ClientJob, Enabled, ClientsInv, ClientsShape
<1>2. ClientsShape'
  BY <1>1, ClientsNumbers DEF ClientsInv, ClientsShape
<1>3. BudgetTells'
  BY <1>1, ClientsNumbers, ListBudgetLeaves DEF BudgetTells
<1>4. BreakerTells'
  BY <1>1 DEF ClientsInv, BreakerTells
<1> QED BY <1>2, <1>3, <1>4 DEF ClientsInv

LEMMA StopListingKeeps == ClientsInv /\ StopListing => ClientsInv'
<1> SUFFICES ASSUME ClientsInv, StopListing PROVE ClientsInv'
  OBVIOUS
<1>1. /\ job \in ClientJob /\ standing \subseteq Due /\ job.sent \in Nat /\ job.attempt \in Nat
      /\ site \in Sites /\ MaxRetries[site] \in Nat /\ job.attempt <= MaxRetries[site]
  BY ClientsNumbers DEF ClientsInv, ClientsShape, ClientJob
<1>2. /\ job' = Recheck(job.sent) /\ job.at = "list" /\ site = "hh"
      /\ UNCHANGED <<site, clock, standing, budget, failures, pausedUntil, streak>>
  BY DEF StopListing, ListBudgetSpent, CanSpend
<1>3. /\ job' \in ClientJob /\ job'.at = "recheck" /\ job'.attempt = 0
      /\ job'.sent = job.sent /\ job'.listed = job.sent
  BY <1>1, <1>2, JobsMade
<1>4. ClientsShape'
  BY <1>1, <1>2, <1>3 DEF ClientsInv, ClientsShape
<1>5. BudgetTells'
  <2>1. /\ budget = RunBudget - job.sent /\ budget >= 0
        /\ job.attempt = 0 => job.sent <= ListBudget + MaxRetries["hh"]
        /\ job.attempt > 0 => job.sent <= ListBudget - 1 + job.attempt
    BY <1>2 DEF ClientsInv, BudgetTells
  <2>2. job.sent <= ListBudget + MaxRetries["hh"]
    BY <1>1, <1>2, <2>1, ListBudgetLeaves
  <2> QED BY <1>2, <1>3, <2>1, <2>2 DEF BudgetTells
<1>6. BreakerTells'
  BY <1>2 DEF BreakerTells
<1> QED BY <1>4, <1>5, <1>6 DEF ClientsInv

LEMMA StopRecheckingKeeps == ClientsInv /\ StopRechecking => ClientsInv'
<1> SUFFICES ASSUME ClientsInv, StopRechecking PROVE ClientsInv'
  OBVIOUS
<1>1. /\ job' = NoJob
      /\ UNCHANGED <<site, clock, standing, budget, failures, pausedUntil, streak>>
  BY DEF StopRechecking
<1>2. ClientsShape'
  BY <1>1, NoJobIsOne, ClientsNumbers DEF ClientsInv, ClientsShape
<1>3. BudgetTells' /\ BreakerTells'
  BY <1>1, NoJobIsOne DEF ClientsInv, BudgetTells, BreakerTells
<1> QED BY <1>2, <1>3 DEF ClientsInv

LEMMA AskForPageKeeps ==
    ASSUME NEW a \in Answers, ClientsInv, AskForPage(a)
    PROVE  ClientsInv'
<1>1. /\ job \in ClientJob /\ standing \subseteq Due /\ job.at = "list"
      /\ job.sent \in Nat /\ job.attempt \in Nat /\ job.page \in Nat
      /\ site \in Sites /\ MaxRetries[site] \in Nat /\ job.attempt <= MaxRetries[site]
      /\ UNCHANGED standing /\ AskSite(a, {})
  BY ClientsNumbers DEF ClientsInv, ClientsShape, ClientJob, AskForPage
<1>2. /\ UNCHANGED <<site, clock>> /\ budget' \in Int
      /\ site = "hh" => budget' = RunBudget - (job.sent + 1) /\ budget' >= 0
  BY <1>1, SpendCounts
<1>3. /\ failures' \in Nat /\ pausedUntil' \in Nat
      /\ streak' \in [count: Nat, at: Nat \cup {NoTime}]
  BY <1>1, CountersStay
<1> DEFINE what == Reads(a, FALSE)
           again == Retried(a) /\ job' = AskAgain(0)
           failed == ~Retried(a) /\ what = "error" /\ job' = NoJob
           done == what = "body" /\ job' = Recheck(job.sent + 1)
           next == what = "body"
                   /\ job' = [job EXCEPT !.page = @ + 1, !.attempt = 0, !.sent = @ + 1]
<1>4. again \/ failed \/ done \/ next
  BY DEF AskForPage
<1>5. again => /\ job' \in ClientJob /\ job'.at = "list" /\ job'.sent = job.sent + 1
               /\ job'.attempt = job.attempt + 1 /\ job'.attempt <= MaxRetries[site]
  BY <1>1, JobsMade DEF Retried
<1>6. failed => job' \in ClientJob /\ job'.at = "idle" /\ job'.attempt = 0
  BY NoJobIsOne
<1>7. done => /\ job' \in ClientJob /\ job'.at = "recheck" /\ job'.sent = job.sent + 1
              /\ job'.attempt = 0 /\ job'.listed = job.sent + 1
  BY <1>1, JobsMade
<1>8. next => /\ job' \in ClientJob /\ job'.at = "list" /\ job'.sent = job.sent + 1
              /\ job'.attempt = 0
  <2>1. job.page + 1 \in Nat /\ job.sent + 1 \in Nat
    BY <1>1
  <2>2. next => job' = PageAhead(job, job.page + 1, job.sent + 1)
    BY DEF PageAhead
  <2>3. next => job' \in ClientJob
    <3>1. job.todo \in SUBSET Due
      BY <1>1 DEF ClientJob
    <3>2. PageAhead(job, job.page + 1, job.sent + 1) \in ClientJob
      BY <1>1, <2>1, <3>1, JobSteps
    <3> QED BY <2>2, <3>2
  <2>4. next => job'.at = "list" /\ job'.sent = job.sent + 1 /\ job'.attempt = 0
    BY <1>1 DEF ClientJob
  <2> QED BY <2>3, <2>4
<1>9. ClientsShape'
  <2> HIDE DEF again, failed, done, next
  <2>1. job' \in ClientJob /\ job'.attempt <= MaxRetries[site]
    BY <1>1, <1>4, <1>5, <1>6, <1>7, <1>8
  <2> QED BY <1>1, <1>2, <1>3, <2>1 DEF ClientsInv, ClientsShape
<1>10. BudgetTells'
  <2> SUFFICES ASSUME site = "hh" PROVE BudgetTells'
    BY <1>2 DEF BudgetTells
  <2>1. /\ budget = RunBudget - job.sent
        /\ job.attempt > 0 => job.sent <= ListBudget - 1 + job.attempt
        /\ job.attempt = 0 => ~(RunBudget - budget >= ListBudget)
    BY <1>1 DEF ClientsInv, BudgetTells, AskForPage, ListBudgetSpent
  <2>2. job.sent + 1 <= ListBudget + job.attempt /\ MaxRetries["hh"] \in Nat
    BY <1>1, <2>1, ListBudgetLeaves, ClientsNumbers
  <2>3. job.sent + 1 <= ListBudget + MaxRetries["hh"]
    BY <1>1, <2>2, ListBudgetLeaves
  <2>4. CASE again
    <3>1. job'.sent <= ListBudget - 1 + job'.attempt /\ job'.attempt # 0
      BY <1>1, <1>5, <2>2, <2>4, ListBudgetLeaves
    <3> QED BY <1>2, <1>5, <2>4, <3>1 DEF BudgetTells
  <2>5. CASE failed
    BY <1>6, <2>5 DEF BudgetTells
  <2>6. CASE done
    BY <1>2, <1>7, <2>3, <2>6 DEF BudgetTells
  <2>7. CASE next
    BY <1>2, <1>8, <2>3, <2>7 DEF BudgetTells
  <2> QED BY <1>4, <2>4, <2>5, <2>6, <2>7
<1>11. BreakerTells'
  <2> SUFFICES ASSUME site = "vacancy_gov" PROVE BreakerTells'
    BY <1>2 DEF BreakerTells
  <2>1. clock >= pausedUntil
    BY <1>1 DEF ClientsInv, BreakerTells
  <2>2. /\ Retried(a) => UNCHANGED <<failures, pausedUntil, streak>>
        /\ what # "error" => failures' = 0 /\ UNCHANGED pausedUntil
        /\ Pause > 0 => streak'.count <= failures'
        /\ streak'.at # NoTime =>
              streak'.at + Pause <= pausedUntil' \/ (Pause = 0 /\ streak'.at <= clock)
    <3>1. (job.at = "recheck") = FALSE
      BY <1>1
    <3> QED BY <1>1, <2>1, <3>1, BreakerCounts
  <2>3. CASE again
    BY <1>2, <1>5, <2>1, <2>2, <2>3 DEF BreakerTells
  <2>4. CASE failed
    BY <1>2, <1>6, <2>2, <2>4 DEF BreakerTells
  <2>5. CASE done
    <3>1. failures' = 0 /\ pausedUntil' = pausedUntil
      <4>1. what # "error"
        BY <2>5
      <4> QED BY <2>2, <4>1
    <3>2. job'.errors = 0
      <4>1. job' = Recheck(job.sent + 1) /\ job.sent + 1 \in Nat
        BY <1>1, <2>5
      <4> QED BY <4>1 DEF Recheck, NoJob
    <3>3. failures' <= job'.errors
      BY <3>1, <3>2
    <3> HIDE DEF done
    <3> QED BY <1>2, <1>7, <2>1, <2>2, <2>5, <3>1, <3>3 DEF BreakerTells
  <2>6. CASE next
    BY <1>2, <1>8, <2>1, <2>2, <2>6 DEF BreakerTells
  <2> QED BY <1>4, <2>3, <2>4, <2>5, <2>6
<1> QED BY <1>9, <1>10, <1>11 DEF ClientsInv

\* A run that may still ask is not one that the breaker has tripped in.
LEMMA DetailsAreAllowed ==
    ASSUME NEW r \in Due, NEW a \in Answers, ClientsInv, AskForDetail(r, a),
           site = "vacancy_gov"
    PROVE  clock >= pausedUntil
<1>1. job.at = "recheck" /\ job.errors < Consecutive /\ job.errors \in Nat
  BY DEF AskForDetail, ClientsInv, ClientsShape, ClientJob
<1> QED BY <1>1, ClientsNumbers DEF ClientsInv, BreakerTells

LEMMA AskForDetailKeeps ==
    ASSUME NEW r \in Due, NEW a \in Answers, ClientsInv, AskForDetail(r, a)
    PROVE  ClientsInv'
<1>1. /\ job \in ClientJob /\ standing \subseteq Due /\ job.at = "recheck"
      /\ job.sent \in Nat /\ job.attempt \in Nat /\ job.errors \in Nat
      /\ job.errors < Consecutive /\ r \in Nat
      /\ site \in Sites /\ MaxRetries[site] \in Nat /\ job.attempt <= MaxRetries[site]
      /\ AskSite(a, {r})
  BY ClientsNumbers, ClientsAssumption DEF ClientsInv, ClientsShape, ClientJob, AskForDetail
<1>2. /\ UNCHANGED <<site, clock>> /\ budget' \in Int
      /\ site = "hh" => budget' = RunBudget - (job.sent + 1) /\ budget' >= 0
  BY <1>1, SpendCounts
<1>3. /\ failures' \in Nat /\ pausedUntil' \in Nat
      /\ streak' \in [count: Nat, at: Nat \cup {NoTime}]
  BY <1>1, CountersStay
<1> DEFINE what == Reads(a, TRUE)
           again == Retried(a) /\ job' = AskAgain(r)
           count == IF what = "error" THEN job.errors + 1 ELSE 0
           passed == ~Retried(a)
                     /\ job' = [job EXCEPT !.todo = @ \ {r}, !.attempt = 0, !.row = 0,
                                           !.sent = @ + 1, !.errors = count]
<1>4. (again \/ passed) /\ standing' \subseteq Due
  BY <1>1 DEF AskForDetail
<1>5. again => /\ job' \in ClientJob /\ job'.at = "recheck" /\ job'.sent = job.sent + 1
               /\ job'.attempt = job.attempt + 1 /\ job'.attempt <= MaxRetries[site]
               /\ job'.listed = job.listed /\ job'.errors = job.errors
  BY <1>1, JobsMade DEF Retried
<1>6. count \in Nat
  <2>1. job.errors + 1 \in Nat
    BY <1>1
  <2> QED BY <2>1
<1>7. passed => /\ job' \in ClientJob /\ job'.at = "recheck" /\ job'.sent = job.sent + 1
                /\ job'.attempt = 0 /\ job'.listed = job.listed /\ job'.errors = count
  <2> HIDE DEF count
  <2>1. job.sent + 1 \in Nat /\ job.todo \ {r} \in SUBSET Due
    BY <1>1 DEF ClientJob
  <2>2. passed => job' = NextRow(job, job.todo \ {r}, job.sent + 1, count)
    BY DEF NextRow
  <2>3. passed => job' \in ClientJob
    BY <1>1, <1>6, <2>1, <2>2, JobSteps
  <2>4. passed => /\ job'.at = "recheck" /\ job'.sent = job.sent + 1
                  /\ job'.attempt = 0 /\ job'.listed = job.listed /\ job'.errors = count
    BY <1>1 DEF ClientJob
  <2> QED BY <2>3, <2>4
<1>8. ClientsShape'
  <2> HIDE DEF again, passed
  <2>1. job' \in ClientJob /\ job'.attempt <= MaxRetries[site]
    <3>1. CASE again
      BY <1>5, <3>1
    <3>2. CASE passed
      <4>1. job' \in ClientJob /\ job'.attempt = 0
        BY <1>7, <3>2
      <4> QED BY <1>1, <4>1
    <3> QED BY <1>4, <3>1, <3>2
  <2> QED BY <1>1, <1>2, <1>3, <1>4, <2>1 DEF ClientsInv, ClientsShape
<1>9. BudgetTells'
  <2>1. job'.at = "recheck" /\ job'.sent = job.sent + 1 /\ job'.listed = job.listed
    BY <1>4, <1>5, <1>7
  <2>2. site = "hh" => job.listed <= ListBudget + MaxRetries["hh"]
    BY <1>1 DEF ClientsInv, BudgetTells
  <2> QED BY <1>2, <2>1, <2>2 DEF BudgetTells
<1>10. BreakerTells'
  <2> SUFFICES ASSUME site = "vacancy_gov" PROVE BreakerTells'
    BY <1>2 DEF BreakerTells
  <2>1. clock >= pausedUntil /\ failures <= job.errors /\ failures \in Nat
    BY <1>1, DetailsAreAllowed DEF ClientsInv, BreakerTells, ClientsShape
  <2>2. /\ Retried(a) => UNCHANGED <<failures, pausedUntil, streak>>
        /\ failures' <= failures + 1
        /\ what # "error" => failures' = 0 /\ UNCHANGED pausedUntil
        /\ pausedUntil' # pausedUntil => failures + 1 >= Threshold \/ Threshold = 1
        /\ Pause > 0 => streak'.count <= failures'
        /\ streak'.at # NoTime =>
              streak'.at + Pause <= pausedUntil' \/ (Pause = 0 /\ streak'.at <= clock)
    <3>1. (job.at = "recheck") = TRUE
      BY <1>1
    <3> QED BY <1>1, <2>1, <3>1, BreakerCounts
  <2>3. CASE again
    BY <1>2, <1>5, <2>1, <2>2, <2>3 DEF BreakerTells
  <2>4. CASE passed
    <3> HIDE DEF passed
    <3>0. job'.errors = IF what = "error" THEN job.errors + 1 ELSE 0
      BY <1>7, <2>4
    <3> HIDE DEF what
    <3>1. failures' <= job'.errors
      BY <1>1, <1>3, <2>1, <2>2, <3>0
    <3>2. clock >= pausedUntil' \/ job'.errors >= Consecutive
      <4>1. CASE pausedUntil' = pausedUntil
        BY <2>1, <4>1
      <4>2. CASE pausedUntil' # pausedUntil
        <5>1. failures + 1 >= Threshold \/ Threshold = 1
          BY <2>2, <4>2
        <5>2. what = "error"
          BY <2>2, <4>2
        <5>3. job'.errors = job.errors + 1
          BY <3>0, <5>2
        <5> QED BY <1>1, <2>1, <5>1, <5>3, ClientsNumbers
      <4> QED BY <4>1, <4>2
    <3> QED BY <1>2, <1>7, <2>2, <2>4, <3>1, <3>2 DEF BreakerTells
  <2> QED BY <1>4, <2>3, <2>4
<1> QED BY <1>8, <1>9, <1>10 DEF ClientsInv

LEMMA RelistKeeps ==
    ASSUME NEW r \in Due, ClientsInv, Relist(r)
    PROVE  ClientsInv'
<1>1. UNCHANGED <<site, clock, job, budget, failures, pausedUntil, streak>>
      /\ standing' \subseteq Due
  BY DEF Relist, ClientsInv, ClientsShape
<1> QED BY <1>1 DEF ClientsInv, ClientsShape, BudgetTells, BreakerTells

LEMMA WaitKeeps == ClientsInv /\ Wait => ClientsInv'
<1> SUFFICES ASSUME ClientsInv, Wait PROVE ClientsInv'
  OBVIOUS
<1>1. /\ UNCHANGED <<site, standing, job, budget, failures, pausedUntil, streak>>
      /\ clock' = clock + 1 /\ clock \in Nat
  BY DEF Wait, ClientsInv, ClientsShape
<1>2. ClientsShape' /\ BudgetTells'
  BY <1>1 DEF ClientsInv, ClientsShape, BudgetTells
<1>3. BreakerTells'
  <2>1. /\ pausedUntil \in Nat /\ streak.at \in Nat \cup {NoTime}
    BY DEF ClientsInv, ClientsShape
  <2> QED BY <1>1, <2>1 DEF ClientsInv, BreakerTells, NoTime
<1> QED BY <1>2, <1>3 DEF ClientsInv

LEMMA ClientsKeep == ClientsInv /\ [ClientsNext]_clientVars => ClientsInv'
<1> SUFFICES ASSUME ClientsInv, [ClientsNext]_clientVars PROVE ClientsInv'
  OBVIOUS
<1>1. CASE UNCHANGED clientVars
  BY <1>1 DEF clientVars, ClientsInv, ClientsShape, BudgetTells, BreakerTells
<1>2. CASE ClientsNext
  BY <1>2, BeginRunKeeps, StopListingKeeps, StopRecheckingKeeps, WaitKeeps, AskForPageKeeps,
     AskForDetailKeeps, RelistKeeps DEF ClientsNext
<1> QED BY <1>1, <1>2

THEOREM ClientsInvHolds == ClientsSpec => []ClientsInv
<1> QED BY ClientsStart, ClientsKeep, PTL DEF ClientsSpec

\* hh is asked no more than MAX_REQUESTS_PER_RUN times in a run, and the listing
\* leaves the re-checks their part.
THEOREM BudgetKept == ClientsSpec => []BudgetIsKept
<1> QED BY ClientsInvHolds, ClientsInvTells, PTL

-----------------------------------------------------------------------------
\* A row goes when the answer to its own request said that it is gone.
LEMMA RowsGo ==
    ASSUME ClientsInv, [ClientsNext]_clientVars
    PROVE  standing \ standing' \subseteq told'
<1>1. CASE UNCHANGED clientVars
  BY <1>1 DEF clientVars
<1>2. CASE BeginRun \/ StopListing \/ StopRechecking \/ Wait
  BY <1>2 DEF BeginRun, StopListing, StopRechecking, Wait
<1>3. ASSUME NEW a \in Answers, AskForPage(a) PROVE standing \ standing' \subseteq told'
  BY <1>3 DEF AskForPage
<1>4. ASSUME NEW r \in Due, Relist(r) PROVE standing \ standing' \subseteq told'
  BY <1>4 DEF Relist
<1>5. ASSUME NEW a \in Answers, NEW r \in Due, AskForDetail(r, a)
      PROVE  standing \ standing' \subseteq told'
  <2>1. standing \ standing' = {} \/ (Reads(a, TRUE) = "none" /\ standing \ standing' \subseteq {r})
    BY <1>5 DEF AskForDetail
  <2>2. Reads(a, TRUE) = "none" => a = "missing" \/ (site = "osonish" /\ a = "hollow")
    <3>1. site \in Sites
      BY DEF ClientsInv, ClientsShape
    <3> QED BY <3>1 DEF Sites, Reads, HHReads, GovReads, OsonishReads, Answers
  <2>3. Reads(a, TRUE) = "none" => told' = {r}
    BY <1>5, <2>2 DEF AskForDetail, AskSite
  <2> QED BY <2>1, <2>3
<1> QED BY <1>1, <1>2, <1>3, <1>4, <1>5 DEF ClientsNext

LEMMA RefusalsCheap ==
    ASSUME ClientsInv, [ClientsNext]_clientVars, site = "vacancy_gov", Sends,
           streak.at # NoTime
    PROVE  clock >= streak.at + Pause
<1>1. /\ clock \in Nat /\ pausedUntil \in Nat /\ streak.at \in Nat \cup {NoTime}
      /\ job.sent \in Nat /\ job \in ClientJob /\ standing \subseteq Due
      /\ streak.at + Pause <= pausedUntil \/ (Pause = 0 /\ streak.at <= clock)
  BY DEF ClientsInv, ClientsShape, BreakerTells, ClientJob
<1>2. clock >= pausedUntil
  <2>1. ~UNCHANGED job /\ ~(job' = NoJob)
    <3>1. ~(job'.sent = job.sent) /\ ~(job'.sent = 0)
      BY <1>1 DEF Sends
    <3> QED BY <3>1, NoJobIsOne
  <2>2. ~StopListing /\ ~BeginRun
    <3>1. ~StopListing
      BY DEF StopListing, ListBudgetSpent, CanSpend
    <3>2. BeginRun => job'.sent = 0
      BY DEF BeginRun, NoJob
    <3> QED BY <1>1, <3>1, <3>2 DEF Sends
  <2>3. \/ \E a \in Answers : AskForPage(a)
        \/ \E a \in Answers : \E r \in Due : AskForDetail(r, a)
    BY <2>1, <2>2 DEF ClientsNext, clientVars, StopRechecking, Wait, Relist
  <2>4. (\E a \in Answers : AskForPage(a)) => clock >= pausedUntil
    BY DEF AskForPage, ClientsInv, BreakerTells
  <2> QED BY <2>3, <2>4, DetailsAreAllowed
<1> QED BY <1>1, <1>2, ClientsNumbers

\* What a source is read as: a row goes only when its own answer says so, and a
\* source that refused Threshold requests in a row is not asked again within the pause.
THEOREM AnswersRead == ClientsSpec => AnswersAreRead
<1>1. ClientsInv /\ [ClientsNext]_clientVars => [standing \ standing' \subseteq told']_clientVars
  BY RowsGo
<1>2. ClientsInv /\ [ClientsNext]_clientVars =>
        [site = "vacancy_gov" /\ Sends /\ streak.at # NoTime => clock >= streak.at + Pause]_clientVars
  BY RefusalsCheap
<1> QED BY <1>1, <1>2, ClientsInvHolds, PTL
        DEF ClientsSpec, AnswersAreRead, RowsGoWhenGone, RefusalsAreCheap

-----------------------------------------------------------------------------
(***************************************************************************)
(* RequestPace.                                                            *)
(***************************************************************************)
Sleeps(c) == sleep[c] # Awake

PaceShape ==
    /\ pacer \in {"limiter", "osonish"} /\ instant \in Nat /\ nextAt \in Nat
    /\ queue \in Seq(Callers)
    /\ sleep \in [Callers -> Nat \cup {Awake}] /\ asked \in [Callers -> Nat]
    /\ lastSent \in Int /\ closest \in Int

\* The next request may go out no sooner than the interval after the last one,
\* less what the loop was late with that; a sleeper is late by MaxLate at most.
SlotsAreAhead ==
    /\ closest >= Interval - MaxLate
    /\ lastSent <= instant
    /\ nextAt >= lastSent + Interval - MaxLate
    /\ \A c \in Callers : Sleeps(c) => instant <= sleep[c] + MaxLate

\* Under the lock only its holder sleeps, for the next slot.
HolderSleeps ==
    pacer = "limiter" => \A c \in Callers :
        Sleeps(c) => queue # <<>> /\ c = Head(queue) /\ sleep[c] = nextAt

\* osonish's sleepers have slots of their own, before the next one.
SlotsAreApart ==
    pacer = "osonish" =>
        /\ \A c \in Callers : Sleeps(c) => /\ sleep[c] + Interval <= nextAt
                                           /\ sleep[c] - asked[c] <= MaxQueue
        /\ MaxLate < Interval => \A c \in Callers :
              Sleeps(c) => sleep[c] >= lastSent + Interval - MaxLate
        /\ \A c, d \in Callers : Sleeps(c) /\ Sleeps(d) /\ c # d =>
              sleep[c] >= sleep[d] + Interval \/ sleep[d] >= sleep[c] + Interval

PaceInv == PaceShape /\ SlotsAreAhead /\ HolderSleeps /\ SlotsAreApart

LEMMA PaceNumbers ==
    /\ Interval \in Nat /\ Interval > 0 /\ MaxQueue \in Nat /\ MaxInstant \in Nat
    /\ MaxLate \in Nat /\ MaxLate <= Interval
BY PaceAssumption

LEMMA PaceInvTells == PaceInv => RequestsAreSpaced
BY DEF PaceInv, RequestsAreSpaced, SlotsAreAhead, SlotsAreApart, Sleeps

LEMMA PaceStart == PaceInit => PaceInv
<1> SUFFICES ASSUME PaceInit PROVE PaceInv
  OBVIOUS
<1>1. \A c \in Callers : ~Sleeps(c)
  BY DEF PaceInit, Sleeps
<1>2. PaceShape
  BY PaceNumbers DEF PaceInit, PaceShape, Awake
<1>3. SlotsAreAhead
  BY <1>1, PaceNumbers DEF PaceInit, SlotsAreAhead
<1> QED BY <1>1, <1>2, <1>3 DEF PaceInv, HolderSleeps, SlotsAreApart

\* A caller that starts to sleep, or wakes.
LEMMA SleepsAre ==
    ASSUME PaceShape, NEW c \in Callers, NEW slot \in Nat \cup {Awake},
           sleep' = [sleep EXCEPT ![c] = slot]
    PROVE  /\ sleep' \in [Callers -> Nat \cup {Awake}]
           /\ sleep'[c] = slot
           /\ \A d \in Callers \ {c} : sleep'[d] = sleep[d]
BY DEF PaceShape

LEMMA SlotsAreNumbers ==
    ASSUME PaceShape, NEW c \in Callers
    PROVE  /\ sleep[c] \in Int /\ asked[c] \in Nat
           /\ Sleeps(c) => sleep[c] \in Nat
           /\ Awake \in Int /\ \A n \in Nat : n # Awake
BY DEF PaceShape, Sleeps, Awake

\* A request goes out at an instant that is far enough from the last one.
LEMMA SendNowSpaces ==
    ASSUME PaceInv, SendNow, instant >= lastSent + Interval - MaxLate
    PROVE  lastSent' = instant /\ closest' >= Interval - MaxLate /\ closest' \in Int
<1>1. instant \in Nat /\ lastSent \in Int /\ closest \in Int /\ closest >= Interval - MaxLate
  BY DEF PaceInv, PaceShape, SlotsAreAhead
<1> QED BY <1>1, PaceNumbers DEF SendNow

-----------------------------------------------------------------------------
LEMMA AskOsonishKeeps ==
    ASSUME NEW c \in Callers, PaceInv, AskOsonish(c)
    PROVE  PaceInv'
<1> DEFINE slot == Later(instant, nextAt)
<1>1. /\ PaceShape /\ SlotsAreAhead /\ SlotsAreApart
      /\ pacer = "osonish" /\ UNCHANGED <<pacer, instant, queue>> /\ ~Sleeps(c)
      /\ asked' = [asked EXCEPT ![c] = instant]
      /\ instant \in Nat /\ nextAt \in Nat /\ lastSent \in Int
  BY DEF PaceInv, PaceShape, AskOsonish, Idle, Sleeps
<1>2. /\ slot \in Nat /\ slot >= instant /\ slot >= nextAt
      /\ slot > instant => slot = nextAt
      /\ ~(slot > instant) => slot = instant
  BY <1>1 DEF Later
<1>3. /\ asked' \in [Callers -> Nat] /\ asked'[c] = instant
      /\ \A d \in Callers \ {c} : asked'[d] = asked[d]
  BY <1>1 DEF PaceShape
<1>4. HolderSleeps'
  BY <1>1 DEF HolderSleeps
<1>5. CASE TooFar(slot)
  <2>1. UNCHANGED <<nextAt, sleep, lastSent, closest>>
    BY <1>5 DEF AskOsonish
  <2>2. PaceShape' /\ SlotsAreAhead'
    BY <1>1, <1>3, <2>1 DEF PaceShape, SlotsAreAhead, Sleeps
  <2>3. SlotsAreApart'
    BY <1>1, <1>3, <2>1 DEF SlotsAreApart, Sleeps
  <2> QED BY <1>4, <2>2, <2>3 DEF PaceInv
<1>6. CASE ~TooFar(slot) /\ slot > instant
  <2>1. nextAt' = slot + Interval /\ SleepFor(c, slot)
    BY <1>6 DEF AskOsonish, ReserveSlot
  <2>2. sleep' = [sleep EXCEPT ![c] = slot] /\ UNCHANGED <<lastSent, closest>>
    BY <2>1 DEF SleepFor
  <2>3. slot = nextAt /\ slot - instant <= MaxQueue
    BY <1>1, <1>2, <1>6, PaceNumbers DEF TooFar
  <2> HIDE DEF slot
  <2>4. /\ sleep' \in [Callers -> Nat \cup {Awake}] /\ sleep'[c] = slot
        /\ \A d \in Callers \ {c} : sleep'[d] = sleep[d]
    BY <1>1, <1>2, <2>2, SleepsAre
  <2>5. PaceShape'
    BY <1>1, <1>2, <1>3, <2>1, <2>2, <2>4, PaceNumbers DEF PaceShape
  <2>6. SlotsAreAhead'
    <3>1. nextAt' >= lastSent' + Interval - MaxLate
      BY <1>1, <1>2, <2>1, <2>2, <2>3, PaceNumbers DEF SlotsAreAhead
    <3>2. ASSUME NEW d \in Callers, sleep'[d] # Awake
          PROVE  instant' <= sleep'[d] + MaxLate
      <4>1. CASE d = c
        BY <1>1, <1>2, <2>4, <4>1, PaceNumbers
      <4>2. CASE d # c
        BY <1>1, <2>4, <3>2, <4>2 DEF SlotsAreAhead, Sleeps
      <4> QED BY <4>1, <4>2
    <3> QED BY <1>1, <2>2, <3>1, <3>2 DEF SlotsAreAhead, Sleeps
  <2>7. SlotsAreApart'
    <3>1. ASSUME NEW d \in Callers, sleep'[d] # Awake
          PROVE  /\ sleep'[d] + Interval <= nextAt' /\ sleep'[d] - asked'[d] <= MaxQueue
                 /\ MaxLate < Interval => sleep'[d] >= lastSent' + Interval - MaxLate
                 /\ d # c => sleep'[d] + Interval <= slot
      <4>1. CASE d = c
        BY <1>1, <1>2, <1>3, <2>1, <2>2, <2>3, <2>4, <4>1, PaceNumbers DEF SlotsAreAhead
      <4>2. CASE d # c
        <5>1. /\ sleep'[d] = sleep[d] /\ asked'[d] = asked[d] /\ Sleeps(d)
              /\ sleep[d] \in Nat /\ asked[d] \in Nat
          BY <1>1, <1>3, <2>4, <3>1, <4>2, SlotsAreNumbers DEF Sleeps
        <5>2. /\ sleep[d] + Interval <= nextAt /\ sleep[d] - asked[d] <= MaxQueue
              /\ MaxLate < Interval => sleep[d] >= lastSent + Interval - MaxLate
          BY <1>1, <5>1 DEF SlotsAreApart
        <5> QED BY <1>1, <1>2, <2>1, <2>2, <2>3, <5>1, <5>2, PaceNumbers
      <4> QED BY <4>1, <4>2
    <3>2. ASSUME NEW d \in Callers, NEW e \in Callers, sleep'[d] # Awake, sleep'[e] # Awake,
                 d # e
          PROVE  sleep'[d] >= sleep'[e] + Interval \/ sleep'[e] >= sleep'[d] + Interval
      <4>1. CASE d = c
        BY <2>4, <3>1, <3>2, <4>1
      <4>2. CASE e = c
        BY <2>4, <3>1, <3>2, <4>2
      <4>3. CASE d # c /\ e # c
        BY <1>1, <2>4, <3>2, <4>3 DEF SlotsAreApart, Sleeps
      <4> QED BY <4>1, <4>2, <4>3
    <3> QED BY <3>1, <3>2 DEF SlotsAreApart, Sleeps
  <2> QED BY <1>4, <2>5, <2>6, <2>7 DEF PaceInv
<1>7. CASE ~TooFar(slot) /\ ~(slot > instant)
  <2>1. nextAt' = slot + Interval /\ SendNow /\ UNCHANGED sleep
    BY <1>7 DEF AskOsonish, ReserveSlot
  <2>2. slot = instant /\ instant >= nextAt
    BY <1>1, <1>2, <1>7
  <2> HIDE DEF slot
  <2>3. instant >= lastSent + Interval - MaxLate
    BY <1>1, <2>2, PaceNumbers DEF SlotsAreAhead
  <2>4. lastSent' = instant /\ closest' >= Interval - MaxLate /\ closest' \in Int
    BY <2>1, <2>3, SendNowSpaces
  <2>5. PaceShape'
    BY <1>1, <1>2, <1>3, <2>1, <2>4, PaceNumbers DEF PaceShape
  <2>6. SlotsAreAhead'
    BY <1>1, <2>1, <2>2, <2>4, PaceNumbers DEF SlotsAreAhead, Sleeps
  <2>7. ASSUME NEW d \in Callers, Sleeps(d)
        PROVE  /\ d # c /\ asked'[d] = asked[d] /\ sleep[d] \in Nat /\ asked[d] \in Nat
               /\ sleep[d] + Interval <= nextAt' /\ sleep[d] - asked[d] <= MaxQueue
               /\ MaxLate >= Interval
    <3>1. d # c /\ asked'[d] = asked[d] /\ sleep[d] \in Nat /\ asked[d] \in Nat
      BY <1>1, <1>3, <2>7, SlotsAreNumbers
    <3>2. /\ sleep[d] + Interval <= nextAt /\ sleep[d] - asked[d] <= MaxQueue
          /\ instant <= sleep[d] + MaxLate
      BY <1>1, <2>7 DEF SlotsAreApart, SlotsAreAhead
    <3> QED BY <1>1, <2>1, <2>2, <3>1, <3>2, PaceNumbers
  <2>8. SlotsAreApart'
    BY <1>1, <2>1, <2>7, PaceNumbers DEF SlotsAreApart, Sleeps
  <2> QED BY <1>4, <2>5, <2>6, <2>8 DEF PaceInv
<1> QED BY <1>5, <1>6, <1>7

LEMMA WakeForOsonishKeeps ==
    ASSUME NEW c \in Callers, PaceInv, WakeForOsonish(c)
    PROVE  PaceInv'
<1>1. /\ PaceShape /\ SlotsAreAhead /\ SlotsAreApart
      /\ pacer = "osonish" /\ UNCHANGED <<pacer, instant, nextAt, queue, asked>> /\ Sleeps(c)
      /\ instant >= sleep[c] /\ SendNow /\ sleep' = [sleep EXCEPT ![c] = Awake]
      /\ instant \in Nat /\ nextAt \in Nat /\ lastSent \in Int /\ lastSent <= instant
      /\ sleep[c] \in Nat
  BY SlotsAreNumbers DEF PaceInv, PaceShape, WakeForOsonish, Sleeps, SlotsAreAhead
<1>2. /\ sleep' \in [Callers -> Nat \cup {Awake}] /\ sleep'[c] = Awake
      /\ \A d \in Callers \ {c} : sleep'[d] = sleep[d]
  BY <1>1, SleepsAre
<1>3. /\ sleep[c] + Interval <= nextAt /\ instant <= sleep[c] + MaxLate
      /\ MaxLate < Interval => sleep[c] >= lastSent + Interval - MaxLate
  BY <1>1 DEF SlotsAreApart, SlotsAreAhead
<1>4. instant >= lastSent + Interval - MaxLate
  BY <1>1, <1>3, PaceNumbers
<1>5. lastSent' = instant /\ closest' >= Interval - MaxLate /\ closest' \in Int
  BY <1>1, <1>4, SendNowSpaces
<1>6. PaceShape' /\ HolderSleeps'
  BY <1>1, <1>2, <1>5 DEF PaceShape, HolderSleeps
<1>7. ASSUME NEW d \in Callers, sleep'[d] # Awake
      PROVE  d # c /\ sleep'[d] = sleep[d] /\ Sleeps(d) /\ sleep[d] \in Nat
  BY <1>1, <1>2, <1>7, SlotsAreNumbers DEF Sleeps
<1>8. SlotsAreAhead'
  <2>1. nextAt' >= lastSent' + Interval - MaxLate
    BY <1>1, <1>3, <1>5, PaceNumbers
  <2> QED BY <1>1, <1>5, <1>7, <2>1 DEF SlotsAreAhead, Sleeps
<1>9. SlotsAreApart'
  <2>1. ASSUME NEW d \in Callers, sleep'[d] # Awake, MaxLate < Interval
        PROVE  sleep'[d] >= lastSent' + Interval - MaxLate
    <3>1. d # c /\ sleep'[d] = sleep[d] /\ Sleeps(d) /\ sleep[d] \in Nat
      BY <1>7, <2>1
    <3>2. /\ sleep[c] >= sleep[d] + Interval \/ sleep[d] >= sleep[c] + Interval
          /\ instant <= sleep[d] + MaxLate
      BY <1>1, <3>1 DEF SlotsAreApart, SlotsAreAhead
    <3> QED BY <1>1, <1>3, <1>5, <2>1, <3>1, <3>2, PaceNumbers
  <2> QED BY <1>1, <1>7, <2>1 DEF SlotsAreApart, Sleeps
<1> QED BY <1>6, <1>8, <1>9 DEF PaceInv

-----------------------------------------------------------------------------
LEMMA AskLimiterKeeps ==
    ASSUME NEW c \in Callers, PaceInv, AskLimiter(c)
    PROVE  PaceInv'
<1>1. /\ PaceShape /\ pacer = "limiter" /\ queue' = Append(queue, c)
      /\ asked' = [asked EXCEPT ![c] = instant]
      /\ UNCHANGED <<pacer, instant, nextAt, sleep, lastSent, closest>>
  BY DEF AskLimiter, PaceInv
<1>2. /\ queue' \in Seq(Callers) /\ queue' # <<>>
      /\ queue # <<>> => Head(queue') = Head(queue)
  BY <1>1 DEF PaceShape
<1>3. PaceShape'
  BY <1>1, <1>2 DEF PaceShape
<1>4. HolderSleeps'
  BY <1>1, <1>2 DEF PaceInv, HolderSleeps, Sleeps
<1> QED BY <1>1, <1>3, <1>4 DEF PaceInv, SlotsAreAhead, SlotsAreApart, Sleeps

LEMMA TakeTurnKeeps ==
    ASSUME NEW c \in Callers, PaceInv, TakeTurn(c)
    PROVE  PaceInv'
<1>1. /\ PaceShape /\ SlotsAreAhead /\ HolderSleeps /\ pacer = "limiter" /\ queue # <<>>
      /\ Head(queue) = c /\ ~Sleeps(c) /\ UNCHANGED <<pacer, instant, asked>>
      /\ instant \in Nat /\ nextAt \in Nat /\ lastSent \in Int
  BY DEF TakeTurn, PaceInv, PaceShape, Sleeps
<1>2. \A d \in Callers : ~Sleeps(d)
  BY <1>1 DEF HolderSleeps
<1>3. SlotsAreApart'
  BY <1>1 DEF SlotsAreApart
<1>4. CASE instant < nextAt
  <2>1. sleep' = [sleep EXCEPT ![c] = nextAt] /\ UNCHANGED <<nextAt, queue, lastSent, closest>>
    BY <1>4 DEF TakeTurn, SleepFor
  <2>2. /\ sleep' \in [Callers -> Nat \cup {Awake}] /\ sleep'[c] = nextAt
        /\ \A d \in Callers \ {c} : sleep'[d] = sleep[d]
    BY <1>1, <2>1, SleepsAre
  <2>3. PaceShape'
    BY <1>1, <2>1, <2>2 DEF PaceShape
  <2>4. HolderSleeps'
    BY <1>1, <1>2, <2>1, <2>2 DEF HolderSleeps, Sleeps
  <2>5. SlotsAreAhead'
    <3>1. \A d \in Callers : sleep'[d] # Awake => d = c
      BY <1>2, <2>2 DEF Sleeps
    <3> QED BY <1>1, <1>4, <2>1, <2>2, <3>1, PaceNumbers DEF SlotsAreAhead, Sleeps
  <2> QED BY <1>3, <2>3, <2>4, <2>5 DEF PaceInv
<1>5. CASE ~(instant < nextAt)
  <2>1. SendNow /\ nextAt' = instant + Interval /\ queue' = Tail(queue) /\ UNCHANGED sleep
    BY <1>5 DEF TakeTurn
  <2>2. instant >= lastSent + Interval - MaxLate
    BY <1>1, <1>5, PaceNumbers DEF SlotsAreAhead
  <2>3. lastSent' = instant /\ closest' >= Interval - MaxLate /\ closest' \in Int
    BY <2>1, <2>2, SendNowSpaces
  <2>4. PaceShape'
    BY <1>1, <2>1, <2>3, PaceNumbers DEF PaceShape
  <2>5. HolderSleeps'
    BY <1>2, <2>1 DEF HolderSleeps, Sleeps
  <2>6. SlotsAreAhead'
    BY <1>1, <1>2, <2>1, <2>3, PaceNumbers DEF SlotsAreAhead, Sleeps
  <2> QED BY <1>3, <2>4, <2>5, <2>6 DEF PaceInv
<1> QED BY <1>4, <1>5

LEMMA WakeForTurnKeeps ==
    ASSUME NEW c \in Callers, PaceInv, WakeForTurn(c)
    PROVE  PaceInv'
<1>1. /\ PaceShape /\ SlotsAreAhead /\ HolderSleeps /\ pacer = "limiter" /\ Sleeps(c)
      /\ instant >= sleep[c] /\ SendNow /\ nextAt' = sleep[c] + Interval
      /\ queue' = Tail(queue) /\ sleep' = [sleep EXCEPT ![c] = Awake]
      /\ UNCHANGED <<pacer, instant, asked>>
      /\ instant \in Nat /\ nextAt \in Nat /\ lastSent \in Int /\ sleep[c] \in Nat
  BY SlotsAreNumbers DEF WakeForTurn, PaceInv, PaceShape, Sleeps
<1>2. /\ queue # <<>> /\ sleep[c] = nextAt
      /\ \A d \in Callers : Sleeps(d) => d = c
  BY <1>1 DEF HolderSleeps
<1>3. /\ sleep' \in [Callers -> Nat \cup {Awake}]
      /\ \A d \in Callers : sleep'[d] = Awake
  <2>1. /\ sleep' \in [Callers -> Nat \cup {Awake}] /\ sleep'[c] = Awake
        /\ \A d \in Callers \ {c} : sleep'[d] = sleep[d]
    BY <1>1, SleepsAre
  <2> QED BY <1>2, <2>1 DEF Sleeps
<1>4. instant >= lastSent + Interval - MaxLate /\ instant <= sleep[c] + MaxLate
  BY <1>1, <1>2, PaceNumbers DEF SlotsAreAhead
<1>5. lastSent' = instant /\ closest' >= Interval - MaxLate /\ closest' \in Int
  BY <1>1, <1>4, SendNowSpaces
<1>6. PaceShape'
  BY <1>1, <1>2, <1>3, <1>5, PaceNumbers DEF PaceShape
<1>7. SlotsAreAhead'
  BY <1>1, <1>3, <1>4, <1>5, PaceNumbers DEF SlotsAreAhead, Sleeps
<1>8. HolderSleeps' /\ SlotsAreApart'
  BY <1>1, <1>3 DEF HolderSleeps, SlotsAreApart, Sleeps
<1> QED BY <1>6, <1>7, <1>8 DEF PaceInv

-----------------------------------------------------------------------------
\* A waiter leaves the lock's queue.
LEMMA QueueWithout ==
    ASSUME NEW q \in Seq(Callers), NEW i \in DOMAIN q
    PROVE  /\ RemoveAt(q, i) \in Seq(Callers)
           /\ i # 1 => RemoveAt(q, i) # <<>> /\ Head(RemoveAt(q, i)) = Head(q)
<1> DEFINE front == SubSeq(q, 1, i - 1)
           back == SubSeq(q, i + 1, Len(q))
<1>1. i \in 1..Len(q) /\ Len(q) \in Nat
  OBVIOUS
<1>2. /\ front \in Seq(Callers) /\ back \in Seq(Callers)
      /\ Len(front) = i - 1
      /\ i # 1 => front[1] = q[1]
  BY <1>1
<1> HIDE DEF front, back
<1>3. /\ front \o back \in Seq(Callers)
      /\ i # 1 => Len(front \o back) # 0 /\ (front \o back)[1] = q[1]
  BY <1>1, <1>2
<1> QED BY <1>1, <1>3 DEF RemoveAt, front, back

LEMMA CancelWaitKeeps ==
    ASSUME NEW c \in Callers, PaceInv, CancelWait(c)
    PROVE  PaceInv'
<1>1. /\ PaceShape /\ SlotsAreAhead /\ HolderSleeps /\ SlotsAreApart
      /\ sleep' = [sleep EXCEPT ![c] = Awake]
      /\ UNCHANGED <<pacer, instant, nextAt, asked, lastSent, closest>>
  BY DEF CancelWait, PaceInv
<1>2. /\ sleep' \in [Callers -> Nat \cup {Awake}] /\ sleep'[c] = Awake
      /\ \A d \in Callers \ {c} : sleep'[d] = sleep[d]
  BY <1>1, SleepsAre
<1>3. queue \in Seq(Callers) /\ pacer \in {"limiter", "osonish"}
  BY <1>1 DEF PaceShape
<1>4. \A d \in Callers : sleep'[d] # Awake => d # c /\ Sleeps(d) /\ sleep'[d] = sleep[d]
  BY <1>2 DEF Sleeps
<1>5. /\ queue' \in Seq(Callers)
      /\ \A d \in Callers \ {c} :
            queue # <<>> /\ d = Head(queue) => queue' # <<>> /\ d = Head(queue')
  <2>1. CASE UNCHANGED queue
    BY <1>3, <2>1
  <2>2. ASSUME NEW i \in DOMAIN queue, queue[i] = c, queue' = RemoveAt(queue, i)
        PROVE  /\ queue' \in Seq(Callers)
               /\ \A d \in Callers \ {c} :
                     queue # <<>> /\ d = Head(queue) => queue' # <<>> /\ d = Head(queue')
    <3>1. /\ queue' \in Seq(Callers)
          /\ i # 1 => queue' # <<>> /\ Head(queue') = Head(queue)
      BY <1>3, <2>2, QueueWithout
    <3>2. i = 1 => Head(queue) = c
      BY <1>3, <2>2
    <3> QED BY <3>1, <3>2
  <2> QED BY <2>1, <2>2 DEF CancelWait
<1>6. PaceShape'
  BY <1>1, <1>2, <1>5 DEF PaceShape
<1>7. SlotsAreAhead'
  BY <1>1, <1>4 DEF SlotsAreAhead, Sleeps
<1>8. HolderSleeps'
  BY <1>1, <1>4, <1>5 DEF HolderSleeps, Sleeps
<1>9. SlotsAreApart'
  BY <1>1, <1>4 DEF SlotsAreApart, Sleeps
<1> QED BY <1>6, <1>7, <1>8, <1>9 DEF PaceInv

LEMMA PassKeeps == PaceInv /\ Pass => PaceInv'
<1> SUFFICES ASSUME PaceInv, Pass PROVE PaceInv'
  OBVIOUS
<1>1. /\ PaceShape /\ SlotsAreAhead /\ HolderSleeps /\ SlotsAreApart
      /\ instant' = instant + 1 /\ instant \in Nat /\ lastSent \in Int
      /\ UNCHANGED <<pacer, nextAt, queue, sleep, asked, lastSent, closest>>
  BY DEF Pass, PaceInv, PaceShape
<1>2. PaceShape'
  BY <1>1 DEF PaceShape
<1>3. SlotsAreAhead'
  <2>1. ASSUME NEW c \in Callers, Sleeps(c) PROVE instant' <= sleep[c] + MaxLate
    <3>1. sleep[c] \in Nat /\ instant < sleep[c] + MaxLate
      BY <1>1, <2>1, SlotsAreNumbers DEF Pass, Sleeps
    <3> QED BY <1>1, <3>1, PaceNumbers
  <2> QED BY <1>1, <2>1 DEF SlotsAreAhead, Sleeps
<1>4. HolderSleeps' /\ SlotsAreApart'
  BY <1>1 DEF HolderSleeps, SlotsAreApart, Sleeps
<1> QED BY <1>2, <1>3, <1>4 DEF PaceInv

LEMMA PaceKeeps == PaceInv /\ [PaceNext]_paceVars => PaceInv'
<1> SUFFICES ASSUME PaceInv, [PaceNext]_paceVars PROVE PaceInv'
  OBVIOUS
<1>1. CASE UNCHANGED paceVars
  BY <1>1 DEF paceVars, PaceInv, PaceShape, SlotsAreAhead, HolderSleeps, SlotsAreApart, Sleeps
<1>2. CASE PaceNext
  BY <1>2, PassKeeps, AskOsonishKeeps, WakeForOsonishKeeps, AskLimiterKeeps, TakeTurnKeeps,
     WakeForTurnKeeps, CancelWaitKeeps DEF PaceNext
<1> QED BY <1>1, <1>2

\* Requests to one site go out at least the interval apart, less what the loop
\* is late, and nobody waits past the queue of osonish_pace.
THEOREM PaceKept == PaceSpec => []RequestsAreSpaced
<1>1. PaceSpec => []PaceInv
  BY PaceStart, PaceKeeps, PTL DEF PaceSpec
<1> QED BY <1>1, PaceInvTells, PTL

-----------------------------------------------------------------------------
(***************************************************************************)
(* Pages: a walk through a list that changes meanwhile.                    *)
(***************************************************************************)
\* Row i sorts after a cursor that names a row.
After(c, i) ==
    IF list = "old" THEN row[i] > c.key \/ (row[i] = c.key /\ i > c.id)
    ELSE \/ row[i] = c.key /\ i < c.id
         \/ row[i] # c.key /\ row[i] = Null
         \/ row[i] # c.key /\ row[i] # Null /\ c.key # Null /\ row[i] < c.key

\* A row that is still to come after cursor c.
LeftAfter(c, i) == i \in Matching /\ (c = NoCursor \/ After(c, i))

\* What an endpoint hands out as a cursor; of the user's saves an INTEGER id.
Handed(c) ==
    \/ c = NoCursor
    \/ /\ c \in [key: Keys \cup {Null, 0}, id: Rows] /\ c.key \in KeysOf(list)
       /\ list = "saves" => c.key = 0

\* The steady rows that were to come after c are on the page or still to come.
Splits(c, answer) ==
    /\ answer.rows \subseteq Rows /\ Handed(answer.next)
    /\ \A i \in steady :
          /\ i \in answer.rows => LeftAfter(c, i)
          /\ answer.next # NoCursor /\ LeftAfter(answer.next, i) =>
                LeftAfter(c, i) /\ i \notin answer.rows
          /\ LeftAfter(c, i) /\ i \notin answer.rows =>
                IF answer.next = NoCursor THEN list = "saves" ELSE LeftAfter(answer.next, i)

CacheInv == \A c \in DOMAIN cache : Handed(c) /\ Splits(c, cache[c])

\* A walk has shown the steady rows before its cursor once, and no other.
WalkedInv ==
    walk.at = "walking" /\ list # "export" =>
        /\ Handed(walk.cursor)
        /\ \A i \in steady : served[i] = IF LeftAfter(walk.cursor, i) THEN 0 ELSE 1

\* So has an export; what is left of its count is enough for what is left of the
\* list, while nothing is added to it.
ExportLeft == {i \in Rows : (walk.tail => row[i] = Null) /\ LeftAfter(walk.cursor, i)}

ExportInv ==
    walk.at = "walking" /\ list = "export" =>
        /\ Handed(walk.cursor) /\ walk.left > 0
        /\ walk.cursor # NoCursor => (walk.tail <=> walk.cursor.key = Null)
        /\ \A i \in steady : served[i] = IF i \in ExportLeft THEN 0 ELSE 1
        /\ ~walk.cut /\ ~walk.grown => Cardinality(ExportLeft) <= walk.left

PagesSound ==
    /\ PagesTypeOK /\ steady \subseteq Matching /\ (walk.at = "idle" => steady = {})
    /\ CacheInv /\ WalkedInv /\ ExportInv /\ RowsAreServedOnce

-----------------------------------------------------------------------------
(***************************************************************************)
(* The order of the rows.                                                  *)
(***************************************************************************)
\* Endpoints, and what the keys of their rows are.
LEMMA KeysAre ==
    ASSUME PagesTypeOK
    PROVE  /\ KeysOf(list) \subseteq Keys \cup {Null, 0, 1} /\ KeysOf(list) \subseteq Nat \cup {Null}
           /\ list # "saves" => KeysOf(list) \subseteq Keys \cup {Null, 0}
           /\ list = "saves" => KeysOf(list) = {0, 1}
           /\ list \in ById => KeysOf(list) = {0}
           /\ list \notin {"users", "export"} => KeysOf(list) \subseteq Nat
           /\ list \in {"new", "old", "salary", "referrals", "users", "export", "saves"} \cup ById
           /\ Null \notin Nat /\ Null # Out /\ Out \notin KeysOf(list)
<1>1. list \in AllLists /\ Keys \subseteq Nat /\ Null \notin Nat /\ Out \notin Nat /\ Null # Out
    BY PagesAssumption DEF PagesTypeOK
<1>2. list \in ById => KeysOf(list) = {0}
    BY DEF KeysOf, ById
<1>3. list \in {"users", "export"} => KeysOf(list) = Keys \cup {Null}
    BY DEF KeysOf, ById
<1>4. list = "saves" => KeysOf(list) = {0, 1}
    BY DEF KeysOf, ById
<1>5. list \in {"new", "old", "salary", "referrals"} => KeysOf(list) = Keys
    BY DEF KeysOf, ById
<1>6. list \in {"new", "old", "salary", "referrals", "users", "export", "saves"} \cup ById
    BY <1>1 DEF AllLists
<1>7. "saves" \notin ById /\ "users" \notin ById /\ "export" \notin ById
    BY DEF ById
<1>8. CASE list \in ById
    BY <1>1, <1>2, <1>6, <1>7, <1>8
<1>9. CASE list \in {"users", "export"}
    BY <1>1, <1>3, <1>6, <1>7, <1>9
<1>10. CASE list = "saves"
    BY <1>1, <1>4, <1>6, <1>7, <1>10
<1>11. CASE list \in {"new", "old", "salary", "referrals"}
    <2>1. list \notin ById
        BY <1>11 DEF ById
    <2> QED BY <1>1, <1>5, <1>6, <1>11, <2>1
<1> QED BY <1>6, <1>8, <1>9, <1>10, <1>11

LEMMA RowsAre ==
    ASSUME PagesTypeOK
    PROVE  /\ \A i \in Rows : i \in Nat
           /\ Matching \subseteq Rows
           /\ \A i \in Matching : row[i] \in KeysOf(list) /\ row[i] \in Nat \cup {Null}
           /\ \A i \in Matching : list = "old" => row[i] \in Nat
BY KeysAre, PagesAssumption DEF PagesTypeOK, Matching

LEMMA OrderIs ==
    ASSUME PagesTypeOK, NEW i \in Matching, NEW j \in Matching, i # j
    PROVE  /\ Precedes(i, j) <=> After(CursorAt(i), j)
           /\ Precedes(i, j) <=> ~Precedes(j, i)
<1> DEFINE k == row[i]
           l == row[j]
<1>1. /\ i \in Nat /\ j \in Nat /\ k \in Nat \cup {Null} /\ l \in Nat \cup {Null} /\ Null \notin Nat
      /\ list = "old" => k \in Nat /\ l \in Nat
    BY RowsAre, KeysAre
<1>2. CursorAt(i).key = k /\ CursorAt(i).id = i
    BY DEF CursorAt
<1>3. Precedes(i, j) <=>
        IF list = "old" THEN ~(IF k = l THEN i > j ELSE l = Null \/ (k # Null /\ k > l))
        ELSE IF k = l THEN i > j ELSE l = Null \/ (k # Null /\ k > l)
    BY DEF Precedes
<1>4. Precedes(j, i) <=>
        IF list = "old" THEN ~(IF l = k THEN j > i ELSE k = Null \/ (l # Null /\ l > k))
        ELSE IF l = k THEN j > i ELSE k = Null \/ (l # Null /\ l > k)
    BY DEF Precedes
<1>5. After(CursorAt(i), j) <=>
        IF list = "old" THEN l > k \/ (l = k /\ j > i)
        ELSE (l = k /\ j < i) \/ (l # k /\ l = Null) \/ (l # k /\ l # Null /\ k # Null /\ l < k)
    BY <1>2 DEF After
<1> HIDE DEF k, l
<1>6. CASE list = "old"
    BY <1>1, <1>3, <1>4, <1>5, <1>6
<1>7. CASE list # "old"
    <2>1. CASE k = Null \/ l = Null
        BY <1>1, <1>3, <1>4, <1>5, <1>7, <2>1
    <2>2. CASE k # Null /\ l # Null
        <3>1. k \in Nat /\ l \in Nat
            BY <1>1, <2>2
        <3> QED BY <1>1, <1>3, <1>4, <1>5, <1>7, <2>2, <3>1
    <2> QED BY <2>1, <2>2
<1> QED BY <1>6, <1>7

\* What sorts after a row that sorts after a cursor sorts after the cursor.
LEMMA AfterAfter ==
    ASSUME PagesTypeOK, NEW c, c.key \in Nat \cup {Null}, c.id \in Nat, list = "old" => c.key \in Nat,
           NEW i \in Matching, NEW j \in Matching, After(c, i), After(CursorAt(i), j)
    PROVE  After(c, j) /\ i # j
<1> DEFINE k == row[i]
           l == row[j]
           m == c.key
           d == c.id
<1>1. /\ i \in Nat /\ j \in Nat /\ k \in Nat \cup {Null} /\ l \in Nat \cup {Null} /\ Null \notin Nat
      /\ list = "old" => k \in Nat /\ l \in Nat
    BY RowsAre, KeysAre
<1>2. CursorAt(i).key = k /\ CursorAt(i).id = i
    BY DEF CursorAt
<1>3. IF list = "old" THEN k > m \/ (k = m /\ i > d)
      ELSE (k = m /\ i < d) \/ (k # m /\ k = Null) \/ (k # m /\ k # Null /\ m # Null /\ k < m)
    BY DEF After
<1>4. IF list = "old" THEN l > k \/ (l = k /\ j > i)
      ELSE (l = k /\ j < i) \/ (l # k /\ l = Null) \/ (l # k /\ l # Null /\ k # Null /\ l < k)
    BY <1>2 DEF After
<1>5. (IF list = "old" THEN l > m \/ (l = m /\ j > d)
       ELSE (l = m /\ j < d) \/ (l # m /\ l = Null) \/ (l # m /\ l # Null /\ m # Null /\ l < m))
      => After(c, j)
    BY DEF After
<1>6. m \in Nat \cup {Null} /\ d \in Nat /\ (list = "old" => m \in Nat)
    OBVIOUS
<1>7. i # j
    <2>1. i = j => k = l
        OBVIOUS
    <2> HIDE DEF k, l, m, d
    <2> QED BY <1>1, <1>4, <2>1
<1> HIDE DEF k, l, m, d
<1>8. CASE list = "old"
    BY <1>1, <1>3, <1>4, <1>5, <1>6, <1>7, <1>8
<1>9. CASE list # "old"
    <2>1. CASE l = Null
        <3>1. CASE m = Null
            <4>1. k = Null /\ i < d /\ j < i
                BY <1>1, <1>3, <1>4, <1>9, <2>1, <3>1
            <4> QED BY <1>1, <1>5, <1>6, <1>7, <1>9, <2>1, <3>1, <4>1
        <3>2. CASE m # Null
            BY <1>5, <1>7, <1>9, <2>1, <3>2
        <3> QED BY <3>1, <3>2
    <2>2. CASE l # Null
        <3>1. k # Null /\ m # Null
            BY <1>3, <1>4, <1>9, <2>2
        <3>2. k \in Nat /\ l \in Nat /\ m \in Nat
            BY <1>1, <1>6, <2>2, <3>1
        <3> QED BY <1>1, <1>3, <1>4, <1>5, <1>6, <1>7, <1>9, <3>1, <3>2
    <2> QED BY <2>1, <2>2
<1> QED BY <1>7, <1>8, <1>9

LEMMA OrderIsOne ==
    ASSUME PagesTypeOK, NEW i \in Matching, NEW j \in Matching, NEW k \in Matching,
           i # j, j # k, Precedes(i, j), Precedes(j, k)
    PROVE  i # k /\ Precedes(i, k)
<1>1. CursorAt(i).key = row[i] /\ CursorAt(i).id = i
    BY DEF CursorAt
<1>2. row[i] \in Nat \cup {Null} /\ i \in Nat /\ (list = "old" => row[i] \in Nat)
    BY RowsAre
<1>3. After(CursorAt(i), j) /\ After(CursorAt(j), k)
    BY OrderIs
<1>4. After(CursorAt(i), k)
    BY <1>1, <1>2, <1>3, AfterAfter
<1>5. i # k
    BY OrderIs
<1> QED BY <1>4, <1>5, OrderIs

-----------------------------------------------------------------------------
(***************************************************************************)
(* Pages.                                                                  *)
(***************************************************************************)
LEMMA FiniteRows ==
    ASSUME NEW S \in SUBSET Rows
    PROVE  IsFiniteSet(S) /\ Cardinality(S) \in Nat
<1>1. IsFiniteSet(S)
    BY PagesAssumption, FS_Subset
<1> QED BY <1>1, FS_CardinalityType

LEMMA SmallestNumber ==
    ASSUME NEW S \in SUBSET Nat, S # {}
    PROVE  \E d \in S : \A e \in S : d <= e
<1> DEFINE Starts == {0..d : d \in S}
<1>1. Starts \subseteq FiniteSubsetsOf(Nat) /\ Starts # {}
    <2>1. \A d \in S : 0..d \subseteq Nat /\ IsFiniteSet(0..d)
        BY FS_Interval
    <2> QED BY <2>1 DEF FiniteSubsetsOf
<1>2. PICK x \in Starts : \A y \in Starts : <<y, x>> \notin StrictSubsetOrdering(Nat)
    BY <1>1, FS_StrictSubsetOrderingWellFounded, WFMin
<1>3. PICK d \in S : x = 0..d
    BY <1>2
<1>4. ASSUME NEW e \in S, ~(d <= e) PROVE FALSE
    <2>1. 0..e \in Starts
        BY <1>4
    <2>2. 0..e \subseteq Nat /\ 0..d \subseteq Nat
        OBVIOUS
    <2>3. 0..e \subseteq 0..d /\ d \in 0..d /\ d \notin 0..e
        BY <1>4
    <2>4. <<0..e, 0..d>> \in StrictSubsetOrdering(Nat)
        BY <2>2, <2>3 DEF StrictSubsetOrdering
    <2> QED BY <2>1, <2>4, <1>2, <1>3
<1> QED BY <1>4

\* The rows of S that come before i, and how many there are.
Ahead(S, i) == {j \in S \ {i} : Precedes(j, i)}
Rank(S, i) == Cardinality(Ahead(S, i))

LEMMA RanksAre ==
    ASSUME PagesTypeOK, NEW S \in SUBSET Matching
    PROVE  \A i \in S : Rank(S, i) \in Nat /\ Rank(S, i) < Cardinality(S)
<1>1. S \in SUBSET Rows
    BY RowsAre
<1> SUFFICES ASSUME NEW i \in S PROVE Rank(S, i) \in Nat /\ Rank(S, i) < Cardinality(S)
    OBVIOUS
<1> DEFINE ahead == Ahead(S, i)
<1>2. ahead \in SUBSET S /\ i \notin ahead
    BY DEF Ahead
<1> HIDE DEF ahead
<1>3. IsFiniteSet(S) /\ Cardinality(S) \in Nat /\ Cardinality(ahead) \in Nat
    BY <1>1, <1>2, FiniteRows
<1>4. Cardinality(ahead) <= Cardinality(S) /\ (Cardinality(S) = Cardinality(ahead) => S = ahead)
    BY <1>2, <1>3, FS_Subset
<1> QED BY <1>2, <1>3, <1>4 DEF ahead, Rank

LEMMA RanksGrow ==
    ASSUME PagesTypeOK, NEW S \in SUBSET Matching, NEW i \in S, NEW j \in S, i # j, Precedes(i, j)
    PROVE  Rank(S, i) < Rank(S, j)
<1> DEFINE ai == Ahead(S, i)
           aj == Ahead(S, j)
<1>1. i \in aj /\ i \notin ai /\ ai \in SUBSET Rows /\ aj \in SUBSET Rows
    BY RowsAre DEF Ahead
<1>2. ai \in SUBSET aj
    BY OrderIsOne DEF Ahead
<1> HIDE DEF ai, aj
<1>3. IsFiniteSet(aj) /\ Cardinality(aj) \in Nat /\ Cardinality(ai) \in Nat
    BY <1>1, FiniteRows
<1>4. Cardinality(ai) <= Cardinality(aj) /\ (Cardinality(aj) = Cardinality(ai) => aj = ai)
    BY <1>2, <1>3, FS_Subset
<1> QED BY <1>1, <1>3, <1>4 DEF ai, aj, Rank

\* Any set of rows has a last one.
LEMMA LastIs ==
    ASSUME PagesTypeOK, NEW S \in SUBSET Matching, S # {}
    PROVE  LastOf(S) \in S /\ \A j \in S \ {LastOf(S)} : Precedes(j, LastOf(S))
<1> DEFINE n == Cardinality(S)
           gaps == {n - Rank(S, i) : i \in S}
<1>1. n \in Nat
    BY RowsAre, FiniteRows
<1>2. \A i \in S : Rank(S, i) \in Nat /\ Rank(S, i) < n
    BY RanksAre
<1> HIDE DEF n
<1>3. gaps \in SUBSET Nat /\ gaps # {}
    BY <1>1, <1>2
<1>4. PICK d \in gaps : \A e \in gaps : d <= e
    BY <1>3, SmallestNumber
<1>5. PICK i \in S : d = n - Rank(S, i)
    BY <1>4
<1>6. ASSUME NEW j \in S \ {i} PROVE Precedes(j, i)
    <2> SUFFICES ASSUME ~Precedes(j, i) PROVE FALSE
        OBVIOUS
    <2>1. Rank(S, i) < Rank(S, j)
        BY OrderIs, RanksGrow
    <2>2. d <= n - Rank(S, j)
        BY <1>4
    <2> QED BY <1>1, <1>2, <1>5, <2>1, <2>2
<1>7. \E x \in S : \A j \in S \ {x} : Precedes(j, x)
    BY <1>6
<1> QED BY <1>7 DEF LastOf

\* A page is a beginning of its list, full unless the list is short.
LEMMA FirstIs ==
    ASSUME PagesTypeOK, NEW S \in SUBSET Matching, NEW n \in Nat \ {0}
    PROVE  LET page == First(S, n) IN
           /\ page \subseteq S
           /\ Cardinality(page) \in Nat /\ Cardinality(page) <= n
           /\ Cardinality(page) < n => page = S
           /\ Cardinality(S) <= n => page = S
           /\ S # {} => page # {}
           /\ page # {} => /\ LastOf(page) \in page
                           /\ \A i \in page \ {LastOf(page)} : Precedes(i, LastOf(page))
                           /\ \A i \in S \ page : Precedes(LastOf(page), i)
<1> DEFINE page == First(S, n)
           last == LastOf(page)
<1>1. page = {i \in S : Rank(S, i) < n}
    BY DEF First, Rank, Ahead
<1>2. S \in SUBSET Rows /\ \A i \in S : Rank(S, i) \in Nat /\ Rank(S, i) < Cardinality(S)
    BY RowsAre, RanksAre
<1>3. Cardinality(S) \in Nat
    BY <1>2, FiniteRows
<1> HIDE DEF page
<1>4. page \subseteq S /\ IsFiniteSet(page) /\ Cardinality(page) \in Nat
    BY <1>1, <1>2, FiniteRows
<1>5. page # {} => last \in page /\ \A i \in page \ {last} : Precedes(i, last)
    BY <1>4, LastIs
<1> HIDE DEF last
<1>6. ASSUME page # {}, NEW i \in S \ page PROVE Precedes(last, i)
    <2>1. last \in page /\ last # i
        BY <1>5, <1>6
    <2>2. SUFFICES ASSUME ~Precedes(last, i) PROVE FALSE
        OBVIOUS
    <2>3. Precedes(i, last)
        BY <1>4, <1>6, <2>1, <2>2, OrderIs
    <2>4. Rank(S, i) < Rank(S, last)
        BY <1>4, <1>6, <2>1, <2>3, RanksGrow
    <2>5. Rank(S, last) < n /\ ~(Rank(S, i) < n)
        BY <1>1, <1>6, <2>1
    <2>6. Rank(S, i) \in Nat /\ Rank(S, last) \in Nat
        BY <1>2, <1>4, <1>6, <2>1
    <2> QED BY <2>4, <2>5, <2>6
<1>7. Cardinality(page) <= n
    <2>1. CASE page = {}
        BY <2>1, FS_EmptySet
    <2>2. CASE page # {}
        <3>1. last \in page /\ page \ {last} \in SUBSET Ahead(S, last) /\ Ahead(S, last) \in SUBSET Rows
            BY <1>2, <1>4, <1>5, <2>2 DEF Ahead
        <3>2. Cardinality(page \ {last}) = Cardinality(page) - 1
            BY <1>4, <3>1, FS_RemoveElement
        <3>3. IsFiniteSet(Ahead(S, last))
            BY <3>1, FiniteRows
        <3>4. Cardinality(page \ {last}) <= Rank(S, last)
            BY <3>1, <3>3, FS_Subset DEF Rank
        <3>5. Rank(S, last) < n /\ Rank(S, last) \in Nat
            BY <1>1, <1>2, <3>1
        <3> QED BY <1>4, <3>2, <3>4, <3>5
    <2> QED BY <2>1, <2>2
<1>8. ASSUME Cardinality(page) < n PROVE page = S
    <2> SUFFICES ASSUME page # S PROVE FALSE
        OBVIOUS
    <2> DEFINE ranks == {Rank(S, i) : i \in S \ page}
    <2>1. ranks \in SUBSET Nat /\ ranks # {}
        BY <1>2, <1>4
    <2>2. PICK d \in ranks : \A e \in ranks : d <= e
        BY <2>1, SmallestNumber
    <2>3. PICK i \in S \ page : d = Rank(S, i)
        BY <2>2
    <2>4. ASSUME NEW j \in Ahead(S, i), j \notin page PROVE FALSE
        <3>1. j \in S /\ j # i /\ Precedes(j, i)
            BY DEF Ahead
        <3>2. Rank(S, j) < Rank(S, i) /\ Rank(S, j) \in ranks
            BY <2>4, <3>1, RanksGrow
        <3>3. Rank(S, j) \in Nat /\ d \in Nat
            BY <1>2, <2>3, <3>1
        <3> QED BY <2>2, <2>3, <3>2, <3>3
    <2>5. Ahead(S, i) \in SUBSET page
        BY <2>4
    <2>6. Rank(S, i) <= Cardinality(page)
        BY <1>4, <2>5, FS_Subset DEF Rank
    <2>7. Rank(S, i) \in Nat /\ ~(Rank(S, i) < n)
        BY <1>1, <1>2, <2>3
    <2> QED BY <1>4, <1>8, <2>6, <2>7
<1>9. Cardinality(S) <= n => page = S
    BY <1>1, <1>2, <1>3
<1>10. S # {} => page # {}
    BY <1>8, FS_EmptySet
<1> QED BY <1>4, <1>5, <1>6, <1>7, <1>8, <1>9, <1>10 DEF page, last

-----------------------------------------------------------------------------
(***************************************************************************)
(* Answers.                                                                *)
(***************************************************************************)
LEMMA CursorsAre ==
    ASSUME PagesTypeOK, NEW i \in Matching, list = "saves" => row[i] = 0
    PROVE  /\ CursorAt(i) # NoCursor /\ Handed(CursorAt(i))
           /\ CursorAt(i).key = row[i] /\ CursorAt(i).id = i
<1>1. row[i] \in KeysOf(list) /\ i \in Rows
    BY RowsAre
<1>2. row[i] \in Keys \cup {Null, 0}
    BY <1>1, KeysAre
<1>3. CursorAt(i) \in [key: Keys \cup {Null, 0}, id: Rows]
    BY <1>1, <1>2 DEF CursorAt
<1> QED BY <1>1, <1>3, PagesAssumption DEF CursorAt, Handed

\* What was handed out and names a row can be compared with.
LEMMA HandedIs ==
    ASSUME PagesTypeOK, NEW c, Handed(c), c # NoCursor
    PROVE  /\ c.key \in Nat \cup {Null} /\ c.id \in Nat /\ c.id \in Rows /\ c.key \in KeysOf(list)
           /\ list = "old" => c.key \in Nat
           /\ list = "saves" => c.key = 0
           /\ c \in [key: Keys \cup {Null, 0}, id: Rows]
<1>1. c \in [key: Keys \cup {Null, 0}, id: Rows] /\ c.key \in KeysOf(list) /\ (list = "saves" => c.key = 0)
    BY DEF Handed
<1> QED BY <1>1, KeysAre, RowsAre

\* After the page of the rows still to come, the rows after its last one are.
LEMMA NextIs ==
    ASSUME PagesTypeOK, NEW c, Handed(c), NEW S \in SUBSET Matching, NEW n \in Nat \ {0},
           \A i \in S : LeftAfter(c, i), First(S, n) # {}
    PROVE  LET page == First(S, n)
               last == LastOf(page)
           IN  /\ last \in page /\ page \subseteq S
               /\ \A i \in page : ~After(CursorAt(last), i)
               /\ \A i \in S \ page : After(CursorAt(last), i)
               /\ \A i \in Matching : After(CursorAt(last), i) => LeftAfter(c, i)
<1> DEFINE page == First(S, n)
           last == LastOf(page)
<1>1. page \subseteq S /\ last \in page
    BY FirstIs
<1>2. /\ \A i \in page \ {last} : Precedes(i, last)
      /\ \A i \in S \ page : Precedes(last, i)
    BY FirstIs
<1> HIDE DEF page, last
<1>3. last \in Matching
    BY <1>1
<1>4. CursorAt(last).key = row[last] /\ CursorAt(last).id = last
    BY DEF CursorAt
<1>5. ~After(CursorAt(last), last)
    <2>1. last \in Nat /\ (list = "old" => row[last] \in Nat)
        BY <1>3, RowsAre
    <2> DEFINE k == row[last]
    <2>2. CursorAt(last).key = k /\ (list = "old" => k \in Nat)
        BY <1>4, <2>1
    <2>3. After(CursorAt(last), last) =>
            IF list = "old" THEN k > k \/ (k = k /\ last > last)
            ELSE (k = k /\ last < last) \/ k # k
        BY <1>4, <2>2 DEF After
    <2> HIDE DEF k
    <2> QED BY <2>1, <2>2, <2>3
<1>6. ASSUME NEW i \in page PROVE ~After(CursorAt(last), i)
    <2>1. CASE i = last
        BY <1>5, <2>1
    <2>2. CASE i # last
        <3>1. i \in Matching /\ Precedes(i, last)
            BY <1>1, <1>2, <2>2
        <3> QED BY <1>3, <2>2, <3>1, OrderIs
    <2> QED BY <2>1, <2>2
<1>7. ASSUME NEW i \in S \ page PROVE After(CursorAt(last), i)
    <2>1. i # last /\ i \in Matching /\ Precedes(last, i)
        BY <1>1, <1>2
    <2> QED BY <1>3, <2>1, OrderIs
<1>8. ASSUME NEW i \in Matching, After(CursorAt(last), i) PROVE LeftAfter(c, i)
    <2>1. CASE c = NoCursor
        BY <2>1 DEF LeftAfter
    <2>2. CASE c # NoCursor
        <3>1. After(c, last)
            BY <1>1, <2>2 DEF LeftAfter
        <3>2. c.key \in Nat \cup {Null} /\ c.id \in Nat /\ (list = "old" => c.key \in Nat)
            BY <2>2, HandedIs
        <3> QED BY <1>3, <1>8, <3>1, <3>2, AfterAfter DEF LeftAfter
    <2> QED BY <2>1, <2>2
<1> QED BY <1>1, <1>6, <1>7, <1>8 DEF page, last

LEMMA PageSplits ==
    ASSUME PagesTypeOK, NEW c, Handed(c), NEW S \in SUBSET Matching,
           \A i \in Rows : i \in S <=> LeftAfter(c, i),
           NEW answer, answer.rows = First(S, Limit),
           \/ /\ answer.next = NoCursor
              /\ list = "saves" \/ First(S, Limit) = S
           \/ /\ First(S, Limit) # {} /\ answer.next = CursorAt(LastOf(First(S, Limit)))
              /\ list = "saves" => row[LastOf(First(S, Limit))] = 0
    PROVE  Splits(c, answer)
<1> DEFINE page == First(S, Limit)
           last == LastOf(page)
<1>1. page \subseteq S /\ S \subseteq Rows /\ Limit \in Nat \ {0}
    BY RowsAre, PagesAssumption DEF First
<1>2. \A i \in steady : LeftAfter(c, i) => i \in S
    BY RowsAre DEF LeftAfter
<1>3. CASE answer.next = NoCursor /\ (list = "saves" \/ page = S)
    BY <1>1, <1>2, <1>3 DEF Splits, Handed
<1>4. CASE page # {} /\ answer.next = CursorAt(last) /\ (list = "saves" => row[last] = 0)
    <2>1. /\ last \in page
          /\ \A i \in page : ~After(CursorAt(last), i)
          /\ \A i \in S \ page : After(CursorAt(last), i)
          /\ \A i \in Matching : After(CursorAt(last), i) => LeftAfter(c, i)
        BY <1>1, <1>4, NextIs
    <2> HIDE DEF page, last
    <2>2. CursorAt(last) # NoCursor /\ Handed(CursorAt(last))
        BY <1>1, <1>4, <2>1, CursorsAre
    <2>3. \A i \in Matching : LeftAfter(CursorAt(last), i) <=> After(CursorAt(last), i)
        BY <2>2 DEF LeftAfter
    <2>4. \A i : LeftAfter(CursorAt(last), i) => i \in Matching
        BY DEF LeftAfter
    <2>5. answer.rows = page
        BY DEF page
    <2>6. \A i \in steady : i \in answer.rows => LeftAfter(c, i)
        BY <1>1, <2>5
    <2>7. \A i \in steady : answer.next # NoCursor /\ LeftAfter(answer.next, i) =>
                              LeftAfter(c, i) /\ i \notin answer.rows
        BY <1>4, <2>1, <2>3, <2>4, <2>5
    <2>8. \A i \in steady : LeftAfter(c, i) /\ i \notin answer.rows =>
                IF answer.next = NoCursor THEN list = "saves" ELSE LeftAfter(answer.next, i)
        BY <1>1, <1>2, <1>4, <2>1, <2>2, <2>3, <2>5
    <2> QED BY <1>1, <1>4, <2>2, <2>5, <2>6, <2>7, <2>8 DEF Splits
<1> QED BY <1>3, <1>4

\* A page read with one row more, and a full one that is taken to have a successor.
LEMMA PeekSplits ==
    ASSUME PagesTypeOK, NEW c, Handed(c), NEW S \in SUBSET Matching, list # "saves",
           \A i \in Rows : i \in S <=> LeftAfter(c, i)
    PROVE  Splits(c, Peek(S)) /\ Splits(c, Full(S))
<1> DEFINE page == First(S, Limit)
<1>1. Limit \in Nat \ {0} /\ Cardinality(S) \in Nat
    BY PagesAssumption, RowsAre, FiniteRows
<1>2. /\ Cardinality(page) \in Nat /\ Cardinality(page) <= Limit
      /\ Cardinality(page) < Limit => page = S
      /\ Cardinality(S) <= Limit => page = S
      /\ S # {} => page # {}
    BY <1>1, FirstIs
<1>3. Cardinality({}) = 0
    BY FS_EmptySet
<1>4. Peek(S).rows = page /\ Full(S).rows = page
    BY DEF Peek, Full
<1>5. Peek(S).next = IF Cardinality(S) > Limit THEN CursorAt(LastOf(page)) ELSE NoCursor
    BY DEF Peek
<1>6. Full(S).next = IF Cardinality(page) = Limit THEN CursorAt(LastOf(page)) ELSE NoCursor
    BY DEF Full
<1>7. Splits(c, Peek(S))
    <2>1. CASE Cardinality(S) > Limit
        <3>1. page # {}
            BY <1>1, <1>2, <1>3, <2>1
        <3> QED BY <1>4, <1>5, <2>1, <3>1, PageSplits
    <2>2. CASE ~(Cardinality(S) > Limit)
        <3>1. page = S
            BY <1>1, <1>2, <2>2
        <3> QED BY <1>4, <1>5, <2>2, <3>1, PageSplits
    <2> QED BY <2>1, <2>2
<1>8. Splits(c, Full(S))
    <2>1. CASE Cardinality(page) = Limit
        <3>1. page # {}
            BY <1>1, <1>3, <2>1
        <3> QED BY <1>4, <1>6, <2>1, <3>1, PageSplits
    <2>2. CASE Cardinality(page) # Limit
        <3>1. page = S
            BY <1>1, <1>2, <2>2
        <3> QED BY <1>4, <1>6, <2>2, <3>1, PageSplits
    <2> QED BY <2>1, <2>2
<1> QED BY <1>7, <1>8

LEMMA ListUsersSplits ==
    ASSUME PagesTypeOK, NEW c, Handed(c), list = "users"
    PROVE  Splits(c, ListUsers(c))
<1> DEFINE S == IF c = NoCursor THEN Matching
                ELSE IF c.key = Null THEN NullsBelow(c) ELSE Keyset(c) \cup NullsBelow(NoCursor)
<1>1. ListUsers(c) = Peek(S)
    BY DEF ListUsers
<1>2. S \in SUBSET Matching
    BY DEF NullsBelow, Keyset, Valued
<1>3. ASSUME NEW i \in Rows PROVE i \in S <=> LeftAfter(c, i)
    <2>1. CASE c = NoCursor
        BY <2>1 DEF LeftAfter
    <2>2. CASE c # NoCursor /\ i \in Matching
        <3> DEFINE k == c.key
                   d == c.id
                   r == row[i]
        <3>1. k \in Nat \cup {Null} /\ d \in Nat /\ r \in Nat \cup {Null} /\ i \in Nat /\ Null \notin Nat
            BY <2>2, HandedIs, RowsAre, KeysAre
        <3>2. LeftAfter(c, i) <=> \/ r = k /\ i < d
                                  \/ r # k /\ r = Null
                                  \/ r # k /\ r # Null /\ k # Null /\ r < k
            BY <2>2 DEF LeftAfter, After
        <3>3. i \in S <=> IF k = Null THEN r = Null /\ i < d
                          ELSE (r # Null /\ r <= k /\ (r < k \/ i < d)) \/ r = Null
            BY <2>2 DEF NullsBelow, Keyset, Valued
        <3> HIDE DEF k, d, r, S
        <3>4. CASE k = Null
            BY <3>1, <3>2, <3>3, <3>4
        <3>5. CASE k # Null /\ r = Null
            BY <3>1, <3>2, <3>3, <3>5
        <3>6. CASE k # Null /\ r # Null
            <4>1. k \in Nat /\ r \in Nat
                BY <3>1, <3>6
            <4> QED BY <3>1, <3>2, <3>3, <3>6, <4>1
        <3> QED BY <3>4, <3>5, <3>6
    <2>3. CASE i \notin Matching
        BY <1>2, <2>3 DEF LeftAfter
    <2> QED BY <2>1, <2>2, <2>3
<1> HIDE DEF S
<1> QED BY <1>1, <1>2, <1>3, PeekSplits

\* Rows whose keys are numbers.
LEMMA NumbersAfter ==
    ASSUME PagesTypeOK, NEW c, Handed(c), c # NoCursor, NEW i \in Matching,
           list \notin {"users", "export"}
    PROVE  /\ row[i] \in Nat /\ i \in Nat /\ c.key \in Nat /\ c.id \in Nat
           /\ LeftAfter(c, i) <=>
                IF list = "old" THEN row[i] > c.key \/ (row[i] = c.key /\ i > c.id)
                ELSE row[i] < c.key \/ (row[i] = c.key /\ i < c.id)
           /\ list \in ById => row[i] = 0 /\ c.key = 0
           /\ list = "saves" => row[i] \in {0, 1} /\ c.key = 0
<1> DEFINE k == c.key
           d == c.id
           r == row[i]
<1>1. /\ r \in Nat /\ i \in Nat /\ k \in Nat /\ d \in Nat /\ Null \notin Nat
      /\ r \in KeysOf(list) /\ k \in KeysOf(list) /\ (list = "saves" => k = 0)
    BY HandedIs, RowsAre, KeysAre
<1>2. /\ list \in ById => r = 0 /\ k = 0
      /\ list = "saves" => r \in {0, 1}
    BY <1>1, KeysAre
<1>3. LeftAfter(c, i) <=>
        IF list = "old" THEN r > k \/ (r = k /\ i > d)
        ELSE \/ r = k /\ i < d
             \/ r # k /\ r = Null
             \/ r # k /\ r # Null /\ k # Null /\ r < k
    BY DEF LeftAfter, After
<1> HIDE DEF k, d, r
<1>4. LeftAfter(c, i) <=> IF list = "old" THEN r > k \/ (r = k /\ i > d)
                          ELSE r < k \/ (r = k /\ i < d)
    BY <1>1, <1>3
<1> QED BY <1>1, <1>2, <1>4 DEF k, d, r

LEMMA SearchSplits ==
    ASSUME PagesTypeOK, NEW c, Handed(c), list \in {"new", "old", "salary"}
    PROVE  Splits(c, Search(c))
<1> DEFINE S == IF c = NoCursor THEN Matching
                ELSE {i \in Matching :
                        IF list = "old" THEN row[i] > c.key \/ (row[i] = c.key /\ i > c.id)
                        ELSE row[i] < c.key \/ (row[i] = c.key /\ i < c.id)}
<1>1. Search(c) = Peek(S) /\ S \in SUBSET Matching
    BY DEF Search
<1>2. \A i \in Rows : i \in S <=> LeftAfter(c, i)
    BY NumbersAfter DEF LeftAfter
<1> HIDE DEF S
<1> QED BY <1>1, <1>2, PeekSplits

LEMMA ReferralsSplits ==
    ASSUME PagesTypeOK, NEW c, Handed(c), list = "referrals"
    PROVE  Splits(c, Referrals(c))
<1> DEFINE S == IF c = NoCursor THEN Matching
                ELSE {i \in Matching : row[i] < c.key \/ (row[i] = c.key /\ i < c.id)}
<1>1. Referrals(c) = Full(S) /\ S \in SUBSET Matching
    BY DEF Referrals
<1>2. \A i \in Rows : i \in S <=> LeftAfter(c, i)
    BY NumbersAfter DEF LeftAfter
<1> HIDE DEF S
<1> QED BY <1>1, <1>2, PeekSplits

LEMMA OlderSplits ==
    ASSUME PagesTypeOK, NEW c, Handed(c), list \in ById
    PROVE  Splits(c, Peek(OlderThan(c))) /\ Splits(c, Full(OlderThan(c)))
<1> DEFINE S == OlderThan(c)
<1>1. S \in SUBSET Matching
    BY DEF OlderThan
<1>2. list \notin {"users", "export", "saves", "old"}
    BY DEF ById
<1>3. ASSUME NEW i \in Rows PROVE i \in S <=> LeftAfter(c, i)
    <2>1. CASE c = NoCursor
        BY <2>1 DEF OlderThan, LeftAfter
    <2>2. CASE c # NoCursor /\ i \in Matching
        <3>1. row[i] = 0 /\ c.key = 0
            BY <1>2, <2>2, NumbersAfter
        <3>2. LeftAfter(c, i) <=> row[i] < c.key \/ (row[i] = c.key /\ i < c.id)
            BY <1>2, <2>2, NumbersAfter
        <3> QED BY <2>2, <3>1, <3>2 DEF OlderThan
    <2>3. CASE i \notin Matching
        BY <2>3 DEF OlderThan, LeftAfter
    <2> QED BY <2>1, <2>2, <2>3
<1> HIDE DEF S
<1>4. Splits(c, Peek(S)) /\ Splits(c, Full(S))
    BY <1>1, <1>2, <1>3, PeekSplits
<1> QED BY <1>4 DEF S

LEMMA UserSavesSplits ==
    ASSUME PagesTypeOK, NEW c, Handed(c), list = "saves"
    PROVE  Splits(c, UserSaves(c))
<1> DEFINE S == IF c = NoCursor THEN Matching ELSE {i \in Matching : row[i] = 0 /\ i < c.id}
           page == First(S, Limit)
           answer == Peek(S)
<1>1. UserSaves(c) = IF answer.next # NoCursor /\ answer.next.key = 1
                     THEN [answer EXCEPT !.next = NoCursor] ELSE answer
    BY DEF UserSaves
<1>2. S \in SUBSET Matching
    OBVIOUS
<1>3. ASSUME NEW i \in Rows PROVE i \in S <=> LeftAfter(c, i)
    <2>1. CASE c = NoCursor
        BY <2>1 DEF LeftAfter
    <2>2. CASE c # NoCursor /\ i \in Matching
        <3>1. row[i] \in {0, 1} /\ c.key = 0
            BY <2>2, NumbersAfter
        <3>2. LeftAfter(c, i) <=> row[i] < c.key \/ (row[i] = c.key /\ i < c.id)
            BY <2>2, NumbersAfter
        <3> QED BY <2>2, <3>1, <3>2
    <2>3. CASE i \notin Matching
        BY <2>3 DEF LeftAfter
    <2> QED BY <2>1, <2>2, <2>3
<1> HIDE DEF S
<1>4. Limit \in Nat \ {0} /\ Cardinality(S) \in Nat
    BY <1>2, PagesAssumption, RowsAre, FiniteRows
<1>5. /\ Cardinality(S) <= Limit => page = S
      /\ S # {} => page # {}
      /\ page # {} => LastOf(page) \in page
      /\ page \subseteq S
    BY <1>2, <1>4, FirstIs
<1>6. answer = [rows |-> page,
                next |-> IF Cardinality(S) > Limit THEN CursorAt(LastOf(page)) ELSE NoCursor]
    BY DEF Peek
<1> HIDE DEF answer
<1>7. CASE ~(Cardinality(S) > Limit)
    <2>1. UserSaves(c).rows = page /\ UserSaves(c).next = NoCursor
        BY <1>1, <1>6, <1>7
    <2> QED BY <1>2, <1>3, <2>1, PageSplits
<1>8. CASE Cardinality(S) > Limit
    <2>1. page # {}
        <3>1. S # {}
            BY <1>4, <1>8, FS_EmptySet
        <3> QED BY <1>5, <3>1
    <2> DEFINE last == LastOf(page)
    <2>2. last \in Matching
        BY <1>2, <1>5, <2>1
    <2> HIDE DEF last
    <2>3. answer.next = CursorAt(last) /\ CursorAt(last).key = row[last]
        BY <1>6, <1>8 DEF CursorAt, last
    <2>4. row[last] \in {0, 1}
        BY <2>2, RowsAre, KeysAre
    <2>5. CASE row[last] = 0
        <3>1. UserSaves(c) = answer
            BY <1>1, <2>3, <2>5
        <3>2. UserSaves(c).rows = page /\ UserSaves(c).next = CursorAt(last)
            BY <1>6, <2>3, <3>1
        <3> QED BY <1>2, <1>3, <2>1, <2>5, <3>2, PageSplits DEF last
    <2>6. CASE row[last] = 1
        <3>1. UserSaves(c).rows = page /\ UserSaves(c).next = NoCursor
            BY <1>1, <1>6, <2>3, <2>6
        <3> QED BY <1>2, <1>3, <3>1, PageSplits
    <2> QED BY <2>4, <2>5, <2>6
<1> QED BY <1>7, <1>8

LEMMA AnswerSplits ==
    ASSUME PagesTypeOK, CacheInv, NEW c, Handed(c), list # "export"
    PROVE  Splits(c, Answer(c))
<1>1. list \in AllLists
    BY PagesAssumption DEF PagesTypeOK
<1>2. CASE list = "users"
    <2>1. Answer(c) = ListUsers(c)
        BY <1>2 DEF Answer
    <2> QED BY <1>2, <2>1, ListUsersSplits
<1>3. CASE list \in {"new", "old", "salary"}
    <2>1. Answer(c) = Search(c)
        BY <1>3 DEF Answer
    <2> QED BY <1>3, <2>1, SearchSplits
<1>4. CASE list = "referrals"
    <2>1. Answer(c) = IF c \in DOMAIN cache THEN cache[c] ELSE Referrals(c)
        BY <1>4 DEF Answer
    <2> QED BY <1>4, <2>1, ReferralsSplits DEF CacheInv
<1>5. CASE list \in ById
    <2>1. Answer(c) \in {Peek(OlderThan(c)), Full(OlderThan(c))}
        BY <1>5 DEF Answer, ById, Transactions, Payments, Ledger, History, Errors, Audit,
                         Broadcasts
    <2> QED BY <1>5, <2>1, OlderSplits
<1>6. CASE list = "saves"
    <2>1. Answer(c) = UserSaves(c)
        BY <1>6 DEF Answer
    <2> QED BY <1>6, <2>1, UserSavesSplits
<1> QED BY <1>1, <1>2, <1>3, <1>4, <1>5, <1>6 DEF AllLists

-----------------------------------------------------------------------------
(***************************************************************************)
(* The steps.                                                              *)
(***************************************************************************)
LEMMA WalkIs ==
    ASSUME PagesTypeOK
    PROVE  /\ walk \in Walk /\ walk.at \in {"idle", "walking", "ended"} /\ walk.left \in Nat
           /\ walk.cursor \in Cursors /\ walk.tail \in BOOLEAN /\ walk.cut \in BOOLEAN
           /\ walk.grown \in BOOLEAN
BY DEF PagesTypeOK, Walk

LEMMA HandedTypes ==
    ASSUME NEW c, Handed(c)
    PROVE  c \in Cursors
BY DEF Handed, Cursors

LEMMA NoWalkIs ==
    NoWalk \in Walk /\ NoWalk.cursor = NoCursor /\ NoWalk.tail = FALSE /\ NoWalk.grown = FALSE
<1>1. NoCursor \in Cursors
    BY DEF Cursors
<1> QED BY <1>1 DEF NoWalk, Walk

LEMMA PagesBegin ==
    ASSUME PagesInit
    PROVE  PagesSound
<1>1. walk = NoWalk /\ walk.at = "idle" /\ steady = {} /\ DOMAIN cache = {}
    BY DEF PagesInit, NoWalk, NoAnswers
<1>2. PagesTypeOK
    BY <1>1, NoWalkIs, PagesAssumption DEF PagesInit, PagesTypeOK
<1>3. CacheInv /\ WalkedInv /\ ExportInv /\ RowsAreServedOnce
    BY <1>1 DEF CacheInv, WalkedInv, ExportInv, RowsAreServedOnce
<1> QED BY <1>1, <1>2, <1>3 DEF PagesSound

\* What is said of an answer stays so while its steady rows stand still.
LEMMA SplitsStay ==
    ASSUME NEW c, NEW answer, Splits(c, answer), UNCHANGED list, steady' \subseteq steady,
           steady' \subseteq Rows,
           \A i \in steady' : row'[i] = row[i]
    PROVE  Splits(c, answer)'
<1>1. \A i \in steady' : i \in Matching' <=> i \in Matching
    BY DEF Matching
<1>2. \A d : Handed(d)' <=> Handed(d)
    BY DEF Handed, KeysOf
<1>3. \A d : \A i \in steady' : After(d, i)' <=> After(d, i)
    BY DEF After
<1>4. \A d : \A i \in steady' : LeftAfter(d, i)' <=> LeftAfter(d, i)
    BY <1>1, <1>3 DEF LeftAfter
<1> QED BY <1>2, <1>4 DEF Splits

LEMMA CacheStays ==
    ASSUME CacheInv, UNCHANGED <<list, cache>>, steady' \subseteq steady, steady' \subseteq Rows,
           \A i \in steady' : row'[i] = row[i]
    PROVE  CacheInv'
<1> SUFFICES ASSUME NEW c \in DOMAIN cache PROVE Handed(c)' /\ Splits(c, cache[c])'
    BY DEF CacheInv
<1>1. Handed(c) /\ Splits(c, cache[c])
    BY DEF CacheInv
<1>2. Handed(c)'
    BY <1>1 DEF Handed, KeysOf
<1>3. Splits(c, cache[c])'
    BY <1>1, SplitsStay
<1> QED BY <1>2, <1>3

\* What Begin does.
LEMMA BeginIs ==
    ASSUME PagesSound, Begin
    PROVE  /\ CacheInv' /\ steady' \subseteq Matching' /\ Matching' = Matching
           /\ steady' \subseteq Rows /\ \A i \in steady' : served'[i] = 0
           /\ served' \in [Rows -> Nat]
<1>1. PagesTypeOK /\ CacheInv
    BY DEF PagesSound
<1>2. /\ served' = [i \in Rows |-> 0]
      /\ steady' = IF cache = NoAnswers THEN Matching ELSE steady \cap Matching
      /\ UNCHANGED <<list, row, cache, changes>>
    BY DEF Begin
<1>3. Matching' = Matching /\ Matching \subseteq Rows
    BY <1>2 DEF Matching
<1>4. CacheInv'
    <2>1. CASE cache = NoAnswers
        <3>1. DOMAIN cache' = {}
            BY <1>2, <2>1 DEF NoAnswers
        <3> QED BY <3>1 DEF CacheInv
    <2>2. CASE cache # NoAnswers
        BY <1>1, <1>2, <1>3, <2>2, CacheStays
    <2> QED BY <2>1, <2>2
<1> QED BY <1>2, <1>3, <1>4

LEMMA BeginWalkKeeps ==
    ASSUME PagesSound, BeginWalk
    PROVE  PagesSound'
<1>1. PagesTypeOK
    BY DEF PagesSound
<1>2. /\ CacheInv' /\ steady' \subseteq Matching' /\ steady' \subseteq Rows
      /\ \A i \in steady' : served'[i] = 0
      /\ served' \in [Rows -> Nat]
    BY BeginIs DEF BeginWalk
<1> DEFINE next == [NoWalk EXCEPT !.at = "walking"]
<1>3. list # "export" /\ walk' = next /\ UNCHANGED <<list, row, cache, changes>>
    BY DEF BeginWalk, Begin
<1>4. next \in Walk /\ next.at = "walking" /\ next.cursor = NoCursor
    BY NoWalkIs DEF Walk
<1> HIDE DEF next
<1>5. PagesTypeOK'
    BY <1>1, <1>2, <1>3, <1>4 DEF PagesTypeOK
<1>6. WalkedInv'
    BY <1>2, <1>3, <1>4 DEF WalkedInv, Handed, LeftAfter
<1>7. ExportInv'
    BY <1>3 DEF ExportInv
<1>8. RowsAreServedOnce'
    BY <1>2, <1>3, <1>4 DEF RowsAreServedOnce
<1> QED BY <1>2, <1>3, <1>4, <1>5, <1>6, <1>7, <1>8 DEF PagesSound

LEMMA NextPageKeeps ==
    ASSUME PagesSound, NextPage
    PROVE  PagesSound'
<1>1. PagesTypeOK /\ CacheInv /\ WalkedInv /\ steady \subseteq Matching
    BY DEF PagesSound
<1> DEFINE c == walk.cursor
           answer == Answer(c)
           next == [walk EXCEPT !.cursor = answer.next,
                                !.at = IF answer.next = NoCursor THEN "ended" ELSE "walking"]
<1>2. /\ walk.at = "walking" /\ list # "export" /\ Show(answer.rows) /\ walk' = next
      /\ cache' = IF list = "referrals"
                  THEN [x \in DOMAIN cache \cup {c} |-> IF x = c THEN answer ELSE cache[x]]
                  ELSE cache
      /\ UNCHANGED <<list, row, steady, changes>>
    BY DEF NextPage
<1>3. Handed(c) /\ \A i \in steady : served[i] = IF LeftAfter(c, i) THEN 0 ELSE 1
    BY <1>1, <1>2 DEF WalkedInv
<1>4. Splits(c, answer)
    BY <1>1, <1>2, <1>3, AnswerSplits
<1> HIDE DEF c, answer
<1>5. Handed(answer.next) /\ answer.next \in Cursors
    BY <1>4, HandedTypes DEF Splits
<1>6. /\ next \in Walk /\ next.cursor = answer.next
      /\ next.at = IF answer.next = NoCursor THEN "ended" ELSE "walking"
    BY <1>1, <1>5, WalkIs DEF Walk
<1> HIDE DEF next
<1>7. steady \subseteq Rows /\ served \in [Rows -> Nat]
    BY <1>1, RowsAre DEF PagesTypeOK
<1>8. /\ served' \in [Rows -> Nat]
      /\ \A i \in Rows : served'[i] = IF i \in answer.rows THEN served[i] + 1 ELSE served[i]
    BY <1>2, <1>7 DEF Show
<1>9. /\ \A d, i : LeftAfter(d, i)' <=> LeftAfter(d, i)
      /\ \A d : Handed(d)' <=> Handed(d)
      /\ Matching' = Matching
    BY <1>2 DEF LeftAfter, After, Matching, Handed, KeysOf
<1>10. PagesTypeOK'
    BY <1>1, <1>2, <1>6, <1>8 DEF PagesTypeOK
<1>11. CacheInv'
    <2> SUFFICES ASSUME NEW x \in DOMAIN cache' PROVE Handed(x)' /\ Splits(x, cache[x])'
        BY DEF CacheInv
    <2>1. Handed(x) /\ Splits(x, cache'[x])
        <3>1. CASE list = "referrals" /\ x = c
            <4>1. cache'[x] = answer
                BY <1>2, <3>1
            <4> QED BY <1>3, <1>4, <3>1, <4>1
        <3>2. CASE ~(list = "referrals" /\ x = c)
            <4>1. x \in DOMAIN cache /\ cache'[x] = cache[x]
                BY <1>2, <3>2
            <4> QED BY <1>1, <4>1 DEF CacheInv
        <3> QED BY <3>1, <3>2
    <2>2. Splits(x, cache[x])'
        <3>1. PICK a : a = cache'[x]
            OBVIOUS
        <3>2. Splits(x, a)
            BY <2>1, <3>1
        <3>3. UNCHANGED list /\ steady' \subseteq steady /\ steady' \subseteq Rows /\ UNCHANGED row
            BY <1>2, <1>7
        <3>4. Splits(x, a)'
            BY <3>2, <3>3, SplitsStay
        <3> QED BY <3>1, <3>4 DEF Splits
    <2> QED BY <1>9, <2>1, <2>2
<1>12. ASSUME NEW i \in steady
       PROVE  /\ served'[i] = IF answer.next # NoCursor /\ LeftAfter(answer.next, i) THEN 0
                              ELSE IF i \in answer.rows \/ ~LeftAfter(c, i) THEN 1 ELSE 0
              /\ answer.next # NoCursor => (LeftAfter(answer.next, i) <=>
                                              LeftAfter(c, i) /\ i \notin answer.rows)
    <2>1. served[i] = IF LeftAfter(c, i) THEN 0 ELSE 1
        BY <1>3
    <2>2. served'[i] = IF i \in answer.rows THEN served[i] + 1 ELSE served[i]
        BY <1>7, <1>8
    <2>3. /\ i \in answer.rows => LeftAfter(c, i)
          /\ answer.next # NoCursor /\ LeftAfter(answer.next, i) =>
                LeftAfter(c, i) /\ i \notin answer.rows
          /\ LeftAfter(c, i) /\ i \notin answer.rows =>
                IF answer.next = NoCursor THEN list = "saves" ELSE LeftAfter(answer.next, i)
        BY <1>4 DEF Splits
    <2> QED BY <2>1, <2>2, <2>3
<1>13. WalkedInv'
    <2> SUFFICES ASSUME answer.next # NoCursor
                 PROVE  \A i \in steady : served'[i] = IF LeftAfter(answer.next, i) THEN 0 ELSE 1
        BY <1>2, <1>5, <1>6, <1>9 DEF WalkedInv
    <2> QED BY <1>12
<1>14. ExportInv'
    BY <1>2 DEF ExportInv
<1>15. RowsAreServedOnce'
    <2>1. \A i \in steady : served'[i] \in {0, 1}
        BY <1>12
    <2>2. \A i \in steady : answer.next = NoCursor => served'[i] = 1 \/ list = "saves"
        BY <1>4, <1>12 DEF Splits
    <2> QED BY <1>2, <1>6, <2>1, <2>2 DEF RowsAreServedOnce
<1>16. steady' \subseteq Matching' /\ walk'.at # "idle"
    BY <1>1, <1>2, <1>6, <1>9
<1> QED BY <1>10, <1>11, <1>13, <1>14, <1>15, <1>16 DEF PagesSound

LEMMA ForgetKeeps ==
    ASSUME PagesSound, NEW c \in DOMAIN cache, Forget(c)
    PROVE  PagesSound'
<1>1. /\ cache' = [x \in DOMAIN cache \ {c} |-> cache[x]]
      /\ UNCHANGED <<list, row, walk, served, steady, changes>>
    BY DEF Forget
<1>2. CacheInv'
    <2> SUFFICES ASSUME NEW x \in DOMAIN cache, x # c PROVE Handed(x)' /\ Splits(x, cache[x])'
        BY <1>1 DEF CacheInv
    <2>1. Handed(x) /\ Splits(x, cache[x])
        BY DEF PagesSound, CacheInv
    <2>2. steady' \subseteq Rows
        BY <1>1 DEF PagesSound, PagesTypeOK
    <2>3. Splits(x, cache[x])'
        BY <1>1, <2>1, <2>2 DEF Splits, Handed, KeysOf, LeftAfter, After, Matching
    <2> QED BY <1>1, <2>1, <2>3 DEF Handed, KeysOf
<1>3. PagesTypeOK' /\ steady' \subseteq Matching' /\ (walk'.at = "idle" => steady' = {})
    BY <1>1 DEF PagesSound, PagesTypeOK, Matching, KeysOf
<1>4. WalkedInv'
    BY <1>1 DEF PagesSound, WalkedInv, Handed, KeysOf, LeftAfter, After, Matching
<1>5. ExportInv'
    BY <1>1 DEF PagesSound, ExportInv, ExportLeft, Handed, KeysOf, LeftAfter, After, Matching
<1>6. RowsAreServedOnce'
    BY <1>1 DEF PagesSound, RowsAreServedOnce
<1> QED BY <1>2, <1>3, <1>4, <1>5, <1>6 DEF PagesSound

LEMMA BeginExportKeeps ==
    ASSUME PagesSound, BeginExport
    PROVE  PagesSound'
<1>1. PagesTypeOK
    BY DEF PagesSound
<1> DEFINE matched == Cardinality(Matching)
           next == [NoWalk EXCEPT
                      !.at = IF matched = 0 THEN "ended" ELSE "walking",
                      !.left = IF matched < ExportMax THEN matched ELSE ExportMax,
                      !.cut = matched > ExportMax]
<1>2. /\ CacheInv' /\ steady' \subseteq Matching' /\ Matching' = Matching /\ steady' \subseteq Rows
      /\ \A i \in steady' : served'[i] = 0
      /\ served' \in [Rows -> Nat]
    BY BeginIs DEF BeginExport
<1>3. list = "export" /\ walk' = next /\ UNCHANGED <<list, row, cache, changes>>
    BY DEF BeginExport, Begin
<1>4. Matching \subseteq Rows /\ IsFiniteSet(Matching) /\ matched \in Nat /\ ExportMax \in Nat \ {0}
    BY <1>1, RowsAre, FiniteRows, PagesAssumption
<1>5. matched = 0 => Matching = {}
    BY <1>4, FS_EmptySet
<1> HIDE DEF matched
<1>6. /\ next \in Walk /\ next.at = (IF matched = 0 THEN "ended" ELSE "walking")
      /\ next.cursor = NoCursor /\ next.tail = FALSE
      /\ next.left = (IF matched < ExportMax THEN matched ELSE ExportMax)
      /\ ~next.cut => ~(matched > ExportMax)
    <2> DEFINE at == IF matched = 0 THEN "ended" ELSE "walking"
               left == IF matched < ExportMax THEN matched ELSE ExportMax
               capped == matched > ExportMax
    <2>1. at \in {"idle", "walking", "ended"} /\ left \in Nat /\ capped \in BOOLEAN
        BY <1>4
    <2>2. next = [NoWalk EXCEPT !.at = at, !.left = left, !.cut = capped]
        OBVIOUS
    <2> HIDE DEF at, left, capped, next
    <2>3. /\ next \in Walk /\ next.at = at /\ next.cursor = NoCursor /\ next.tail = FALSE
          /\ next.left = left /\ next.cut = capped
        BY <2>1, <2>2, NoWalkIs DEF Walk
    <2>4. ~capped => ~(matched > ExportMax)
        BY DEF capped
    <2>5. ~next.cut => ~(matched > ExportMax)
        BY <2>3, <2>4
    <2> QED BY <2>3, <2>5 DEF at, left
<1> HIDE DEF next
<1>7. PagesTypeOK'
    BY <1>1, <1>2, <1>3, <1>6 DEF PagesTypeOK
<1>8. WalkedInv'
    BY <1>3 DEF WalkedInv
<1>9. ExportInv'
    <2> SUFFICES ASSUME matched # 0
                 PROVE  /\ Handed(NoCursor)' /\ next.left > 0
                        /\ \A i \in steady' : served'[i] = IF i \in ExportLeft' THEN 0 ELSE 1
                        /\ ~next.cut => Cardinality(ExportLeft') <= next.left
        BY <1>3, <1>6 DEF ExportInv
    <2>1. ExportLeft' = Matching
        BY <1>2, <1>3, <1>4, <1>6 DEF ExportLeft, LeftAfter
    <2>2. Cardinality(ExportLeft') = matched
        BY <2>1 DEF matched
    <2>3. Handed(NoCursor)'
        BY DEF Handed
    <2>4. next.left > 0 /\ (~next.cut => matched <= next.left)
        BY <1>4, <1>6
    <2>5. \A i \in steady' : served'[i] = IF i \in ExportLeft' THEN 0 ELSE 1
        BY <1>2, <2>1
    <2> QED BY <2>2, <2>3, <2>4, <2>5
<1>10. RowsAreServedOnce'
    BY <1>2, <1>3, <1>5, <1>6 DEF RowsAreServedOnce
<1> QED BY <1>2, <1>3, <1>6, <1>7, <1>8, <1>9, <1>10 DEF PagesSound

\* What a chunk is taken from: of what is left, the NULL tail on its own.
LEMMA ChunkIs ==
    ASSUME PagesTypeOK, ExportInv, walk.at = "walking", list = "export"
    PROVE  /\ (IF walk.tail THEN NullsBelow(walk.cursor)
               ELSE IF walk.cursor = NoCursor THEN Valued ELSE Keyset(walk.cursor))
              = {i \in ExportLeft : ~walk.tail => row[i] # Null}
           /\ \A i \in Matching : ~walk.tail /\ row[i] = Null => i \in ExportLeft
<1> DEFINE c == walk.cursor
<1>1. Handed(c) /\ (c # NoCursor => (walk.tail <=> c.key = Null)) /\ walk.tail \in BOOLEAN
    BY WalkIs DEF ExportInv
<1>2. \A i : i \in ExportLeft <=>
        i \in Matching /\ (walk.tail => row[i] = Null) /\ (c = NoCursor \/ After(c, i))
    BY RowsAre DEF ExportLeft, LeftAfter
<1> HIDE DEF c
<1>3. CASE c = NoCursor
    BY <1>1, <1>2, <1>3 DEF NullsBelow, Valued, c
<1>4. CASE c # NoCursor
    <2>1. c.key \in Nat \cup {Null} /\ c.id \in Nat /\ Null \notin Nat
        BY <1>1, <1>4, HandedIs, KeysAre
    <2> DEFINE k == c.key
               d == c.id
    <2>2. ASSUME NEW i \in Matching
          PROVE  /\ After(c, i) <=> \/ row[i] = k /\ i < d
                                    \/ row[i] # k /\ row[i] = Null
                                    \/ row[i] # k /\ row[i] # Null /\ k # Null /\ row[i] < k
                 /\ row[i] \in Nat \cup {Null} /\ i \in Nat
        BY RowsAre DEF After
    <2>3. \A i : i \in NullsBelow(c) <=> i \in Matching /\ row[i] = Null /\ i < d
        BY <1>4 DEF NullsBelow
    <2>4. \A i : i \in Keyset(c) <=> i \in Matching /\ row[i] # Null /\ row[i] <= k /\ (row[i] < k \/ i < d)
        BY DEF Keyset, Valued
    <2>5. c.key = k /\ c.id = d
        OBVIOUS
    <2> HIDE DEF k, d
    <2>6. CASE walk.tail
        <3>1. k = Null
            BY <1>1, <1>4, <2>5, <2>6
        <3>2. \A i \in Matching : row[i] = Null => (After(c, i) <=> i < d)
            BY <2>2, <3>1
        <3> QED BY <1>2, <1>4, <2>3, <2>6, <3>2 DEF c
    <2>7. CASE ~walk.tail
        <3>1. k \in Nat /\ k # Null
            BY <1>1, <1>4, <2>1, <2>5, <2>7
        <3>2. ASSUME NEW i \in Matching, row[i] # Null
              PROVE  After(c, i) <=> row[i] <= k /\ (row[i] < k \/ i < d)
            <4> DEFINE r == row[i]
            <4>1. r \in Nat
                BY <2>2, <3>2
            <4>2. After(c, i) <=> (r = k /\ i < d) \/ (r # k /\ r < k)
                BY <2>2, <3>1, <3>2
            <4> HIDE DEF r
            <4>3. After(c, i) <=> r <= k /\ (r < k \/ i < d)
                BY <3>1, <4>1, <4>2
            <4> QED BY <4>3 DEF r
        <3>3. \A i \in Matching : row[i] = Null => After(c, i)
            BY <2>2, <3>1
        <3>4. Keyset(c) = {i \in ExportLeft : row[i] # Null}
            BY <1>2, <1>4, <2>4, <2>7, <3>2
        <3> QED BY <1>2, <1>4, <2>7, <3>3, <3>4 DEF c
    <2> QED BY <1>1, <2>6, <2>7
<1> QED BY <1>3, <1>4

LEMMA ExportChunkKeeps ==
    ASSUME PagesSound, ExportChunk
    PROVE  PagesSound'
<1>1. PagesTypeOK /\ CacheInv /\ ExportInv /\ steady \subseteq Matching
    BY DEF PagesSound
<1> DEFINE c == walk.cursor
           want == IF walk.left < Limit THEN walk.left ELSE Limit
           rest == IF walk.tail THEN NullsBelow(walk.cursor)
                   ELSE IF walk.cursor = NoCursor THEN Valued ELSE Keyset(walk.cursor)
           chunk == First(rest, want)
           short == Cardinality(chunk) < want
           left == walk.left - Cardinality(chunk)
           at == IF left = 0 \/ (walk.tail /\ short) THEN "ended" ELSE "walking"
           cursor == IF short THEN NoCursor ELSE CursorAt(LastOf(chunk))
           next == [walk EXCEPT !.left = left, !.at = at, !.tail = walk.tail \/ short,
                                !.cursor = cursor]
           after == ExportLeft \ chunk
<1>2. /\ walk.at = "walking" /\ list = "export" /\ Show(chunk) /\ walk' = next
      /\ UNCHANGED <<list, row, steady, cache, changes>>
    BY DEF ExportChunk
<1>3. /\ Handed(c) /\ walk.left > 0 /\ (c # NoCursor => (walk.tail <=> c.key = Null))
      /\ \A i \in steady : served[i] = IF i \in ExportLeft THEN 0 ELSE 1
      /\ ~walk.cut /\ ~walk.grown => Cardinality(ExportLeft) <= walk.left
    BY <1>1, <1>2 DEF ExportInv
<1>4. /\ rest = {i \in ExportLeft : ~walk.tail => row[i] # Null}
      /\ \A i \in Matching : ~walk.tail /\ row[i] = Null => i \in ExportLeft
    BY <1>1, <1>2, ChunkIs
<1>5. \A i : i \in ExportLeft <=> /\ i \in Matching /\ (walk.tail => row[i] = Null)
                                  /\ LeftAfter(c, i)
    BY <1>1, RowsAre DEF ExportLeft, LeftAfter
<1>6. /\ want \in Nat \ {0} /\ want <= walk.left /\ walk.left \in Nat
      /\ walk \in Walk /\ walk.tail \in BOOLEAN /\ walk.cut \in BOOLEAN /\ walk.grown \in BOOLEAN
    BY <1>1, <1>3, WalkIs, PagesAssumption
<1> HIDE DEF want, rest
<1>7. rest \in SUBSET Matching
    BY <1>4, <1>5
<1>8. /\ chunk \subseteq rest
      /\ Cardinality(chunk) \in Nat /\ Cardinality(chunk) <= want
      /\ Cardinality(chunk) < want => chunk = rest
      /\ chunk # {} => LastOf(chunk) \in chunk
    BY <1>1, <1>6, <1>7, FirstIs
<1>9. ~short => chunk # {}
    BY <1>6, <1>8, FS_EmptySet
<1>10. ~short =>
         /\ \A i \in chunk : ~After(CursorAt(LastOf(chunk)), i)
         /\ \A i \in rest \ chunk : After(CursorAt(LastOf(chunk)), i)
         /\ \A i \in Matching : After(CursorAt(LastOf(chunk)), i) => LeftAfter(c, i)
    <2>1. \A i \in rest : LeftAfter(c, i)
        BY <1>4, <1>5
    <2> QED BY <1>1, <1>3, <1>6, <1>7, <1>9, <2>1, NextIs
<1> HIDE DEF chunk
<1>11. left \in Nat /\ Cardinality(chunk) \in Nat
    BY <1>6, <1>8
<1>12. ~short => /\ LastOf(chunk) \in Matching /\ LastOf(chunk) \in chunk
                 /\ walk.tail <=> row[LastOf(chunk)] = Null
                 /\ cursor = CursorAt(LastOf(chunk)) /\ cursor # NoCursor /\ Handed(cursor)
                 /\ cursor.key = row[LastOf(chunk)]
    <2> SUFFICES ASSUME ~short
                 PROVE  /\ LastOf(chunk) \in Matching /\ LastOf(chunk) \in chunk
                        /\ walk.tail <=> row[LastOf(chunk)] = Null
                        /\ CursorAt(LastOf(chunk)) # NoCursor /\ Handed(CursorAt(LastOf(chunk)))
                        /\ CursorAt(LastOf(chunk)).key = row[LastOf(chunk)]
        OBVIOUS
    <2>1. LastOf(chunk) \in chunk /\ LastOf(chunk) \in rest
        BY <1>8, <1>9
    <2>2. LastOf(chunk) \in Matching /\ (walk.tail <=> row[LastOf(chunk)] = Null)
        BY <1>4, <1>5, <1>6, <2>1
    <2>3. list # "saves"
        BY <1>2
    <2> QED BY <1>1, <2>1, <2>2, <2>3, CursorsAre
<1>13. Handed(cursor) /\ (short => cursor = NoCursor)
    BY <1>12 DEF Handed
<1> HIDE DEF left, cursor
<1>14. ASSUME at = "walking"
       PROVE  \A i : i \in after <=> /\ i \in Matching /\ (walk.tail \/ short => row[i] = Null)
                                     /\ LeftAfter(cursor, i)
    <2>1. CASE short
        <3>1. ~walk.tail /\ chunk = rest /\ cursor = NoCursor
            BY <1>8, <1>13, <1>14, <2>1
        <3>2. \A i : i \in after <=> i \in Matching /\ row[i] = Null
            BY <1>4, <1>5, <3>1
        <3> QED BY <2>1, <3>1, <3>2 DEF LeftAfter
    <2>2. CASE ~short
        <3> DEFINE last == LastOf(chunk)
        <3>1. /\ last \in Matching /\ (walk.tail <=> row[last] = Null)
              /\ cursor = CursorAt(last) /\ cursor # NoCursor /\ cursor.key = row[last]
            BY <1>12, <2>2
        <3>2. /\ \A i \in chunk : ~After(cursor, i)
              /\ \A i \in rest \ chunk : After(cursor, i)
              /\ \A i \in Matching : After(cursor, i) => LeftAfter(c, i)
            BY <1>10, <2>2, <3>1
        <3> HIDE DEF last
        <3>3. ASSUME NEW i \in Matching, ~walk.tail, row[i] = Null PROVE After(cursor, i)
            BY <1>2, <3>1, <3>3 DEF After
        <3>4. ASSUME NEW i \in after
              PROVE  /\ i \in Matching /\ (walk.tail \/ short => row[i] = Null)
                     /\ LeftAfter(cursor, i)
            <4>1. i \in ExportLeft /\ i \notin chunk /\ i \in Matching
                BY <1>5
            <4>2. After(cursor, i)
                BY <1>4, <3>2, <3>3, <4>1
            <4> QED BY <1>5, <2>2, <4>1, <4>2 DEF LeftAfter
        <3>5. ASSUME NEW i \in Matching, walk.tail => row[i] = Null, LeftAfter(cursor, i)
              PROVE  i \in after
            <4>1. After(cursor, i)
                BY <3>1, <3>5 DEF LeftAfter
            <4> QED BY <1>5, <3>2, <3>5, <4>1
        <3> QED BY <2>2, <3>4, <3>5
    <2> QED BY <2>1, <2>2
<1>15. /\ next \in Walk /\ next.left = left /\ next.at = at /\ next.tail = (walk.tail \/ short)
       /\ next.cursor = cursor /\ next.cut = walk.cut /\ next.grown = walk.grown
    BY <1>6, <1>11, <1>13, HandedTypes DEF Walk
<1> HIDE DEF next
<1>16. steady \subseteq Rows /\ served \in [Rows -> Nat]
    BY <1>1, RowsAre DEF PagesTypeOK
<1>17. /\ served' \in [Rows -> Nat]
       /\ \A i \in Rows : served'[i] = IF i \in chunk THEN served[i] + 1 ELSE served[i]
    BY <1>2, <1>16 DEF Show
<1>18. \A i \in steady : served'[i] = IF i \in after THEN 0 ELSE 1
    <2>1. chunk \subseteq ExportLeft
        BY <1>4, <1>8
    <2> QED BY <1>3, <1>16, <1>17, <2>1
<1>19. ~walk.cut /\ ~walk.grown => Cardinality(after) <= left /\ Cardinality(after) \in Nat
    <2>1. IsFiniteSet(ExportLeft) /\ Cardinality(ExportLeft) \in Nat /\ after \in SUBSET Rows
        <3>1. ExportLeft \in SUBSET Rows
            BY DEF ExportLeft
        <3> QED BY <3>1, FiniteRows
    <2>2. Cardinality(after) \in Nat
        BY <2>1, FiniteRows
    <2>3. ExportLeft \cap chunk = chunk
        BY <1>4, <1>8
    <2>4. Cardinality(after) = Cardinality(ExportLeft) - Cardinality(chunk)
        BY <2>1, <2>3, FS_Difference
    <2> QED BY <1>3, <1>6, <1>11, <2>1, <2>2, <2>4 DEF left
<1>20. /\ \A d, i : LeftAfter(d, i)' <=> LeftAfter(d, i)
       /\ \A d : Handed(d)' <=> Handed(d)
       /\ Matching' = Matching
    BY <1>2 DEF LeftAfter, After, Matching, Handed, KeysOf
<1>21. PagesTypeOK'
    BY <1>1, <1>2, <1>15, <1>17 DEF PagesTypeOK
<1>22. CacheInv'
    BY <1>1, <1>2, <1>16, CacheStays
<1>23. WalkedInv'
    BY <1>2 DEF WalkedInv
<1>24. ExportInv'
    <2> SUFFICES ASSUME at = "walking"
                 PROVE  /\ Handed(cursor) /\ left > 0
                        /\ cursor # NoCursor => (walk.tail \/ short <=> cursor.key = Null)
                        /\ \A i \in steady : served'[i] = IF i \in ExportLeft' THEN 0 ELSE 1
                        /\ ~walk.cut /\ ~walk.grown => Cardinality(ExportLeft') <= left
        BY <1>2, <1>15, <1>20 DEF ExportInv
    <2>1. ExportLeft' = after
        <3>1. \A i : LeftAfter(cursor, i) => i \in Rows
            BY <1>1, RowsAre DEF LeftAfter
        <3>2. ExportLeft' = {i \in Rows : (walk.tail \/ short => row[i] = Null) /\ LeftAfter(cursor, i)}
            BY <1>2, <1>15, <1>20 DEF ExportLeft
        <3>3. \A i : LeftAfter(cursor, i) => i \in Matching
            BY DEF LeftAfter
        <3> HIDE DEF after
        <3> QED BY <1>14, <3>1, <3>2, <3>3
    <2>2. left > 0
        BY <1>11
    <2>3. cursor # NoCursor => (walk.tail \/ short <=> cursor.key = Null)
        BY <1>12, <1>13
    <2> QED BY <1>13, <1>18, <1>19, <2>1, <2>2, <2>3
<1>25. RowsAreServedOnce'
    <2>1. ASSUME at = "ended", ~walk.cut, ~walk.grown PROVE after = {}
        <3>1. CASE left = 0
            <4>1. after \in SUBSET Rows
                BY DEF ExportLeft
            <4>2. IsFiniteSet(after) /\ Cardinality(after) = 0
                BY <1>19, <2>1, <3>1, <4>1, FiniteRows
            <4> HIDE DEF after
            <4> QED BY <4>2, FS_EmptySet
        <3>2. CASE walk.tail /\ short
            BY <1>4, <1>8, <3>2
        <3> QED BY <2>1, <3>1, <3>2
    <2> QED BY <1>2, <1>15, <1>18, <2>1 DEF RowsAreServedOnce
<1> QED BY <1>1, <1>2, <1>15, <1>20, <1>21, <1>22, <1>23, <1>24, <1>25 DEF PagesSound

LEMMA ChangeKeeps ==
    ASSUME PagesSound, NEW i \in Rows, NEW key \in KeysOf(list) \cup {Out}, Change(i, key)
    PROVE  PagesSound'
<1>1. PagesTypeOK /\ CacheInv /\ WalkedInv /\ ExportInv /\ RowsAreServedOnce
      /\ steady \subseteq Matching /\ (walk.at = "idle" => steady = {})
    BY DEF PagesSound
<1> DEFINE next == [walk EXCEPT !.grown = @ \/ (list = "export" /\ key # Out)]
<1>2. /\ changes < MaxChanges /\ changes' = changes + 1 /\ row' = [row EXCEPT ![i] = key]
      /\ steady' = steady \ {i} /\ walk' = next /\ UNCHANGED <<list, served, cache>>
    BY DEF Change
<1>3. /\ next \in Walk /\ next.at = walk.at /\ next.cursor = walk.cursor /\ next.left = walk.left
      /\ next.tail = walk.tail /\ next.cut = walk.cut
      /\ next.grown = (walk.grown \/ (list = "export" /\ key # Out))
    BY <1>1, WalkIs DEF Walk
<1> HIDE DEF next
<1>4. row'[i] = key /\ \A j \in Rows : j # i => row'[j] = row[j]
    BY <1>1, <1>2 DEF PagesTypeOK
<1>5. /\ steady' \subseteq steady /\ steady' \subseteq Rows /\ \A j \in steady' : j # i /\ row'[j] = row[j]
    BY <1>1, <1>2, <1>4, RowsAre
<1>6. \A j \in Rows : j # i => /\ j \in Matching' <=> j \in Matching
                               /\ \A d : LeftAfter(d, j)' <=> LeftAfter(d, j)
    BY <1>2, <1>4 DEF Matching, LeftAfter, After
<1>7. \A d : Handed(d)' <=> Handed(d)
    BY <1>2 DEF Handed, KeysOf
<1>8. PagesTypeOK'
    <2>1. row' \in [Rows -> KeysOf(list) \cup {Out}] /\ KeysOf(list)' = KeysOf(list)
        BY <1>1, <1>2 DEF PagesTypeOK, KeysOf
    <2>2. changes + 1 \in 0..MaxChanges
        BY <1>1, <1>2, PagesAssumption DEF PagesTypeOK
    <2> QED BY <1>1, <1>2, <1>3, <1>5, <2>1, <2>2 DEF PagesTypeOK
<1>9. CacheInv'
    BY <1>1, <1>2, <1>5, CacheStays
<1>10. WalkedInv'
    BY <1>1, <1>2, <1>3, <1>5, <1>6, <1>7 DEF WalkedInv
<1>11. ExportInv'
    <2> SUFFICES ASSUME walk.at = "walking", list = "export"
                 PROVE  /\ Handed(walk.cursor) /\ walk.left > 0
                        /\ walk.cursor # NoCursor => (walk.tail <=> walk.cursor.key = Null)
                        /\ \A j \in steady' : served[j] = IF j \in ExportLeft' THEN 0 ELSE 1
                        /\ ~walk.cut /\ ~next.grown => Cardinality(ExportLeft') <= walk.left
        BY <1>2, <1>3, <1>7 DEF ExportInv
    <2>1. /\ Handed(walk.cursor) /\ walk.left > 0
          /\ walk.cursor # NoCursor => (walk.tail <=> walk.cursor.key = Null)
          /\ \A j \in steady : served[j] = IF j \in ExportLeft THEN 0 ELSE 1
          /\ ~walk.cut /\ ~walk.grown => Cardinality(ExportLeft) <= walk.left
        BY <1>1 DEF ExportInv
    <2>2. \A j \in Rows : j # i => (j \in ExportLeft' <=> j \in ExportLeft)
        BY <1>2, <1>3, <1>4, <1>6 DEF ExportLeft
    <2>3. \A j \in steady' : served[j] = IF j \in ExportLeft' THEN 0 ELSE 1
        BY <1>5, <2>1, <2>2
    <2>4. ASSUME ~walk.cut, ~next.grown PROVE Cardinality(ExportLeft') <= walk.left
        <3>1. ~walk.grown /\ key = Out
            BY <1>3, <2>4
        <3>2. i \notin ExportLeft'
            BY <1>4, <3>1 DEF ExportLeft, LeftAfter, Matching
        <3>3. ExportLeft' \in SUBSET ExportLeft /\ ExportLeft \in SUBSET Rows /\ ExportLeft' \in SUBSET Rows
            BY <2>2, <3>2 DEF ExportLeft
        <3>4. IsFiniteSet(ExportLeft) /\ Cardinality(ExportLeft) \in Nat
            BY <3>3, FiniteRows
        <3>5. Cardinality(ExportLeft') \in Nat
            BY <3>3, FiniteRows
        <3>6. Cardinality(ExportLeft') <= Cardinality(ExportLeft)
            BY <3>3, <3>4, FS_Subset
        <3>7. walk.left \in Nat
            BY <1>1, WalkIs
        <3> QED BY <2>1, <2>4, <3>1, <3>4, <3>5, <3>6, <3>7
    <2> QED BY <2>1, <2>3, <2>4
<1>12. RowsAreServedOnce'
    BY <1>1, <1>2, <1>3, <1>5 DEF RowsAreServedOnce
<1>13. steady' \subseteq Matching' /\ (walk'.at = "idle" => steady' = {})
    BY <1>1, <1>2, <1>3, <1>5, <1>6
<1> QED BY <1>8, <1>9, <1>10, <1>11, <1>12, <1>13 DEF PagesSound

-----------------------------------------------------------------------------
\* What every paged list of the API and the export keep true of a walk: see
\* PagesSound.
THEOREM PagesAreSound == PagesSpec => []PagesSound
<1>1. PagesInit => PagesSound
    BY PagesBegin
<1>2. PagesSound /\ [PagesNext]_pageVars => PagesSound'
    <2> SUFFICES ASSUME PagesSound, [PagesNext]_pageVars
                 PROVE  PagesSound'
        OBVIOUS
    <2>1. CASE BeginWalk
        BY <2>1, BeginWalkKeeps
    <2>2. CASE NextPage
        BY <2>2, NextPageKeeps
    <2>3. CASE BeginExport
        BY <2>3, BeginExportKeeps
    <2>4. CASE ExportChunk
        BY <2>4, ExportChunkKeeps
    <2>5. ASSUME NEW c \in DOMAIN cache, Forget(c) PROVE PagesSound'
        BY <2>5, ForgetKeeps
    <2>6. ASSUME NEW i \in Rows, Appear(i) \/ Move(i) \/ Leave(i) PROVE PagesSound'
        <3>1. PICK key \in KeysOf(list) \cup {Out} : Change(i, key)
            BY <2>6 DEF Appear, Move, Leave
        <3> QED BY <3>1, ChangeKeeps
    <2>7. CASE UNCHANGED pageVars
        BY <2>7 DEF pageVars, PagesSound, PagesTypeOK, CacheInv, WalkedInv, ExportInv, ExportLeft,
                    RowsAreServedOnce, Splits, Handed, KeysOf, LeftAfter, After, Matching
    <2> QED BY <2>1, <2>2, <2>3, <2>4, <2>5, <2>6, <2>7 DEF PagesNext
<1> QED BY <1>1, <1>2, PTL DEF PagesSpec

\* A row that stood still is shown once, by every list and whatever happens to
\* the other rows between two pages.
THEOREM RowsServedOnce == PagesSpec => []RowsAreServedOnce
<1>1. PagesSound => RowsAreServedOnce
    BY DEF PagesSound
<1> QED BY <1>1, PagesAreSound, PTL
=============================================================================
