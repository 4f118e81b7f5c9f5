------------------------ MODULE DockerProviderProofs ------------------------
(***************************************************************************)
(* One Docker runner, for every marker, every way the runner cuts its      *)
(* output into writes and interleaves its two streams, every timeout and   *)
(* settling time, and every order of daemon failures, exits, cancellations *)
(* and ticks: what WaitReady and WaitInstance report is true, and capacity *)
(* is short of a container only after the failures that this takes.        *)
(***************************************************************************)
EXTENDS DockerProvider, SequenceTheorems, FiniteSetTheorems, TLAPS

Text == Seq(Letters)

-----------------------------------------------------------------------------
(***************************************************************************)
(* Where a text holds the marker.                                          *)
(***************************************************************************)

Occurs(text, i) ==
    /\ i \in 1..(Len(text) - Len(Marker) + 1)
    /\ \A k \in 1..Len(Marker) : text[i + k - 1] = Marker[k]

LEMMA MarkerFacts == Marker \in Text /\ Len(Marker) \in Nat /\ Len(Marker) > 0
BY DockerAssumption, EmptySeq DEF Text

LEMMA SubSeqFacts ==
  ASSUME NEW t \in Text, NEW i \in Nat \ {0}, NEW j \in Nat, j <= Len(t), i <= j + 1
  PROVE  /\ SubSeq(t, i, j) \in Text /\ Len(SubSeq(t, i, j)) = j - i + 1
         /\ \A k \in 1..(j - i + 1) : SubSeq(t, i, j)[k] = t[i + k - 1]
BY DEF Text

LEMMA ConcatFacts ==
  ASSUME NEW t \in Text, NEW u \in Text
  PROVE  /\ t \o u \in Text /\ Len(t \o u) = Len(t) + Len(u)
         /\ \A k \in 1..Len(t) : (t \o u)[k] = t[k]
         /\ \A k \in 1..Len(u) : (t \o u)[Len(t) + k] = u[k]
BY DEF Text

LEMMA MarkerOccurs ==
  ASSUME NEW t \in Text
  PROVE  HasMarker(t) <=> \E i \in Nat : Occurs(t, i)
<1>0. Len(t) \in Nat /\ Len(Marker) \in Nat /\ Len(Marker) > 0 /\ Marker \in Text
  BY MarkerFacts DEF Text
<1>1. ASSUME NEW i \in 1..(Len(t) - Len(Marker) + 1)
      PROVE  SubSeq(t, i, i + Len(Marker) - 1) = Marker <=> \A k \in 1..Len(Marker) : t[i + k - 1] = Marker[k]
  <2> DEFINE part == SubSeq(t, i, i + Len(Marker) - 1)
  <2>1. part \in Text /\ Len(part) = Len(Marker) /\ \A k \in 1..Len(Marker) : part[k] = t[i + k - 1]
    <3>1. i \in Nat \ {0} /\ i + Len(Marker) - 1 \in Nat /\ i + Len(Marker) - 1 <= Len(t) /\ i <= i + Len(Marker) - 1 + 1
          /\ i + Len(Marker) - 1 - i + 1 = Len(Marker)
      BY <1>0
    <3> QED BY <1>0, <3>1, SubSeqFacts
  <2> HIDE DEF part
  <2>2. (\A k \in 1..Len(Marker) : part[k] = Marker[k]) => part = Marker
    BY <1>0, <2>1, SeqEqual DEF Text
  <2>3. part = Marker <=> \A k \in 1..Len(Marker) : t[i + k - 1] = Marker[k]
    BY <1>0, <2>1, <2>2
  <2> QED BY <2>3 DEF part
<1>2. 1..(Len(t) - Len(Marker) + 1) \subseteq Nat
  BY <1>0
<1> QED BY <1>1, <1>2 DEF HasMarker, Occurs

-----------------------------------------------------------------------------
(***************************************************************************)
(* The inductive invariant.                                                *)
(***************************************************************************)

Instants == 0..Timeout \cup {Never}

Waits == [at : {"idle", "first", "select", "inspect", "closing", "returned"},
          unavailable : BOOLEAN, marker : BOOLEAN, marked : Instants,
          finished : BOOLEAN, tick : BOOLEAN, expired : BOOLEAN,
          answer : {"none", "running", "stopped", "error"},
          verdict : {"none", "ready", "exited", "timeout", "unavailable", "cancelled"}]

Frames == [to : Stream, text : Text]

Types ==
    /\ TypeOK /\ wait \in Waits /\ lease \in BOOLEAN /\ cancelled \in BOOLEAN /\ faults \in 0..MaxFaults
    /\ written \in [Stream -> Text] /\ tail \in [Stream -> Text] /\ log \in Seq(Frames)

\* What a start that has failed may leave.
LeftBy(what) ==
    /\ what # "none" => cancelled \/ faults > 0
    /\ what \in {"running", "exited"} => cancelled \/ faults > 1

\* Whoever calls has been started, and holds the capacity meanwhile.
StartInv ==
    /\ start \in {"idle", "create"} => container = "none"
    /\ start = "done" => container # "created"
    /\ start \in {"create", "start", "undo"} => lease
    /\ start # "done" => wait.at = "idle" /\ watch = "idle"
    /\ start = "done" /\ ~lease => container = "none"
    /\ start = "start" => container = "created"
    /\ start = "undo" => cancelled \/ faults > 0
    /\ start = "undo" => container \in {"created", "running", "exited"}
    /\ start = "failed" => LeftBy(container)

\* The stream and its reader come and go together.
ReaderInv ==
    /\ stream = "none" <=> reader = "none"
    /\ stream = "open" => reader = "reading"
    /\ log # <<>> => stream = "open"
    /\ wait.at \in {"idle", "first"} => stream = "none" /\ tail = [s \in Stream |-> <<>>]
    /\ wait.at = "returned" => MayReturn

\* WaitReady before it has a stream to read.
FirstInv ==
    /\ wait.at = "idle" => wait = NotWaiting /\ now = 0
    /\ wait.at = "first" => /\ ~wait.marker /\ wait.marked = Never /\ ~wait.finished
                            /\ ~wait.tick /\ ~wait.unavailable
    /\ wait.answer # "none" => wait.at \in {"first", "inspect"}
    /\ wait.verdict # "none" <=> wait.at \in Returning
    /\ wait.expired => now = Timeout

\* What WaitReady knows is so.
KnownInv ==
    /\ printed <= now /\ seen <= now
    /\ printed # Never <=> \E s \in Stream : HasMarker(written[s])
    /\ wait.marker => printed # Never
    /\ wait.marked # Never => wait.marker /\ printed <= wait.marked /\ wait.marked <= now
    /\ wait.at = "inspect" /\ wait.answer = "running" => wait.marked <= seen
    /\ wait.answer = "stopped" \/ wait.verdict = "exited" \/ watch = "exited" => container \in {"none", "exited"}
    /\ ReadyMeansListening

\* The frames of q on their way are what is written and not yet read: at[i] is how far
\* each stream is read once i of them are.
Flow(q, text, at) ==
    /\ at \in [0..Len(q) -> [Stream -> Nat]]
    /\ \A i \in 0..Len(q), s \in Stream : at[i][s] <= Len(text[s])
    /\ \A s \in Stream : at[Len(q)][s] = Len(text[s])
    /\ \A i \in 1..Len(q) :
          /\ \A s \in Stream : at[i][s] = at[i - 1][s] + (IF s = q[i].to THEN Len(q[i].text) ELSE 0)
          /\ \A k \in 1..Len(q[i].text) : text[q[i].to][at[i - 1][q[i].to] + k] = q[i].text[k]

\* What a reader keeps that has read n letters of a text.
KeptOf(kept, text, n) ==
    /\ n <= Len(text) /\ Len(kept) <= n
    /\ Len(kept) = n \/ Len(kept) = Len(Marker) - 1
    /\ \A k \in 1..Len(kept) : kept[k] = text[n - Len(kept) + k]

Found(text, n) == \E i \in Nat : Occurs(text, i) /\ i + Len(Marker) - 1 <= n

\* The reader, having read n of each stream, knows of the marker exactly when it was there.
LogInv ==
    stream = "open" =>
        \E at : /\ Flow(log, written, at)
                /\ \A s \in Stream : KeptOf(tail[s], written[s], at[0][s])
                /\ wait.marker <=> \E s \in Stream : Found(written[s], at[0][s])

\* No fault, and WaitReady is neither given up nor out of time.
Good == faults = 0 /\ ~cancelled /\ container = "running" /\ ~wait.expired

Waiting == wait.at \in {"select", "inspect"}

TimelyInv ==
    /\ Good /\ wait.at = "first" => now = 0 /\ wait.answer \in {"none", "running"}
    /\ Good /\ Waiting => stream = "open" /\ ~wait.unavailable /\ ~wait.finished
                          /\ wait.answer \in {"none", "running"}
    /\ Good /\ Waiting /\ printed # Never /\ printed < now => wait.marked = printed
    /\ Good /\ Waiting /\ printed # Never /\ printed < now /\ printed + Settle <= now =>
          now \in {printed + 1, printed + Settle} /\ (wait.tick \/ wait.at = "inspect")

\* The marker was there early enough.
Early == printed # Never /\ printed + Settle + 2 <= Timeout

LateInv ==
    /\ faults = 0 /\ ~cancelled /\ container = "running" /\ wait.expired /\ Early =>
          ~Waiting /\ wait.at # "first"
    /\ wait.verdict \in {"timeout", "unavailable"} => now = Timeout
    /\ ListeningIsSeen

IInv == Types /\ StartInv /\ ReaderInv /\ FirstInv /\ KnownInv /\ LogInv /\ TimelyInv /\ LateInv

-----------------------------------------------------------------------------
(***************************************************************************)
(* Types.                                                                  *)
(***************************************************************************)

LEMMA InstantFacts ==
  /\ Timeout \in Nat /\ Timeout > 0 /\ Settle \in Nat /\ MaxFaults \in Nat /\ Never = -1
  /\ Instants \subseteq Int /\ 0..Timeout \subseteq Instants /\ Never \in Instants
BY DockerAssumption DEF Instants, Never

LEMMA MarkerBoolean == ASSUME NEW text PROVE HasMarker(text) \in BOOLEAN
BY DEF HasMarker

LEMMA FaultTypes ==
  ASSUME faults \in 0..MaxFaults, NEW over, MayFail(over) \/ Fault \/ UNCHANGED faults
  PROVE  faults' \in 0..MaxFaults
BY InstantFacts DEF MayFail, Fault

\* What readyMarkerWriter keeps.
LEMMA KeptFacts ==
  ASSUME NEW text \in Text
  PROVE  /\ Kept(text) \in Text /\ Len(Kept(text)) < Len(Marker) /\ Len(Kept(text)) <= Len(text)
         /\ Len(Kept(text)) = Len(text) \/ Len(Kept(text)) = Len(Marker) - 1
         /\ \A k \in 1..Len(Kept(text)) : Kept(text)[k] = text[Len(text) - Len(Kept(text)) + k]
<1>0. Len(text) \in Nat /\ Len(Marker) \in Nat /\ Len(Marker) > 0
  BY MarkerFacts DEF Text
<1>1. CASE Len(text) >= Len(Marker)
  <2> DEFINE from == Len(text) - Len(Marker) + 2
  <2>1. from \in Nat \ {0} /\ from <= Len(text) + 1 /\ Len(text) - from + 1 = Len(Marker) - 1
    BY <1>0, <1>1
  <2>2. Kept(text) = SubSeq(text, from, Len(text))
    BY <1>1 DEF Kept
  <2> HIDE DEF from
  <2>3. /\ Kept(text) \in Text /\ Len(Kept(text)) = Len(Marker) - 1
        /\ \A k \in 1..(Len(Marker) - 1) : Kept(text)[k] = text[from + k - 1]
    <3>1. Len(text) \in Nat /\ Len(text) <= Len(text) /\ from \in Nat \ {0} /\ from <= Len(text) + 1
      BY <1>0, <2>1
    <3>2. /\ SubSeq(text, from, Len(text)) \in Text /\ Len(SubSeq(text, from, Len(text))) = Len(text) - from + 1
          /\ \A k \in 1..(Len(text) - from + 1) : SubSeq(text, from, Len(text))[k] = text[from + k - 1]
      BY <3>1, SubSeqFacts
    <3> QED BY <2>1, <2>2, <3>2
  <2>4. ASSUME NEW k \in 1..Len(Kept(text)) PROVE Kept(text)[k] = text[Len(text) - Len(Kept(text)) + k]
    <3>1. from + k - 1 = Len(text) - Len(Kept(text)) + k
      BY <1>0, <2>3 DEF from
    <3> QED BY <2>3, <3>1
  <2> QED BY <1>0, <1>1, <2>3, <2>4
<1>2. CASE Len(text) < Len(Marker)
  <2>1. Kept(text) = text
    BY <1>0, <1>2 DEF Kept
  <2> QED BY <1>0, <1>2, <2>1
<1> QED BY <1>0, <1>1, <1>2

\* SetToSeq puts the streams in some order.
LEMMA StreamOrder ==
  ASSUME NEW S \in SUBSET Stream
  PROVE  /\ Cardinality(S) \in Nat /\ SetToSeq(S) \in [1..Cardinality(S) -> S]
         /\ \A i, j \in 1..Cardinality(S) : SetToSeq(S)[i] = SetToSeq(S)[j] => i = j
         /\ \A s \in S : \E i \in 1..Cardinality(S) : SetToSeq(S)[i] = s
<1> DEFINE n == Cardinality(S)
           order == SetToSeq(S)
<1>1. IsFiniteSet(S) /\ n \in Nat
  <2>1. IsFiniteSet({"stdout"}) /\ Stream = {"stdout"} \cup {"stderr"}
    BY FS_EmptySet, FS_Singleton DEF Stream
  <2> QED BY <2>1, FS_AddElement, FS_Subset, FS_CardinalityType
<1>2. PICK f : f \in Bijection(1..n, S)
  <2>1. PICK m \in Nat : ExistsBijection(1..m, S)
    BY <1>1, FS_NatBijection
  <2>2. m = n
    BY <2>1, FS_CountingElements
  <2> QED BY <2>1, <2>2 DEF ExistsBijection
<1>3. f \in [1..n -> S] /\ IsInjective(f)
  BY <1>2 DEF Bijection, Injection
<1>4. order \in [1..n -> S] /\ IsInjective(order)
  BY <1>3 DEF SetToSeq
<1>5. \A s \in S : \E i \in 1..n : order[i] = s
  <2>1. order \in Injection(1..n, S)
    BY <1>4 DEF Injection
  <2>2. IsFiniteSet(1..n) /\ Cardinality(1..n) = n
    BY <1>1, FS_Interval
  <2>3. order \in Surjection(1..n, S)
    BY <1>1, <2>1, <2>2, FS_Injection
  <2> QED BY <2>3 DEF Surjection
<1> HIDE DEF n, order
<1>6. \A i, j \in 1..n : order[i] = order[j] => i = j
  BY <1>4 DEF IsInjective
<1> QED BY <1>1, <1>4, <1>5, <1>6 DEF n, order

\* The log when it is opened has one frame for each stream with output, which begins it.
OpenedWith(q) ==
    /\ q \in Seq(Frames)
    /\ \A i \in 1..Len(q) : q[i].text = written[q[i].to]
    /\ \A i, j \in 1..Len(q) : q[i].to = q[j].to => i = j
    /\ \A s \in Stream : written[s] # <<>> => \E i \in 1..Len(q) : q[i].to = s

\* One frame for each stream of S, in some order.
OnePerStream(q, n, S, order) ==
    /\ n \in Nat /\ S \in SUBSET Stream /\ order \in [1..n -> S]
    /\ \A s \in Stream : written[s] # <<>> => s \in S
    /\ \A i, j \in 1..n : order[i] = order[j] => i = j
    /\ \A s \in S : \E i \in 1..n : order[i] = s
    /\ q \in [1..n -> Frames] /\ \A i \in 1..n : q[i].to = order[i] /\ q[i].text = written[order[i]]

LEMMA FramesOf ==
  ASSUME NEW q, NEW n, NEW S, NEW order, OnePerStream(q, n, S, order) PROVE OpenedWith(q)
<1>3. q \in Seq(Frames)
  BY SeqDef DEF OnePerStream
<1>4. Len(q) = n
  BY <1>3, LenProperties DEF OnePerStream
<1>5. \A i \in 1..Len(q) : q[i].text = written[q[i].to]
  BY <1>4 DEF OnePerStream
<1>6. \A i, j \in 1..Len(q) : q[i].to = q[j].to => i = j
  BY <1>4 DEF OnePerStream
<1>7. \A s \in Stream : written[s] # <<>> => \E i \in 1..Len(q) : q[i].to = s
  BY <1>4 DEF OnePerStream
<1> QED BY <1>3, <1>5, <1>6, <1>7 DEF OpenedWith

LEMMA OpenedLog ==
  ASSUME Types, OpenLogs, stream' = "open" PROVE stream = "open" \/ OpenedWith(log')
<1> DEFINE S == {s \in Stream : written[s] # <<>>}
<1>1. SUFFICES ASSUME stream # "open" PROVE OpenedWith(log')
  OBVIOUS
<1>2. log' = [i \in 1..Cardinality(S) |-> [to |-> SetToSeq(S)[i], text |-> written[SetToSeq(S)[i]]]]
  BY <1>1 DEF OpenLogs
<1>3. S \in SUBSET Stream /\ (\A s \in Stream : written[s] # <<>> => s \in S) /\ written \in [Stream -> Text]
  BY DEF Types
<1> HIDE DEF S
<1> DEFINE order == SetToSeq(S)
           n     == Cardinality(S)
<1>4. /\ n \in Nat /\ order \in [1..n -> S]
      /\ \A i, j \in 1..n : order[i] = order[j] => i = j
      /\ \A s \in S : \E i \in 1..n : order[i] = s
  BY <1>3, StreamOrder
<1>5. log' = [i \in 1..n |-> [to |-> order[i], text |-> written[order[i]]]]
  BY <1>2
<1> HIDE DEF order, n
<1>6. \A i \in 1..n : [to |-> order[i], text |-> written[order[i]]] \in Frames
  BY <1>3, <1>4 DEF Frames
<1>7. log' \in [1..n -> Frames] /\ \A i \in 1..n : log'[i].to = order[i] /\ log'[i].text = written[order[i]]
  BY <1>5, <1>6
<1> PICK q : q = log'
  OBVIOUS
<1>8. OnePerStream(q, n, S, order)
  BY <1>3, <1>4, <1>7 DEF OnePerStream
<1>9. OpenedWith(q)
  BY <1>8, FramesOf
<1> QED BY <1>9

\* WaitReady's record after a step.
LEMMA WaitUpdates ==
  ASSUME NEW w \in Waits
  PROVE  /\ \A a \in {"idle", "first", "select", "inspect", "closing", "returned"} : [w EXCEPT !.at = a] \in Waits
         /\ \A m \in BOOLEAN : [w EXCEPT !.marker = m] \in Waits /\ [w EXCEPT !.finished = m] \in Waits
                               /\ [w EXCEPT !.tick = m] \in Waits /\ [w EXCEPT !.expired = m] \in Waits
BY DEF Waits

LEMMA WaitUpdatesToo ==
  ASSUME NEW w \in Waits
  PROVE  /\ [w EXCEPT !.at = "select", !.answer = "none"] \in Waits
         /\ [w EXCEPT !.at = "select", !.answer = "none", !.unavailable = TRUE] \in Waits
         /\ [w EXCEPT !.finished = FALSE, !.unavailable = TRUE] \in Waits
         /\ [w EXCEPT !.tick = FALSE, !.at = "inspect"] \in Waits
         /\ \A i \in Instants : [w EXCEPT !.marked = i] \in Waits
<1>1. [w EXCEPT !.at = "select", !.answer = "none"] \in Waits
  BY DEF Waits
<1>2. [w EXCEPT !.at = "select", !.answer = "none", !.unavailable = TRUE] \in Waits
  BY DEF Waits
<1>3. [w EXCEPT !.finished = FALSE, !.unavailable = TRUE] \in Waits
  BY DEF Waits
<1>4. [w EXCEPT !.tick = FALSE, !.at = "inspect"] \in Waits
  BY DEF Waits
<1>5. \A i \in Instants : [w EXCEPT !.marked = i] \in Waits
  BY DEF Waits
<1> QED BY <1>1, <1>2, <1>3, <1>4, <1>5

LEMMA WaitTypes ==
  ASSUME Types, Next PROVE wait' \in Waits
<1>0. wait \in Waits /\ now \in 0..Timeout /\ 0..Timeout \subseteq Instants
  BY InstantFacts DEF Types, TypeOK
<1>1. ASSUME UNCHANGED wait PROVE wait' \in Waits
  BY <1>0, <1>1
<1>2. ASSUME NEW v \in {"ready", "exited", "timeout", "unavailable", "cancelled"}, Verdict(v) PROVE wait' \in Waits
  BY <1>0, <1>2 DEF Verdict, Waits
<1>3. ASSUME BeginWait \/ Return PROVE wait' \in Waits
  BY <1>0, <1>3, WaitUpdates DEF BeginWait, Return
<1>4. ASSUME Inspect PROVE wait' \in Waits
  BY <1>0, <1>4 DEF Inspect, Answer, Waits
<1>5. ASSUME OpenLogs PROVE wait' \in Waits
  <2>1. CASE Verdict("exited")
    BY <1>2, <2>1
  <2>2. CASE ~Verdict("exited")
    <3>1. wait' = [wait EXCEPT !.at = "select", !.answer = "none"]
          \/ wait' = [wait EXCEPT !.at = "select", !.answer = "none", !.unavailable = TRUE]
      BY <1>5, <2>2 DEF OpenLogs
    <3> QED BY <1>0, <3>1, WaitUpdatesToo, Zenon
  <2> QED BY <2>1, <2>2
<1>6. ASSUME SeeDone PROVE wait' \in Waits
  <2>1. PICK v \in {"cancelled", "unavailable", "timeout"} : Verdict(v)
    <3>1. PICK v : v = IF cancelled THEN "cancelled" ELSE IF wait.unavailable THEN "unavailable" ELSE "timeout"
      OBVIOUS
    <3>2. v \in {"cancelled", "unavailable", "timeout"}
      BY <3>1
    <3> QED BY <1>6, <3>1, <3>2, Zenon DEF SeeDone
  <2> QED BY <1>2, <2>1
<1>7. ASSUME SeeMarker \/ SeeFinished \/ SeeTick PROVE wait' \in Waits
  <2>1. CASE SeeMarker
    <3>1. wait' = [wait EXCEPT !.marked = now]
      BY <2>1, Zenon DEF SeeMarker
    <3>2. now \in Instants
      BY <1>0
    <3> QED BY <1>0, <3>1, <3>2, WaitUpdatesToo, Zenon
  <2>2. CASE SeeFinished
    BY <1>0, <2>2, WaitUpdatesToo, Zenon DEF SeeFinished
  <2>3. CASE SeeTick
    BY <1>0, <2>3, WaitUpdatesToo, Zenon DEF SeeTick
  <2> QED BY <1>7, <2>1, <2>2, <2>3
<1>8. ASSUME Inspected PROVE wait' \in Waits
  <2>1. CASE \E v \in {"ready", "exited"} : Verdict(v)
    BY <1>2, <2>1
  <2>2. CASE ~\E v \in {"ready", "exited"} : Verdict(v)
    <3>1. wait' = [wait EXCEPT !.at = "select", !.answer = "none"]
          \/ wait' = [wait EXCEPT !.at = "select", !.answer = "none", !.unavailable = TRUE]
      <4>1. CASE wait.answer = "error"
        BY <1>8, <4>1 DEF Inspected
      <4>2. CASE wait.answer = "stopped"
        BY <1>8, <2>2, <4>2 DEF Inspected
      <4>3. CASE wait.answer = "running" /\ Settled(wait.marked)
        BY <1>8, <2>2, <4>3 DEF Inspected
      <4>4. CASE /\ wait.answer \notin {"error", "stopped"}
                 /\ ~(wait.answer = "running" /\ Settled(wait.marked))
        BY <1>8, <4>4 DEF Inspected
      <4> QED BY <4>1, <4>2, <4>3, <4>4
    <3> QED BY <1>0, <3>1, WaitUpdatesToo, Zenon
  <2> QED BY <2>1, <2>2
<1>9. ASSUME Read PROVE wait' \in Waits
  <2> PICK text : wait' = [wait EXCEPT !.marker = @ \/ HasMarker(text)]
    BY <1>9 DEF Read
  <2>1. (wait.marker \/ HasMarker(text)) \in BOOLEAN
    OBVIOUS
  <2> QED BY <1>0, <2>1, WaitUpdates
<1>10. ASSUME ReaderDone PROVE wait' \in Waits
  <2>1. (wait.at \in {"select", "inspect"}) \in BOOLEAN
    OBVIOUS
  <2> QED BY <1>0, <1>10, <2>1, WaitUpdates DEF ReaderDone
<1>11. ASSUME Tick \/ Expire PROVE wait' \in Waits
  <2>1. (wait.at \notin {"first", "closing"}) \in BOOLEAN
    OBVIOUS
  <2> QED BY <1>0, <1>11, <2>1, WaitUpdates DEF Tick, Expire
<1>12. BeginStart \/ Create \/ StartContainer \/ Undo \/ Cancel \/ RemoveInstance \/ BeginWatch \/ WaitInstance
       \/ (\E s \in Stream, chunk \in Chunks : WriteChunk(s, chunk)) \/ Exit \/ StreamEnds \/ StreamBreaks \/ CloseStream
       => UNCHANGED wait
  BY DEF BeginStart, Create, StartContainer, Undo, Cancel, RemoveInstance, BeginWatch, WaitInstance, WriteChunk,
         Exit, StreamEnds, StreamBreaks, CloseStream
<1> QED BY <1>1, <1>3, <1>4, <1>5, <1>6, <1>7, <1>8, <1>9, <1>10, <1>11, <1>12 DEF Next, Reader, WaitReady

LEMMA FaultsKept == ASSUME Types, Next PROVE faults' \in 0..MaxFaults /\ faults <= faults'
<1>0. faults \in 0..MaxFaults /\ MaxFaults \in Nat
  BY InstantFacts DEF Types
<1>1. ASSUME NEW over, MayFail(over) \/ Fault \/ UNCHANGED faults PROVE faults' \in 0..MaxFaults /\ faults <= faults'
  BY <1>0, <1>1 DEF MayFail, Fault
<1>2. MayFail(cancelled) \/ MayFail(Over) \/ Fault \/ UNCHANGED faults
  BY DEF Next, BeginStart, Create, StartContainer, Undo, Cancel, RemoveInstance, BeginWatch, WaitInstance, WriteChunk,
         Exit, StreamEnds, StreamBreaks, CloseStream, Reader, Read, ReaderDone, WaitReady, BeginWait, Inspect, OpenLogs,
         SeeDone, SeeMarker, SeeFinished, SeeTick, Inspected, Return, Tick, Expire
<1> QED BY <1>1, <1>2

LEMMA TextTypes ==
  ASSUME Types, ReaderInv, Next
  PROVE  /\ written' \in [Stream -> Text] /\ tail' \in [Stream -> Text] /\ log' \in Seq(Frames)
         /\ \A s \in Stream : Len(tail'[s]) < Len(Marker)
<1> DEFINE Rest == /\ written' \in [Stream -> Text] /\ tail' \in [Stream -> Text] /\ log' \in Seq(Frames)
                   /\ \A s \in Stream : Len(tail'[s]) < Len(Marker)
<1>0. /\ written \in [Stream -> Text] /\ tail \in [Stream -> Text] /\ log \in Seq(Frames)
      /\ \A s \in Stream : Len(tail[s]) < Len(Marker)
  BY DEF Types, TypeOK
<1>1. ASSUME UNCHANGED <<written, tail>>, log' = log \/ log' = <<>> PROVE Rest
  <2>1. <<>> \in Seq(Frames)
    BY EmptySeq
  <2> QED BY <1>0, <1>1, <2>1
<1>2. ASSUME NEW s \in Stream, NEW chunk \in Chunks, WriteChunk(s, chunk) PROVE Rest
  <2>1. chunk \in Text /\ [to |-> s, text |-> chunk] \in Frames
    BY DockerAssumption DEF Text, Frames
  <2>2. written[s] \o chunk \in Text
    BY <1>0, <2>1, ConcatFacts
  <2>3. log' = log \/ log' = Append(log, [to |-> s, text |-> chunk])
    BY <1>2 DEF WriteChunk
  <2>4. log' \in Seq(Frames)
    BY <1>0, <2>1, <2>3, AppendProperties
  <2>5. UNCHANGED tail /\ written' = [written EXCEPT ![s] = written[s] \o chunk]
    BY <1>2 DEF WriteChunk
  <2> QED BY <1>0, <2>2, <2>4, <2>5
<1>3. ASSUME Read PROVE Rest
  <2> DEFINE s == Head(log).to
             text == tail[s] \o Head(log).text
  <2>1. log # <<>> /\ tail' = [tail EXCEPT ![s] = Kept(text)] /\ log' = Tail(log) /\ UNCHANGED written
    BY <1>3 DEF Read, WriterOf, runner
  <2>2. Head(log) \in Frames /\ Tail(log) \in Seq(Frames)
    BY <1>0, <2>1, HeadTailProperties
  <2>3. s \in Stream /\ Head(log).text \in Text /\ tail[s] \in Text
    BY <1>0, <2>2 DEF Frames
  <2>4. text \in Text
    BY <2>3, ConcatFacts
  <2> HIDE DEF s, text
  <2>5. Kept(text) \in Text /\ Len(Kept(text)) < Len(Marker)
    BY <2>4, KeptFacts
  <2> QED BY <1>0, <2>1, <2>2, <2>3, <2>5
<1>4. ASSUME OpenLogs PROVE Rest
  <2>1. UNCHANGED <<written, tail>> /\ (log' = log \/ stream' = "open")
    BY <1>4 DEF OpenLogs, runner, Verdict
  <2>2. stream # "open"
    BY <1>4 DEF OpenLogs, ReaderInv
  <2> QED BY <1>0, <1>1, <1>4, <2>1, <2>2, OpenedLog DEF OpenedWith
<1>5. BeginStart \/ Create \/ StartContainer \/ Undo \/ Cancel \/ RemoveInstance \/ BeginWatch \/ WaitInstance
      \/ Exit \/ StreamEnds \/ StreamBreaks \/ CloseStream \/ ReaderDone \/ BeginWait \/ Inspect
      \/ SeeDone \/ SeeMarker \/ SeeFinished \/ SeeTick \/ Inspected \/ Return \/ Tick \/ Expire
      => UNCHANGED <<written, tail>> /\ (log' = log \/ log' = <<>>)
  BY DEF BeginStart, Create, StartContainer, Undo, Cancel, RemoveInstance, BeginWatch, WaitInstance,
         Exit, StreamEnds, StreamBreaks, CloseStream, ReaderDone, BeginWait, Inspect, SeeDone, SeeMarker,
         SeeFinished, SeeTick, Inspected, Return, Tick, Expire, runner, calls, reading
<1> QED BY <1>1, <1>2, <1>3, <1>4, <1>5 DEF Next, Reader, WaitReady

\* Who changes what.
LEMMA Movers ==
  ASSUME Next
  PROVE  \/ UNCHANGED <<container, calls, cancelled>>
         \/ BeginStart \/ Create \/ StartContainer \/ Undo \/ Cancel \/ RemoveInstance \/ BeginWatch
         \/ WaitInstance \/ Exit
<1>1. \A s \in Stream, chunk \in Chunks : WriteChunk(s, chunk) => UNCHANGED <<container, calls, cancelled>>
  BY DEF WriteChunk, calls
<1>2. Reader \/ StreamBreaks \/ WaitReady \/ Tick \/ Expire => UNCHANGED <<container, calls, cancelled>>
  BY DEF StreamEnds, StreamBreaks, CloseStream, Reader, Read, ReaderDone, WaitReady, BeginWait, Inspect, OpenLogs,
         SeeDone, SeeMarker, SeeFinished, SeeTick, Inspected, Return, Tick, Expire, runner
<1> QED BY <1>1, <1>2 DEF Next

LEMMA Times ==
  ASSUME Types, Next
  PROVE  /\ now' = now \/ (Tick /\ now' = now + 1 /\ now < Timeout)
         /\ printed' = printed \/ (printed' = now /\ \E s \in Stream, chunk \in Chunks : WriteChunk(s, chunk))
         /\ seen' = seen \/ (seen' = now /\ Inspect)
<1>1. \A s \in Stream, chunk \in Chunks : WriteChunk(s, chunk) =>
         now' = now /\ (printed' = printed \/ printed' = now) /\ seen' = seen
  BY DEF WriteChunk
<1>2. BeginStart \/ Create \/ StartContainer \/ Undo \/ Cancel \/ RemoveInstance \/ BeginWatch \/ WaitInstance \/ Exit =>
         now' = now /\ printed' = printed /\ seen' = seen
  BY DEF BeginStart, Create, StartContainer, Undo, Cancel, RemoveInstance, BeginWatch, WaitInstance, Exit, runner
<1>3. Reader \/ StreamBreaks => now' = now /\ printed' = printed /\ seen' = seen
  BY DEF Reader, StreamEnds, StreamBreaks, Read, ReaderDone, runner
<1>4. Tick => now' = now + 1 /\ now < Timeout /\ printed' = printed /\ seen' = seen
  BY DEF Tick, runner
<1>5. Expire => now' = now /\ printed' = printed /\ seen' = seen
  BY DEF Expire, runner
<1>6. WaitReady => now' = now /\ printed' = printed /\ (seen' = seen \/ (seen' = now /\ Inspect))
  BY DEF WaitReady, CloseStream, BeginWait, Inspect, OpenLogs, SeeDone, SeeMarker, SeeFinished, SeeTick, Inspected,
         Return, runner
<1> QED BY <1>1, <1>2, <1>3, <1>4, <1>5, <1>6 DEF Next

LEMMA NextTypes ==
  ASSUME Types, ReaderInv, Next PROVE Types'
<1>0. Types /\ TypeOK
  BY DEF Types
<1>1. /\ container' \in {"none", "created", "running", "exited"}
      /\ start' \in {"idle", "create", "start", "undo", "failed", "done"}
      /\ removal' \in {"idle", "done"} /\ watch' \in {"idle", "waiting", "exited", "failed"}
      /\ lease' \in BOOLEAN /\ cancelled' \in BOOLEAN
  <2>1. CASE UNCHANGED <<container, calls, cancelled>>
    BY <1>0, <2>1 DEF Types, TypeOK, calls
  <2>2. CASE BeginStart \/ Create \/ StartContainer \/ Undo \/ Cancel \/ Exit
    BY <1>0, <2>2 DEF Types, TypeOK, BeginStart, Create, StartContainer, Undo, Cancel, Exit, runner, calls
  <2>3. CASE RemoveInstance
    <3>1. \A reply : Removed(reply) \in BOOLEAN
      BY DEF Removed
    <3> QED BY <1>0, <2>3, <3>1 DEF Types, TypeOK, RemoveInstance
  <2>4. CASE BeginWatch \/ WaitInstance
    BY <1>0, <2>4 DEF Types, TypeOK, BeginWatch, WaitInstance, Watched, runner
  <2> QED BY <2>1, <2>2, <2>3, <2>4, Movers
<1>2. /\ now' \in 0..Timeout /\ printed' \in Instants /\ seen' \in Instants
  BY <1>0, InstantFacts, Times DEF TypeOK, Instants
<1>3. /\ stream' \in {"none", "open", "ended", "closed"} /\ reader' \in {"none", "reading", "done"}
  BY DEF Types, TypeOK, Next, BeginStart, Create, StartContainer, Undo, Cancel, RemoveInstance, BeginWatch, WaitInstance,
         WriteChunk, Exit, StreamEnds, StreamBreaks, CloseStream, Reader, Read, ReaderDone, WaitReady, BeginWait,
         Inspect, OpenLogs, SeeDone, SeeMarker, SeeFinished, SeeTick, Inspected, Return, Tick, Expire,
         reading, Verdict
<1>4. wait'.verdict \in {"none", "ready", "exited", "timeout", "unavailable", "cancelled"}
  BY WaitTypes DEF Waits
<1> QED BY <1>1, <1>2, <1>3, <1>4, WaitTypes, FaultsKept, TextTypes DEF Types, TypeOK, Instants

-----------------------------------------------------------------------------
(***************************************************************************)
(* WaitReady's record, step by step.                                       *)
(***************************************************************************)

\* The fields that a step leaves alone.
Keeps(fields) == \A field \in fields : wait'[field] = wait[field]

WaitFields == {"at", "unavailable", "marker", "marked", "finished", "tick", "expired", "answer", "verdict"}

LEMMA WaitSame == ASSUME UNCHANGED wait PROVE Keeps(WaitFields)
BY DEF Keeps

\* The verdict is found.
Concludes ==
    /\ wait'.at = "closing" /\ wait'.answer = "none" /\ ~wait'.finished
    /\ Keeps({"unavailable", "marker", "marked", "tick", "expired"})

LEMMA Concluding ==
  ASSUME wait \in Waits, NEW v, Verdict(v) PROVE Concludes /\ wait'.verdict = v
BY DEF Verdict, Waits, Concludes, Keeps

\* What each step does to it.
LEMMA WaitSteps ==
  ASSUME wait \in Waits
  PROVE  /\ BeginWait => wait'.at = "first" /\ Keeps(WaitFields \ {"at"})
         /\ Inspect => Keeps(WaitFields \ {"answer"})
         /\ SeeMarker => wait'.marked = now /\ Keeps(WaitFields \ {"marked"})
         /\ SeeFinished => ~wait'.finished /\ wait'.unavailable /\ Keeps(WaitFields \ {"finished", "unavailable"})
         /\ SeeTick => wait'.at = "inspect" /\ ~wait'.tick /\ Keeps(WaitFields \ {"at", "tick"})
         /\ Return => wait'.at = "returned" /\ Keeps(WaitFields \ {"at"})
         /\ Read => (wait'.marker <=> wait.marker \/ HasMarker(tail[Head(log).to] \o Head(log).text))
                    /\ Keeps(WaitFields \ {"marker"})
         /\ ReaderDone => (wait'.finished <=> Waiting) /\ Keeps(WaitFields \ {"finished"})
         /\ Tick => (wait'.tick <=> wait.at \notin {"first", "closing"}) /\ Keeps(WaitFields \ {"tick"})
         /\ Expire => wait'.expired /\ Keeps(WaitFields \ {"expired"})
<1> USE DEF Keeps, WaitFields
<1>1. BeginWait => wait'.at = "first" /\ Keeps(WaitFields \ {"at"})
  BY DEF BeginWait, Waits
<1>2. Inspect => Keeps(WaitFields \ {"answer"})
  BY DEF Inspect, Waits
<1>3. SeeMarker => wait'.marked = now /\ Keeps(WaitFields \ {"marked"})
  BY DEF SeeMarker, Waits
<1>4. SeeFinished => ~wait'.finished /\ wait'.unavailable /\ Keeps(WaitFields \ {"finished", "unavailable"})
  BY DEF SeeFinished, Waits
<1>5. SeeTick => wait'.at = "inspect" /\ ~wait'.tick /\ Keeps(WaitFields \ {"at", "tick"})
  BY DEF SeeTick, Waits
<1>6. Return => wait'.at = "returned" /\ Keeps(WaitFields \ {"at"})
  BY DEF Return, Waits
<1>7. Read => (wait'.marker <=> wait.marker \/ HasMarker(tail[Head(log).to] \o Head(log).text))
              /\ Keeps(WaitFields \ {"marker"})
  BY DEF Read, WriterOf, Waits
<1>8. ReaderDone => (wait'.finished <=> Waiting) /\ Keeps(WaitFields \ {"finished"})
  BY DEF ReaderDone, Waiting, Waits
<1>9. Tick => (wait'.tick <=> wait.at \notin {"first", "closing"}) /\ Keeps(WaitFields \ {"tick"})
  BY DEF Tick, Waits
<1>10. Expire => wait'.expired /\ Keeps(WaitFields \ {"expired"})
  BY DEF Expire, Waits
<1> HIDE DEF Keeps, WaitFields
<1> QED BY <1>1, <1>2, <1>3, <1>4, <1>5, <1>6, <1>7, <1>8, <1>9, <1>10

LEMMA OpenLogsSteps ==
  ASSUME Types, OpenLogs
  PROVE  /\ wait.at = "first" /\ wait.answer # "none"
         /\ \/ wait.answer = "stopped" /\ Concludes /\ wait'.verdict = "exited" /\ UNCHANGED <<log, stream, reader>>
            \/ /\ wait'.at = "select" /\ wait'.answer = "none" /\ wait.answer = "running"
               /\ stream' = "open" /\ reader' = "reading" /\ Keeps(WaitFields \ {"at", "answer"})
            \/ /\ wait'.at = "select" /\ wait'.answer = "none" /\ wait'.unavailable
               /\ (wait.answer = "running" => Over \/ faults' > 0)
               /\ Keeps(WaitFields \ {"at", "answer", "unavailable"}) /\ UNCHANGED <<log, stream, reader>>
<1>0. wait \in Waits /\ faults \in Nat
  BY InstantFacts DEF Types
<1>1. CASE wait.answer = "stopped"
  BY <1>0, <1>1, Concluding DEF OpenLogs
<1>2. CASE wait.answer # "stopped"
  <2>1. CASE /\ wait.answer = "running" /\ stream' = "open" /\ reader' = "reading"
             /\ wait' = [wait EXCEPT !.at = "select", !.answer = "none"]
    BY <1>0, <1>2, <2>1 DEF OpenLogs, Keeps, WaitFields, Waits
  <2>2. CASE /\ wait' = [wait EXCEPT !.at = "select", !.answer = "none", !.unavailable = TRUE]
             /\ IF wait.answer = "running" THEN MayFail(Over) ELSE UNCHANGED faults
             /\ UNCHANGED <<log, stream, reader>>
    <3>1. wait.answer = "running" => Over \/ faults' > 0
      BY <1>0, <2>2 DEF MayFail, Fault
    <3> QED BY <1>0, <1>2, <2>2, <3>1 DEF OpenLogs, Keeps, WaitFields, Waits
  <2> QED BY <1>2, <2>1, <2>2 DEF OpenLogs
<1> QED BY <1>1, <1>2

LEMMA InspectSteps ==
  ASSUME Types, Inspect
  PROVE  \/ /\ ~Over /\ wait'.answer = Answer
            /\ seen' = IF container = "running" THEN now ELSE seen
         \/ wait'.answer = "error" /\ UNCHANGED seen /\ (Over \/ faults' > 0)
<1>0. wait \in Waits /\ faults \in Nat
  BY InstantFacts DEF Types
<1>1. CASE ~Over /\ wait' = [wait EXCEPT !.answer = Answer] /\ seen' = IF container = "running" THEN now ELSE seen
  BY <1>0, <1>1 DEF Waits
<1>2. CASE MayFail(Over) /\ wait' = [wait EXCEPT !.answer = "error"] /\ UNCHANGED seen
  <2>1. wait'.answer = "error" /\ UNCHANGED seen
    BY <1>0, <1>2 DEF Waits
  <2>2. Over \/ faults' > 0
    BY <1>0, <1>2 DEF MayFail, Fault
  <2> QED BY <2>1, <2>2
<1> QED BY <1>1, <1>2 DEF Inspect

LEMMA InspectedSteps ==
  ASSUME wait \in Waits, Inspected
  PROVE  /\ wait.at = "inspect" /\ wait.answer # "none"
         /\ \/ /\ wait.answer = "error" /\ wait'.at = "select" /\ wait'.answer = "none" /\ wait'.unavailable
               /\ Keeps(WaitFields \ {"at", "answer", "unavailable"})
            \/ wait.answer = "stopped" /\ Concludes /\ wait'.verdict = "exited"
            \/ wait.answer = "running" /\ Settled(wait.marked) /\ Concludes /\ wait'.verdict = "ready"
            \/ /\ wait.answer = "running" /\ ~Settled(wait.marked) /\ wait'.at = "select" /\ wait'.answer = "none"
               /\ Keeps(WaitFields \ {"at", "answer"})
<1>1. wait.at = "inspect" /\ wait.answer \in {"error", "stopped", "running"}
  BY DEF Inspected, Waits
<1>2. CASE wait.answer = "error"
  BY <1>1, <1>2 DEF Inspected, Keeps, WaitFields, Waits
<1>3. CASE wait.answer = "stopped"
  BY <1>1, <1>3, Concluding DEF Inspected
<1>4. CASE wait.answer = "running" /\ Settled(wait.marked)
  BY <1>1, <1>4, Concluding DEF Inspected
<1>5. CASE wait.answer = "running" /\ ~Settled(wait.marked)
  BY <1>1, <1>5 DEF Inspected, Keeps, WaitFields, Waits
<1> QED BY <1>1, <1>2, <1>3, <1>4, <1>5

LEMMA SeeDoneSteps ==
  ASSUME wait \in Waits, SeeDone
  PROVE  /\ wait.at = "select" /\ Over /\ Concludes
         /\ wait'.verdict = IF cancelled THEN "cancelled" ELSE IF wait.unavailable THEN "unavailable" ELSE "timeout"
BY Concluding DEF SeeDone

\* Who changes WaitReady's record, and who the stream.
WaitChangers == BeginWait \/ Inspect \/ OpenLogs \/ SeeDone \/ SeeMarker \/ SeeFinished \/ SeeTick
                \/ Inspected \/ Return \/ Read \/ ReaderDone \/ Tick \/ Expire

StreamChangers == OpenLogs \/ Read \/ StreamEnds \/ StreamBreaks \/ ReaderDone \/ CloseStream

LEMMA Changers ==
  ASSUME Next
  PROVE  /\ UNCHANGED wait \/ WaitChangers
         /\ \/ UNCHANGED reading \/ StreamChangers
            \/ \E s \in Stream, chunk \in Chunks : WriteChunk(s, chunk)
<1>1. BeginStart \/ Create \/ StartContainer \/ Undo \/ Cancel \/ RemoveInstance \/ BeginWatch \/ WaitInstance \/ Exit
      => UNCHANGED wait /\ UNCHANGED reading
  BY DEF BeginStart, Create, StartContainer, Undo, Cancel, RemoveInstance, BeginWatch, WaitInstance, Exit
<1>2. \A s \in Stream, chunk \in Chunks : WriteChunk(s, chunk) => UNCHANGED wait
  BY DEF WriteChunk
<1>3. StreamEnds \/ StreamBreaks \/ CloseStream => UNCHANGED wait
  BY DEF StreamEnds, StreamBreaks, CloseStream
<1>4. BeginWait \/ Inspect \/ SeeDone \/ SeeMarker \/ SeeFinished \/ SeeTick \/ Inspected \/ Return \/ Tick \/ Expire
      => UNCHANGED reading
  BY DEF BeginWait, Inspect, SeeDone, SeeMarker, SeeFinished, SeeTick, Inspected, Return, Tick, Expire
<1> QED BY <1>1, <1>2, <1>3, <1>4 DEF Next, Reader, WaitReady, WaitChangers, StreamChangers

LEMMA AtSteps ==
  ASSUME Types, Next
  PROVE  \/ wait'.at = wait.at /\ wait'.verdict = wait.verdict
         \/ BeginWait /\ wait.at = "idle" /\ wait'.at = "first" /\ wait'.verdict = wait.verdict
         \/ OpenLogs /\ wait.at = "first" /\ wait'.at = "select" /\ wait'.verdict = wait.verdict
         \/ OpenLogs /\ wait.at = "first" /\ wait'.at = "closing" /\ wait'.verdict = "exited"
         \/ SeeTick /\ wait.at = "select" /\ wait'.at = "inspect" /\ wait'.verdict = wait.verdict
         \/ Inspected /\ wait.at = "inspect" /\ wait'.at = "select" /\ wait'.verdict = wait.verdict
         \/ Inspected /\ wait.at = "inspect" /\ wait'.at = "closing" /\ wait'.verdict \in {"exited", "ready"}
         \/ SeeDone /\ wait.at = "select" /\ wait'.at = "closing" /\ wait'.verdict \in {"cancelled", "unavailable", "timeout"}
         \/ Return /\ wait.at = "closing" /\ wait'.at = "returned" /\ wait'.verdict = wait.verdict
<1>0. wait \in Waits
  BY DEF Types
<1>1. CASE UNCHANGED wait
  BY <1>1
<1>2. CASE BeginWait \/ SeeTick \/ Return
  BY <1>0, <1>2, WaitSteps DEF BeginWait, SeeTick, Return, Keeps, WaitFields
<1>3. CASE Inspect \/ SeeMarker \/ SeeFinished \/ Read \/ ReaderDone \/ Tick \/ Expire
  BY <1>0, <1>3, WaitSteps DEF Keeps, WaitFields
<1>4. CASE OpenLogs
  BY <1>4, OpenLogsSteps DEF Concludes, Keeps, WaitFields
<1>5. CASE Inspected
  BY <1>0, <1>5, InspectedSteps DEF Concludes, Keeps, WaitFields
<1>6. CASE SeeDone
  BY <1>0, <1>6, SeeDoneSteps DEF Concludes
<1> QED BY <1>1, <1>2, <1>3, <1>4, <1>5, <1>6, Changers DEF WaitChangers

-----------------------------------------------------------------------------
(***************************************************************************)
(* The invariant, one part at a time.                                      *)
(***************************************************************************)

LEMMA StartStep ==
  ASSUME Types, StartInv, Next PROVE StartInv'
<1>0. /\ container \in {"none", "created", "running", "exited"} /\ lease \in BOOLEAN
      /\ start \in {"idle", "create", "start", "undo", "failed", "done"}
      /\ faults \in Nat /\ faults' \in Nat /\ faults <= faults'
  <2>1. MaxFaults \in Nat /\ faults \in 0..MaxFaults /\ faults' \in 0..MaxFaults /\ faults <= faults'
    BY InstantFacts, FaultsKept DEF Types
  <2>2. /\ container \in {"none", "created", "running", "exited"} /\ lease \in BOOLEAN
        /\ start \in {"idle", "create", "start", "undo", "failed", "done"}
    BY DEF Types, TypeOK
  <2> QED BY <2>1, <2>2
<1>1. wait'.at = "idle" \/ start = "done"
  <2>1. wait.at = "idle" \/ start = "done"
    BY <1>0 DEF StartInv
  <2>2. BeginWait => start = "done"
    BY DEF BeginWait
  <2> QED BY <2>1, <2>2, AtSteps
<1>7. ASSUME cancelled => cancelled', NEW what, LeftBy(what) PROVE LeftBy(what)'
  BY <1>0, <1>7 DEF LeftBy
<1>8. MayFail(cancelled) => cancelled \/ faults' = faults + 1
  BY DEF MayFail, Fault
<1>2. CASE UNCHANGED <<container, calls, cancelled>>
  BY <1>0, <1>1, <1>2, <1>7 DEF StartInv, calls
<1>3. CASE BeginStart \/ Cancel \/ Exit
  BY <1>0, <1>1, <1>3 DEF StartInv, LeftBy, BeginStart, Cancel, Exit, runner, calls
<1>4. CASE Create \/ StartContainer \/ Undo
  <2>1. CASE Create
    <3>0. cancelled' = cancelled /\ start = "create" /\ container = "none" /\ lease /\ start' \in {"start", "failed"}
         /\ container' \in {"none", "created"} /\ watch' = watch
      BY <1>0, <2>1 DEF Create, StartInv
    <3>1. wait'.at = "idle" /\ watch = "idle"
      BY <1>1, <3>0 DEF StartInv
    <3>2. CASE start' = "start"
      BY <2>1, <3>0, <3>1, <3>2 DEF StartInv, Create
    <3>3. CASE start' = "failed"
      <4>1. cancelled' \/ faults' > 0
        BY <1>0, <1>8, <2>1, <3>0, <3>3 DEF Create
      <4>2. LeftBy(container)'
        BY <3>0, <4>1 DEF LeftBy
      <4> QED BY <3>0, <3>1, <3>3, <4>2 DEF StartInv
    <3> QED BY <3>0, <3>2, <3>3
  <2>2. CASE StartContainer
    BY <1>0, <1>1, <1>8, <2>2 DEF StartInv, StartContainer
  <2>3. CASE Undo
    BY <1>0, <1>1, <1>8, <2>3 DEF StartInv, LeftBy, Undo
  <2> QED BY <1>4, <2>1, <2>2, <2>3
<1>5. CASE RemoveInstance
  <2>1. container' \in {container, "none"}
    BY <1>5 DEF RemoveInstance
  <2>2. ~lease' => container' = "none"
    BY <1>0, <1>5 DEF RemoveInstance, Removed
  <2>3. start = "done" /\ start' = "done"
    BY <1>5 DEF RemoveInstance
  <2> QED BY <1>0, <2>1, <2>2, <2>3 DEF StartInv
<1>6. CASE BeginWatch \/ WaitInstance
  BY <1>0, <1>1, <1>6 DEF StartInv, BeginWatch, WaitInstance, runner
<1> QED BY <1>2, <1>3, <1>4, <1>5, <1>6, Movers

LEMMA ReaderStep ==
  ASSUME Types, ReaderInv, Next PROVE ReaderInv'
<1>0. /\ stream \in {"none", "open", "ended", "closed"} /\ reader \in {"none", "reading", "done"}
      /\ wait \in Waits /\ log \in Seq(Frames)
  BY DEF Types, TypeOK
<1>1. CASE OpenLogs
  BY <1>0, <1>1, OpenLogsSteps DEF ReaderInv, OpenLogs, Concludes
<1>2. CASE Read
  <2>1. log # <<>> /\ stream = "open" /\ UNCHANGED <<stream, reader>>
    BY <1>2 DEF Read
  <2>2. wait'.at = wait.at
    BY <1>0, <1>2, WaitSteps DEF Keeps, WaitFields
  <2>3. wait.at \notin {"idle", "first", "returned"}
    BY <2>1 DEF ReaderInv, MayReturn
  <2> QED BY <2>1, <2>2, <2>3 DEF ReaderInv
<1>3. CASE StreamEnds \/ StreamBreaks \/ CloseStream
  <2>1. wait' = wait /\ reader' = reader /\ tail' = tail
    BY <1>3 DEF StreamEnds, StreamBreaks, CloseStream
  <2>2. log' = <<>> /\ stream \in {"open", "ended"} /\ stream' \in {"ended", "closed"}
    BY <1>3 DEF StreamEnds, StreamBreaks, CloseStream
  <2>3. wait.at \notin {"idle", "first", "returned"}
    BY <2>2 DEF ReaderInv, MayReturn
  <2> QED BY <2>1, <2>2, <2>3 DEF ReaderInv
<1>4. CASE ReaderDone
  <2>1. wait'.at = wait.at
    BY <1>0, <1>4, WaitSteps DEF Keeps, WaitFields
  <2>2. /\ reader = "reading" /\ reader' = "done" /\ stream \in {"ended", "closed"}
        /\ UNCHANGED <<stream, log, tail>>
    BY <1>4 DEF ReaderDone
  <2> QED BY <2>1, <2>2 DEF ReaderInv, MayReturn
<1>5. CASE UNCHANGED reading
  <2>1. UNCHANGED <<log, stream, reader, tail>>
    BY <1>5 DEF reading
  <2>2. CASE wait'.at = wait.at \/ wait'.at \in {"select", "inspect", "closing"}
    BY <2>1, <2>2 DEF ReaderInv, MayReturn
  <2>3. CASE BeginWait /\ wait.at = "idle" /\ wait'.at = "first"
    BY <2>1, <2>3 DEF ReaderInv, MayReturn
  <2>4. CASE Return /\ wait.at = "closing" /\ wait'.at = "returned"
    BY <2>1, <2>4 DEF ReaderInv, MayReturn, Return
  <2> QED BY <2>2, <2>3, <2>4, AtSteps
<1>6. ASSUME NEW s \in Stream, NEW chunk \in Chunks, WriteChunk(s, chunk) PROVE ReaderInv'
  <2>1. UNCHANGED <<stream, reader, tail, wait>> /\ (log' = log \/ stream = "open")
    BY <1>6 DEF WriteChunk
  <2> QED BY <2>1 DEF ReaderInv, MayReturn
<1> QED BY <1>1, <1>2, <1>3, <1>4, <1>5, <1>6, Changers DEF StreamChangers

LEMMA FirstStep ==
  ASSUME Types, ReaderInv, FirstInv, Next PROVE FirstInv'
<1>0. wait \in Waits /\ now \in 0..Timeout /\ Timeout \in Nat
  BY InstantFacts DEF Types, TypeOK
<1>1. CASE UNCHANGED wait
  <2>1. wait.at = "idle" => now' = now
    BY Times DEF Tick
  <2>2. wait.expired => now' = now
    BY <1>0, Times DEF FirstInv
  <2> QED BY <1>1, <2>1, <2>2 DEF FirstInv
<1>2. CASE BeginWait
  <2>1. wait'.at = "first" /\ Keeps(WaitFields \ {"at"}) /\ wait.at = "idle" /\ now' = now
    BY <1>0, <1>2, WaitSteps DEF BeginWait
  <2> QED BY <2>1 DEF FirstInv, Keeps, WaitFields, NotWaiting, Returning
<1>3. CASE Inspect
  <2>1. Keeps(WaitFields \ {"answer"}) /\ wait.at \in {"first", "inspect"} /\ now' = now
    BY <1>0, <1>3, WaitSteps DEF Inspect
  <2> QED BY <2>1 DEF FirstInv, Keeps, WaitFields
<1>4. CASE OpenLogs
  <2>1. now' = now
    BY <1>4 DEF OpenLogs
  <2> QED BY <1>0, <1>4, <2>1, OpenLogsSteps DEF FirstInv, Concludes, Keeps, WaitFields, Returning
<1>5. CASE Inspected
  <2>1. now' = now
    BY <1>5 DEF Inspected
  <2> QED BY <1>0, <1>5, <2>1, InspectedSteps DEF FirstInv, Concludes, Keeps, WaitFields, Returning
<1>6. CASE SeeDone
  <2>1. now' = now
    BY <1>6 DEF SeeDone
  <2> QED BY <1>0, <1>6, <2>1, SeeDoneSteps DEF FirstInv, Concludes, Keeps, WaitFields, Returning
<1>7. CASE SeeMarker \/ SeeFinished \/ SeeTick \/ Return
  <2>1. now' = now /\ wait.at \in {"select", "closing"}
    BY <1>7 DEF SeeMarker, SeeFinished, SeeTick, Return
  <2>2. wait.at = "closing" \/ ~Return
    BY DEF Return
  <2>3. SeeMarker \/ SeeFinished \/ SeeTick => wait.at = "select"
    BY DEF SeeMarker, SeeFinished, SeeTick
  <2> QED BY <1>0, <1>7, <2>1, <2>2, <2>3, WaitSteps DEF FirstInv, Keeps, WaitFields, Returning
<1>8. CASE Read \/ ReaderDone
  <2>1. now' = now /\ reader = "reading"
    BY <1>8 DEF Read, ReaderDone
  <2>2. wait.at \notin {"idle", "first"}
    BY <2>1 DEF ReaderInv
  <2> QED BY <1>0, <1>8, <2>1, <2>2, WaitSteps DEF FirstInv, Keeps, WaitFields, Returning
<1>9. CASE Tick
  <2>1. wait.at # "idle" /\ now < Timeout /\ now' = now + 1
    BY <1>9 DEF Tick
  <2>2. ~wait.expired
    BY <1>0, <2>1 DEF FirstInv
  <2> QED BY <1>0, <1>9, <2>1, <2>2, WaitSteps DEF FirstInv, Keeps, WaitFields, Returning
<1>10. CASE Expire
  <2>1. wait.at # "idle" /\ now = Timeout /\ now' = now
    BY <1>10 DEF Expire
  <2> QED BY <1>0, <1>10, <2>1, WaitSteps DEF FirstInv, Keeps, WaitFields, Returning
<1> QED BY <1>1, <1>2, <1>3, <1>4, <1>5, <1>6, <1>7, <1>8, <1>9, <1>10, Changers DEF WaitChangers

-----------------------------------------------------------------------------
(***************************************************************************)
(* The marker across the cuts.                                             *)
(***************************************************************************)

LEMMA OccursGrows ==
  ASSUME NEW t \in Text, NEW u \in Text, NEW i \in Nat
  PROVE  /\ Occurs(t, i) => Occurs(t \o u, i)
         /\ Occurs(t \o u, i) /\ i + Len(Marker) - 1 <= Len(t) => Occurs(t, i)
<1>0. Len(t) \in Nat /\ Len(u) \in Nat /\ Len(Marker) \in Nat /\ Len(Marker) > 0
  BY MarkerFacts DEF Text
<1>1. Len(t \o u) = Len(t) + Len(u) /\ \A k \in 1..Len(t) : (t \o u)[k] = t[k]
  BY ConcatFacts
<1>2. ASSUME i >= 1, i + Len(Marker) - 1 <= Len(t), NEW k \in 1..Len(Marker) PROVE (t \o u)[i + k - 1] = t[i + k - 1]
  <2>1. i + k - 1 \in 1..Len(t)
    BY <1>0, <1>2
  <2> QED BY <1>1, <2>1
<1>3. Occurs(t, i) => i >= 1 /\ i + Len(Marker) - 1 <= Len(t)
  BY <1>0 DEF Occurs
<1>4. Occurs(t, i) => Occurs(t \o u, i)
  <2>1. SUFFICES ASSUME Occurs(t, i) PROVE Occurs(t \o u, i)
    OBVIOUS
  <2>2. i \in 1..(Len(t \o u) - Len(Marker) + 1)
    BY <1>0, <1>1, <1>3, <2>1
  <2>3. \A k \in 1..Len(Marker) : (t \o u)[i + k - 1] = Marker[k]
    BY <1>2, <1>3, <2>1 DEF Occurs
  <2> QED BY <2>2, <2>3 DEF Occurs
<1>5. ASSUME Occurs(t \o u, i), i + Len(Marker) - 1 <= Len(t) PROVE Occurs(t, i)
  <2>1. i >= 1 /\ i \in 1..(Len(t) - Len(Marker) + 1)
    BY <1>0, <1>5 DEF Occurs
  <2>2. \A k \in 1..Len(Marker) : t[i + k - 1] = Marker[k]
    BY <1>2, <1>5, <2>1 DEF Occurs
  <2> QED BY <2>1, <2>2 DEF Occurs
<1> QED BY <1>4, <1>5

\* What follows a text changes nothing in it.
LEMMA Growth ==
  ASSUME NEW t \in Text, NEW u \in Text
  PROVE  /\ HasMarker(t) => HasMarker(t \o u)
         /\ \A n \in Nat : n <= Len(t) => (Found(t \o u, n) <=> Found(t, n))
         /\ \A n \in Nat, kept \in Text : KeptOf(kept, t, n) => KeptOf(kept, t \o u, n)
<1>0. Len(t) \in Nat /\ Len(u) \in Nat /\ Len(Marker) \in Nat /\ Len(Marker) > 0
  BY MarkerFacts DEF Text
<1>1. t \o u \in Text /\ Len(t \o u) = Len(t) + Len(u) /\ \A k \in 1..Len(t) : (t \o u)[k] = t[k]
  BY ConcatFacts
<1>2. HasMarker(t) => HasMarker(t \o u)
  BY <1>1, MarkerOccurs, OccursGrows
<1>3. ASSUME NEW n \in Nat, n <= Len(t) PROVE Found(t \o u, n) <=> Found(t, n)
  <2>1. \A i \in Nat : i + Len(Marker) - 1 <= n => i + Len(Marker) - 1 <= Len(t)
    BY <1>0, <1>3
  <2> QED BY <2>1, OccursGrows DEF Found
<1>4. ASSUME NEW n \in Nat, NEW kept \in Text, KeptOf(kept, t, n) PROVE KeptOf(kept, t \o u, n)
  <2>1. Len(kept) \in Nat /\ n <= Len(t) /\ Len(kept) <= n
    BY <1>4 DEF KeptOf, Text
  <2>2. \A k \in 1..Len(kept) : n - Len(kept) + k \in 1..Len(t)
    BY <1>0, <2>1
  <2>3. \A k \in 1..Len(kept) : kept[k] = (t \o u)[n - Len(kept) + k]
    BY <1>1, <1>4, <2>2 DEF KeptOf
  <2> QED BY <1>0, <1>1, <1>4, <2>1, <2>3 DEF KeptOf
<1> QED BY <1>2, <1>3, <1>4

\* The marker is in all of a text when it is in the text.
LEMMA FoundAll == ASSUME NEW t \in Text, NEW n \in Nat, n <= Len(t)
                  PROVE (Found(t, n) => HasMarker(t)) /\ (n = Len(t) => (Found(t, n) <=> HasMarker(t)))
<1>0. Len(t) \in Nat /\ Len(Marker) \in Nat /\ Len(Marker) > 0
  BY MarkerFacts DEF Text
<1>1. \A i \in Nat : Occurs(t, i) => i + Len(Marker) - 1 <= Len(t)
  BY <1>0 DEF Occurs
<1> QED BY <1>1, MarkerOccurs DEF Found

LEMMA Begins ==
  ASSUME NEW n \in Nat, NEW kept \in Nat, NEW m \in Nat, kept <= n, kept = n \/ kept = m - 1
  PROVE  n - kept \in Nat /\ (n - kept = 0 \/ n - kept = n - m + 1)
OBVIOUS

\* The next piece: the kept suffix and the piece show the marker exactly when it ends in it.
LEMMA ReadOn ==
  ASSUME NEW w \in Text, NEW kept \in Text, NEW f \in Text, NEW n \in Nat,
         KeptOf(kept, w, n), Len(kept) < Len(Marker),
         n + Len(f) <= Len(w), \A k \in 1..Len(f) : w[n + k] = f[k]
  PROVE  /\ Found(w, n + Len(f)) <=> Found(w, n) \/ HasMarker(kept \o f)
         /\ KeptOf(Kept(kept \o f), w, n + Len(f))
<1> DEFINE M == Len(Marker)
           b == n - Len(kept)
<1> PICK text : text = kept \o f
  OBVIOUS
<1>0. Len(w) \in Nat /\ Len(kept) \in Nat /\ Len(f) \in Nat /\ M \in Nat /\ M > 0
  BY MarkerFacts DEF Text
<1>1. /\ text \in Text /\ Len(text) = Len(kept) + Len(f)
      /\ \A k \in 1..Len(kept) : text[k] = kept[k]
      /\ \A k \in 1..Len(f) : text[Len(kept) + k] = f[k]
  BY ConcatFacts
<1>2. b \in Nat /\ (b = 0 \/ b = n - M + 1) /\ b + Len(text) = n + Len(f)
  <2>1. Len(kept) <= n /\ (Len(kept) = n \/ Len(kept) = M - 1)
    BY DEF KeptOf
  <2>2. Len(text) = Len(kept) + Len(f)
    BY <1>1
  <2>3. b \in Nat /\ b + Len(text) = n + Len(f)
    BY <1>0, <2>1, <2>2
  <2>4. b = 0 \/ b = n - M + 1
    BY <1>0, <2>1, Begins
  <2> QED BY <2>3, <2>4
<1>3. ASSUME NEW j \in 1..Len(text) PROVE text[j] = w[b + j]
  <2>1. CASE j <= Len(kept)
    BY <1>0, <1>1, <2>1 DEF KeptOf
  <2>2. CASE j > Len(kept)
    <3>1. PICK k \in 1..Len(f) : j = Len(kept) + k
      <4>1. j - Len(kept) \in 1..Len(f) /\ j = Len(kept) + (j - Len(kept))
        BY <1>0, <1>1, <2>2
      <4> QED BY <4>1
    <3>2. n + k = b + j
      BY <1>0, <3>1
    <3> QED BY <1>1, <3>1, <3>2
  <2> QED BY <1>0, <2>1, <2>2
<1> HIDE DEF b
<1>4. ASSUME NEW i \in Nat, i >= 1, i + M - 1 <= Len(text) PROVE Occurs(text, i) <=> Occurs(w, b + i)
  <2>1. i \in 1..(Len(text) - M + 1) /\ b + i \in 1..(Len(w) - M + 1)
    BY <1>0, <1>1, <1>2, <1>4
  <2>2. ASSUME NEW k \in 1..M PROVE text[i + k - 1] = w[b + i + k - 1]
    <3>1. i + k - 1 \in 1..Len(text) /\ b + (i + k - 1) = b + i + k - 1
      BY <1>0, <1>1, <1>2, <1>4
    <3> QED BY <1>3, <3>1
  <2> QED BY <2>1, <2>2 DEF Occurs
<1>5. ASSUME HasMarker(text) PROVE Found(w, n + Len(f))
  <2>1. PICK i \in Nat : Occurs(text, i)
    BY <1>1, <1>5, MarkerOccurs
  <2>2. i >= 1 /\ i + M - 1 <= Len(text)
    BY <1>0, <1>1, <2>1 DEF Occurs
  <2>3. Occurs(w, b + i)
    BY <1>4, <2>1, <2>2
  <2>4. b + i \in Nat /\ b + i + M - 1 <= n + Len(f)
    BY <1>0, <1>1, <1>2, <2>2
  <2> QED BY <2>3, <2>4 DEF Found
<1>6. Found(w, n) => Found(w, n + Len(f))
  <2>1. \A i \in Nat : i + M - 1 <= n => i + M - 1 <= n + Len(f)
    BY <1>0
  <2> QED BY <2>1 DEF Found
<1>7. ASSUME Found(w, n + Len(f)) PROVE Found(w, n) \/ HasMarker(text)
  <2>1. PICK i \in Nat : Occurs(w, i) /\ i + M - 1 <= n + Len(f)
    BY <1>7 DEF Found
  <2>2. CASE i + M - 1 <= n
    BY <2>1, <2>2 DEF Found
  <2>3. CASE i + M - 1 > n
    <3>1. i >= 1
      BY <1>0, <2>1 DEF Occurs
    <3>2. i - b \in Nat /\ i - b >= 1 /\ (i - b) + M - 1 <= Len(text) /\ b + (i - b) = i
      BY <1>0, <1>1, <1>2, <2>1, <2>3, <3>1
    <3>3. Occurs(text, i - b)
      BY <1>4, <2>1, <3>2
    <3> QED BY <1>1, <3>2, <3>3, MarkerOccurs
  <2> QED BY <1>0, <2>2, <2>3
<1>8. KeptOf(Kept(text), w, n + Len(f))
  <2> PICK now_kept : now_kept = Kept(text)
    OBVIOUS
  <2>1. /\ now_kept \in Text /\ Len(now_kept) < M /\ Len(now_kept) <= Len(text)
        /\ Len(now_kept) = Len(text) \/ Len(now_kept) = M - 1
        /\ \A k \in 1..Len(now_kept) : now_kept[k] = text[Len(text) - Len(now_kept) + k]
    BY <1>1, KeptFacts
  <2>2. Len(now_kept) \in Nat
    BY <2>1 DEF Text
  <2>3. Len(now_kept) = n + Len(f) \/ Len(now_kept) = M - 1
    BY <1>0, <1>1, <1>2, <2>1, <2>2 DEF KeptOf
  <2>4. ASSUME NEW k \in 1..Len(now_kept) PROVE now_kept[k] = w[n + Len(f) - Len(now_kept) + k]
    <3>1. Len(text) - Len(now_kept) + k \in 1..Len(text)
          /\ b + (Len(text) - Len(now_kept) + k) = n + Len(f) - Len(now_kept) + k
      <4>1. Len(text) \in Nat /\ n + Len(f) \in Nat
        BY <1>0, <1>1
      <4>2. b \in Nat /\ b + Len(text) = n + Len(f) /\ Len(now_kept) <= Len(text)
        BY <1>2, <2>1
      <4>3. PICK lt \in Nat, lk \in Nat, end \in Nat : lt = Len(text) /\ lk = Len(now_kept) /\ end = n + Len(f)
        BY <2>2, <4>1
      <4>4. b \in Nat /\ b + lt = end /\ lk <= lt /\ k \in 1..lk
        BY <4>2, <4>3
      <4>5. lt - lk + k \in 1..lt /\ b + (lt - lk + k) = end - lk + k
        BY <4>4
      <4> QED BY <4>3, <4>5
    <3> QED BY <1>3, <2>1, <3>1
  <2>5. Len(now_kept) <= n + Len(f)
    BY <1>0, <1>1, <1>2, <2>1, <2>2
  <2> QED BY <2>3, <2>4, <2>5 DEF KeptOf
<1> QED BY <1>5, <1>6, <1>7, <1>8

-----------------------------------------------------------------------------
(***************************************************************************)
(* The frames on their way.                                                *)
(***************************************************************************)

Places == [Stream -> Text]

LEMMA FrameAt ==
  ASSUME NEW q \in Seq(Frames), NEW i \in 1..Len(q)
  PROVE  q[i].to \in Stream /\ q[i].text \in Text /\ Len(q[i].text) \in Nat
<1>1. q[i] \in Frames
  BY ElementOfSeq
<1> QED BY <1>1 DEF Frames, Text

\* The runner writes one more frame.
OneMore(q, w, at, frame, q2, w2) ==
    /\ q \in Seq(Frames) /\ w \in Places /\ Flow(q, w, at) /\ frame \in Frames /\ q2 = Append(q, frame)
    /\ w2 \in Places /\ w2[frame.to] = w[frame.to] \o frame.text /\ \A r \in Stream \ {frame.to} : w2[r] = w[r]

LEMMA FlowWrite ==
  ASSUME NEW q, NEW w, NEW at, NEW frame, NEW q2, NEW w2, OneMore(q, w, at, frame, q2, w2)
  PROVE  \E at2 : Flow(q2, w2, at2) /\ at2[0] = at[0]
<1> PICK s \in Stream, c \in Text : s = frame.to /\ c = frame.text
  BY DEF OneMore, Frames
<1> DEFINE n == Len(q)
           last == [at[n] EXCEPT ![s] = at[n][s] + Len(c)]
           at2 == [i \in 0..(n + 1) |-> IF i <= n THEN at[i] ELSE last]
<1>a. /\ q \in Seq(Frames) /\ w \in Places /\ Flow(q, w, at) /\ s \in Stream /\ c \in Text /\ frame \in Frames
      /\ q2 = Append(q, frame) /\ frame.to = s /\ frame.text = c
  BY DEF OneMore, Frames
<1>b. w2 \in Places /\ w2[s] = w[s] \o c /\ \A r \in Stream \ {s} : w2[r] = w[r]
  BY DEF OneMore
<1>0. /\ n \in Nat /\ Len(c) \in Nat /\ w[s] \in Text /\ Len(w[s]) \in Nat /\ at \in [0..n -> [Stream -> Nat]]
      /\ w2[s] \in Text /\ Len(w2[s]) \in Nat
  <2>1. w[s] \in Text /\ w2[s] \in Text
    BY <1>a, <1>b DEF Places
  <2>2. at \in [0..n -> [Stream -> Nat]]
    BY <1>a DEF Flow
  <2>3. \A t \in Text : Len(t) \in Nat
    BY DEF Text
  <2>4. n \in Nat
    BY <1>a
  <2> QED BY <2>1, <2>2, <2>3, <2>4
<1>1. q2 \in Seq(Frames) /\ Len(q2) = n + 1 /\ q2[n + 1] = frame /\ \A i \in 1..n : q2[i] = q[i]
  BY <1>a, AppendProperties
<1>2. /\ Len(w2[s]) = Len(w[s]) + Len(c)
      /\ \A k \in 1..Len(w[s]) : w2[s][k] = w[s][k]
      /\ \A k \in 1..Len(c) : w2[s][Len(w[s]) + k] = c[k]
  <2>0. PICK before \in Text : before = w[s]
    BY <1>0
  <2>a. PICK v : v = before \o c
    OBVIOUS
  <2>1. /\ Len(v) = Len(before) + Len(c)
        /\ \A k \in 1..Len(before) : v[k] = before[k]
        /\ \A k \in 1..Len(c) : v[Len(before) + k] = c[k]
    BY <2>a, ConcatFacts
  <2>2. w2[s] = v
    BY <1>b, <2>0, <2>a, Zenon
  <2> QED BY <2>0, <2>1, <2>2
<1>3. \A r \in Stream : r # s => w2[r] = w[r]
  BY <1>b
<1>4. /\ \A i \in 0..n, r \in Stream : at[i][r] \in Nat /\ at[i][r] <= Len(w[r])
      /\ \A r \in Stream : at[n][r] = Len(w[r])
      /\ \A i \in 1..n : \A r \in Stream : at[i][r] = at[i - 1][r] + (IF r = q[i].to THEN Len(q[i].text) ELSE 0)
      /\ \A i \in 1..n : \A k \in 1..Len(q[i].text) : w[q[i].to][at[i - 1][q[i].to] + k] = q[i].text[k]
  BY <1>0, <1>a DEF Flow
<1>5. last \in [Stream -> Nat] /\ \A r \in Stream : last[r] = Len(w2[r])
  <2>1. at[n] \in [Stream -> Nat] /\ at[n][s] = Len(w[s])
    BY <1>0, <1>4
  <2>2. last[s] = Len(w2[s]) /\ last[s] \in Nat
    <3>1. last[s] = Len(w[s]) + Len(c)
      BY <2>1
    <3> QED BY <1>0, <1>2, <3>1
  <2>3. ASSUME NEW r \in Stream, r # s PROVE last[r] = Len(w2[r])
    <3>1. w2[r] = w[r] /\ last[r] = at[n][r]
      BY <1>3, <2>1, <2>3
    <3>2. at[n][r] = Len(w[r])
      BY <1>4
    <3> QED BY <3>1, <3>2
  <2> QED BY <1>0, <2>1, <2>2, <2>3
<1> HIDE DEF last
<1>6. /\ at2 \in [0..(n + 1) -> [Stream -> Nat]] /\ at2[n + 1] = last
      /\ \A i \in 0..n : at2[i] = at[i]
  BY <1>0, <1>5
<1> HIDE DEF at2
<1>7. \A i \in 0..(n + 1), r \in Stream : at2[i][r] <= Len(w2[r])
  <2>1. ASSUME NEW i \in 0..n, NEW r \in Stream PROVE at2[i][r] <= Len(w2[r])
    <3>1. at2[i][r] <= Len(w[r]) /\ at2[i][r] \in Nat
      BY <1>4, <1>6
    <3>2. CASE r = s
      <4>1. Len(w2[s]) = Len(w[s]) + Len(c)
        BY <1>2
      <4>2. PICK a \in Nat, l \in Nat, z \in Nat : a = at2[i][s] /\ l = Len(c) /\ z = Len(w[s])
        BY <1>0, <3>1, <3>2
      <4>3. a <= z /\ Len(w2[s]) = z + l
        BY <3>1, <3>2, <4>1, <4>2
      <4>4. a <= z + l
        BY <4>3
      <4> QED BY <3>2, <4>2, <4>3, <4>4
    <3>3. CASE r # s
      <4>1. w2[r] = w[r]
        BY <1>3, <3>3
      <4> QED BY <3>1, <4>1
    <3> QED BY <3>2, <3>3
  <2>2. ASSUME NEW r \in Stream PROVE at2[n + 1][r] <= Len(w2[r])
    BY <1>5, <1>6
  <2>3. \A i \in 0..(n + 1) : i = n + 1 \/ i \in 0..n
    BY <1>0
  <2> QED BY <2>1, <2>2, <2>3
<1>8. ASSUME NEW i \in 1..(n + 1)
      PROVE  /\ \A r \in Stream : at2[i][r] = at2[i - 1][r] + (IF r = q2[i].to THEN Len(q2[i].text) ELSE 0)
             /\ \A k \in 1..Len(q2[i].text) : w2[q2[i].to][at2[i - 1][q2[i].to] + k] = q2[i].text[k]
  <2>1. CASE i = n + 1
    <3>1. i - 1 = n /\ n \in 0..n
      BY <1>0, <2>1
    <3>2. q2[i] = frame /\ at2[i] = last /\ at2[i - 1] = at[n] /\ at[n][s] = Len(w[s])
      BY <1>1, <1>4, <1>6, <2>1, <3>1
    <3>3. \A r \in Stream : at2[i][r] = at2[i - 1][r] + (IF r = s THEN Len(c) ELSE 0)
      <4>1. at[n] \in [Stream -> Nat] /\ last \in [Stream -> Nat]
        BY <1>0, <1>5, <3>1
      <4>2. last[s] = at[n][s] + Len(c) /\ \A r \in Stream : r # s => last[r] = at[n][r] + 0
        <5>1. last[s] = at[n][s] + Len(c)
          BY <4>1 DEF last
        <5>2. ASSUME NEW r \in Stream, r # s PROVE last[r] = at[n][r] + 0
          <6>1. last[r] = at[n][r] /\ at[n][r] \in Nat
            BY <4>1, <5>2 DEF last
          <6> QED BY <6>1
        <5> QED BY <5>1, <5>2
      <4> QED BY <3>2, <4>2
    <3>4. \A k \in 1..Len(c) : w2[s][at2[i - 1][s] + k] = c[k]
      BY <1>2, <1>3, <3>2
    <3> QED BY <1>a, <3>2, <3>3, <3>4
  <2>2. CASE i \in 1..n
    <3>1. i \in 0..n /\ i - 1 \in 0..n
      BY <1>0, <2>2
    <3>2. q2[i] = q[i] /\ at2[i] = at[i] /\ at2[i - 1] = at[i - 1]
      BY <1>1, <1>6, <2>2, <3>1
    <3>3. \A r \in Stream : at2[i][r] = at2[i - 1][r] + (IF r = q2[i].to THEN Len(q2[i].text) ELSE 0)
      BY <1>4, <2>2, <3>2
    <3>4. ASSUME NEW k \in 1..Len(q2[i].text) PROVE w2[q2[i].to][at2[i - 1][q2[i].to] + k] = q2[i].text[k]
      <4> PICK r : r = q[i].to
        OBVIOUS
      <4>1. r \in Stream /\ q[i].text \in Text /\ Len(q[i].text) \in Nat
        BY <1>a, <2>2, FrameAt
      <4>2. w[r][at[i - 1][r] + k] = q[i].text[k]
        BY <1>4, <2>2, <3>2
      <4>3. CASE r # s
        BY <1>3, <3>2, <4>1, <4>2, <4>3
      <4>4. CASE r = s
        <5>1. at[i][s] = at[i - 1][s] + Len(q[i].text)
          <6>1. \A p \in Stream : at[i][p] = at[i - 1][p] + (IF p = q[i].to THEN Len(q[i].text) ELSE 0)
            BY <1>4, <2>2
          <6> QED BY <4>4, <6>1
        <5>2. at[i - 1][s] \in Nat
          BY <1>4, <3>1
        <5>3. at[i][s] <= Len(w[s])
          BY <1>4, <3>1
        <5>4. k \in Nat /\ k >= 1 /\ k <= Len(q[i].text)
          BY <3>2, <4>1
        <5>5. at[i - 1][s] + k \in 1..Len(w[s])
          <6>1. PICK a \in Nat, l \in Nat, z \in Nat : a = at[i - 1][s] /\ l = Len(q[i].text) /\ z = Len(w[s])
            BY <1>0, <4>1, <5>2
          <6>2. a + l <= z /\ k <= l /\ k >= 1 /\ k \in Nat
            BY <5>1, <5>3, <5>4, <6>1
          <6>3. a + k \in 1..z
            BY <6>2
          <6> QED BY <6>1, <6>3
        <5>6. w2[s][at[i - 1][s] + k] = w[s][at[i - 1][s] + k]
          BY <1>2, <1>3, <5>5
        <5>7. q2[i].to = s /\ at2[i - 1] = at[i - 1] /\ q2[i].text = q[i].text
          BY <3>2, <4>4
        <5>8. w[s][at[i - 1][s] + k] = q[i].text[k]
          BY <4>2, <4>4
        <5> QED BY <5>6, <5>7, <5>8
      <4> QED BY <4>3, <4>4
    <3> QED BY <3>3, <3>4
  <2>3. i = n + 1 \/ i \in 1..n
    BY <1>0
  <2> QED BY <2>1, <2>2, <2>3
<1>9. Flow(q2, w2, at2)
  <2>1. \A r \in Stream : at2[Len(q2)][r] = Len(w2[r])
    BY <1>1, <1>5, <1>6
  <2> QED BY <1>1, <1>6, <1>7, <1>8, <2>1 DEF Flow
<1>10. at2[0] = at[0]
  BY <1>0, <1>6
<1> QED BY <1>9, <1>10

\* The reader takes one frame.
OneLess(q, w, at, s, f, q2) ==
    /\ q \in Seq(Frames) /\ q # <<>> /\ w \in Places /\ Flow(q, w, at) /\ s \in Stream /\ f \in Text
    /\ s = Head(q).to /\ f = Head(q).text /\ q2 = Tail(q)

LEMMA FlowRead ==
  ASSUME NEW q, NEW w, NEW at, NEW s, NEW f, NEW q2, OneLess(q, w, at, s, f, q2)
  PROVE  /\ \E at2 : Flow(q2, w, at2) /\ at2[0] = at[1]
         /\ at[0] \in [Stream -> Nat]
         /\ at[1][s] = at[0][s] + Len(f)
         /\ \A r \in Stream \ {s} : at[1][r] = at[0][r]
         /\ at[1][s] <= Len(w[s])
         /\ \A k \in 1..Len(f) : w[s][at[0][s] + k] = f[k]
<1> SUFFICES ASSUME q \in Seq(Frames), q # <<>>, w \in Places, Flow(q, w, at), s \in Stream, f \in Text,
                    s = Head(q).to, f = Head(q).text, q2 = Tail(q)
             PROVE  /\ \E at2 : Flow(q2, w, at2) /\ at2[0] = at[1]
                    /\ at[0] \in [Stream -> Nat]
                    /\ at[1][s] = at[0][s] + Len(f)
                    /\ \A r \in Stream \ {s} : at[1][r] = at[0][r]
                    /\ at[1][s] <= Len(w[s])
                    /\ \A k \in 1..Len(f) : w[s][at[0][s] + k] = f[k]
  BY DEF OneLess
<1> DEFINE n == Len(q)
           at2 == [i \in 0..(n - 1) |-> at[i + 1]]
<1>0. n \in Nat /\ n > 0 /\ Head(q) = q[1]
  BY EmptySeq
<1>1. q2 \in Seq(Frames) /\ Len(q2) = n - 1 /\ \A i \in 1..(n - 1) : q2[i] = q[i + 1]
  BY HeadTailProperties
<1>2. /\ at \in [0..n -> [Stream -> Nat]]
      /\ \A i \in 0..n, r \in Stream : at[i][r] <= Len(w[r])
      /\ \A r \in Stream : at[n][r] = Len(w[r])
      /\ \A i \in 1..n : \A r \in Stream : at[i][r] = at[i - 1][r] + (IF r = q[i].to THEN Len(q[i].text) ELSE 0)
      /\ \A i \in 1..n : \A k \in 1..Len(q[i].text) : w[q[i].to][at[i - 1][q[i].to] + k] = q[i].text[k]
  BY DEF Flow
<1>3. at2 \in [0..(n - 1) -> [Stream -> Nat]] /\ \A i \in 0..(n - 1) : at2[i] = at[i + 1] /\ i + 1 \in 0..n
  BY <1>0, <1>2
<1> HIDE DEF at2
<1>4. at2[0] = at[1] /\ at2[n - 1] = at[n]
  BY <1>0, <1>3
<1>5. \A i \in 0..(n - 1), r \in Stream : at2[i][r] <= Len(w[r])
  BY <1>2, <1>3
<1>6. ASSUME NEW i \in 1..(n - 1)
      PROVE  /\ \A r \in Stream : at2[i][r] = at2[i - 1][r] + (IF r = q2[i].to THEN Len(q2[i].text) ELSE 0)
             /\ \A k \in 1..Len(q2[i].text) : w[q2[i].to][at2[i - 1][q2[i].to] + k] = q2[i].text[k]
  <2>1. i + 1 \in 1..n /\ (i + 1) - 1 = (i - 1) + 1 /\ i \in 0..(n - 1) /\ i - 1 \in 0..(n - 1)
    BY <1>0
  <2>2. q2[i] = q[i + 1] /\ at2[i] = at[i + 1] /\ at2[i - 1] = at[(i + 1) - 1]
    BY <1>1, <1>3, <2>1
  <2>3. \A r \in Stream : at2[i][r] = at2[i - 1][r] + (IF r = q2[i].to THEN Len(q2[i].text) ELSE 0)
    BY <1>2, <2>1, <2>2
  <2>4. \A k \in 1..Len(q2[i].text) : w[q2[i].to][at2[i - 1][q2[i].to] + k] = q2[i].text[k]
    BY <1>2, <2>1, <2>2
  <2> QED BY <2>3, <2>4
<1>7. Flow(q2, w, at2)
  BY <1>1, <1>2, <1>3, <1>4, <1>5, <1>6 DEF Flow
<1>8. 1 \in 1..n /\ 1 \in 0..n /\ 0 \in 0..n /\ 1 - 1 = 0
  BY <1>0
<1>9. s = q[1].to /\ at[0] \in [Stream -> Nat] /\ at[1][s] <= Len(w[s])
  BY <1>0, <1>2, <1>8
<1>10. \A r \in Stream : at[1][r] = at[0][r] + (IF r = s THEN Len(q[1].text) ELSE 0)
  <2>1. \A r \in Stream : at[1][r] = at[1 - 1][r] + (IF r = q[1].to THEN Len(q[1].text) ELSE 0)
    BY <1>2, <1>8
  <2> QED BY <1>8, <1>9, <2>1
<1>11. \A k \in 1..Len(q[1].text) : w[s][at[0][s] + k] = q[1].text[k]
  <2>1. \A k \in 1..Len(q[1].text) : w[q[1].to][at[1 - 1][q[1].to] + k] = q[1].text[k]
    BY <1>2, <1>8
  <2> QED BY <1>8, <1>9, <2>1
<1>12. at[1][s] = at[0][s] + Len(f) /\ \A r \in Stream \ {s} : at[1][r] = at[0][r]
  BY <1>0, <1>9, <1>10
<1> QED BY <1>0, <1>4, <1>7, <1>9, <1>11, <1>12

LEMMA FlowOpen ==
  ASSUME written \in Places, NEW q, OpenedWith(q)
  PROVE  \E at : Flow(q, written, at) /\ at[0] = [s \in Stream |-> 0]
<1> DEFINE n == Len(q)
           Shown(i, s) == \E j \in 1..i : q[j].to = s
           at == [i \in 0..n |-> [s \in Stream |-> IF Shown(i, s) THEN Len(written[s]) ELSE 0]]
<1>0. q \in Seq(Frames) /\ n \in Nat /\ \A s \in Stream : Len(written[s]) \in Nat
  BY DEF OpenedWith, Places, Text
<1>1. /\ \A i \in 1..n : q[i].to \in Stream /\ q[i].text = written[q[i].to]
      /\ \A i, j \in 1..n : q[i].to = q[j].to => i = j
      /\ \A s \in Stream : written[s] # <<>> => Shown(n, s)
  <2>1. \A i \in 1..n : q[i].to \in Stream
    BY <1>0, FrameAt
  <2> QED BY <2>1 DEF OpenedWith
<1>2. \A s \in Stream : ~Shown(0, s)
  BY <1>0
<1>3. ASSUME NEW i \in 1..n
      PROVE  /\ Shown(i, q[i].to) /\ ~Shown(i - 1, q[i].to)
             /\ \A s \in Stream : s # q[i].to => (Shown(i, s) <=> Shown(i - 1, s))
  <2>1. i \in 1..i /\ i \notin 1..(i - 1) /\ 1..(i - 1) \subseteq 1..n
    BY <1>0
  <2>2. \A j \in 1..i : j = i \/ j \in 1..(i - 1)
    BY <1>0
  <2>3. 1..(i - 1) \subseteq 1..i
    BY <1>0
  <2> QED BY <1>1, <2>1, <2>2, <2>3
<1> HIDE DEF Shown
<1>4. at \in [0..n -> [Stream -> Nat]]
      /\ \A i \in 0..n, s \in Stream : at[i][s] = IF Shown(i, s) THEN Len(written[s]) ELSE 0
  BY <1>0
<1>5. at[0] = [s \in Stream |-> 0]
  BY <1>0, <1>2
<1> HIDE DEF at
<1>6. \A i \in 0..n, s \in Stream : at[i][s] <= Len(written[s])
  BY <1>0, <1>4
<1>7. \A s \in Stream : at[n][s] = Len(written[s])
  <2>1. Len(<<>>) = 0 /\ n \in 0..n
    BY <1>0, EmptySeq
  <2> QED BY <1>1, <1>4, <2>1
<1>8. ASSUME NEW i \in 1..n
      PROVE  /\ \A r \in Stream : at[i][r] = at[i - 1][r] + (IF r = q[i].to THEN Len(q[i].text) ELSE 0)
             /\ \A k \in 1..Len(q[i].text) : written[q[i].to][at[i - 1][q[i].to] + k] = q[i].text[k]
  <2>1. i \in 0..n /\ i - 1 \in 0..n
    BY <1>0
  <2>2. q[i].to \in Stream /\ q[i].text = written[q[i].to] /\ Len(q[i].text) \in Nat
    BY <1>0, <1>1
  <2>3. at[i][q[i].to] = Len(q[i].text) /\ at[i - 1][q[i].to] = 0
    BY <1>3, <1>4, <2>1, <2>2
  <2>4. \A s \in Stream : s # q[i].to => at[i][s] = at[i - 1][s]
    BY <1>3, <1>4, <2>1
  <2>6. \A r \in Stream : at[i][r] = at[i - 1][r] + (IF r = q[i].to THEN Len(q[i].text) ELSE 0)
    <3>1. \A r \in Stream : at[i - 1][r] \in Nat
      BY <1>4, <2>1
    <3> QED BY <2>2, <2>3, <2>4, <3>1
  <2>7. ASSUME NEW k \in 1..Len(q[i].text) PROVE written[q[i].to][at[i - 1][q[i].to] + k] = q[i].text[k]
    <3>1. at[i - 1][q[i].to] + k = k
      BY <2>3
    <3>2. written[q[i].to] = q[i].text
      BY <2>2
    <3> QED BY <3>1, <3>2
  <2> QED BY <2>6, <2>7
<1>9. Flow(q, written, at)
  BY <1>4, <1>6, <1>7, <1>8 DEF Flow
<1> QED BY <1>5, <1>9

\* Only the runner writes, and only the reader finds the marker.
LEMMA WrittenSteps ==
  ASSUME Next
  PROVE  \/ UNCHANGED <<written, printed>>
         \/ \E s \in Stream, chunk \in Chunks : WriteChunk(s, chunk)
<1>1. BeginStart \/ Create \/ StartContainer \/ Undo \/ Cancel \/ RemoveInstance \/ BeginWatch \/ WaitInstance \/ Exit =>
         UNCHANGED <<written, printed>>
  BY DEF BeginStart, Create, StartContainer, Undo, Cancel, RemoveInstance, BeginWatch, WaitInstance, Exit, runner
<1>2. Reader \/ StreamBreaks \/ Tick \/ Expire => UNCHANGED <<written, printed>>
  BY DEF Reader, StreamEnds, StreamBreaks, Read, ReaderDone, Tick, Expire, runner
<1>3. WaitReady => UNCHANGED <<written, printed>>
  BY DEF WaitReady, CloseStream, BeginWait, Inspect, OpenLogs, SeeDone, SeeMarker, SeeFinished, SeeTick, Inspected,
         Return, runner
<1> QED BY <1>1, <1>2, <1>3 DEF Next

LEMMA MarkerSteps ==
  ASSUME Types, Next
  PROVE  /\ wait'.marker = wait.marker \/ Read
         /\ wait'.marked = wait.marked \/ SeeMarker
<1>0. wait \in Waits
  BY DEF Types
<1>1. CASE UNCHANGED wait
  BY <1>1
<1>2. CASE BeginWait \/ Inspect \/ SeeMarker \/ SeeFinished \/ SeeTick \/ Return \/ Read \/ ReaderDone \/ Tick \/ Expire
  BY <1>0, <1>2, WaitSteps DEF Keeps, WaitFields
<1>3. CASE OpenLogs
  BY <1>3, OpenLogsSteps DEF Concludes, Keeps, WaitFields
<1>4. CASE Inspected
  BY <1>0, <1>4, InspectedSteps DEF Concludes, Keeps, WaitFields
<1>5. CASE SeeDone
  BY <1>0, <1>5, SeeDoneSteps DEF Concludes, Keeps
<1> QED BY <1>1, <1>2, <1>3, <1>4, <1>5, Changers DEF WaitChangers

\* The reader never knows of a marker that is not there, and once all is read it knows
\* of every one.
LEMMA LogStep ==
  ASSUME Types, ReaderInv, FirstInv, LogInv, Next PROVE LogInv'
<1>0. /\ wait \in Waits /\ log \in Seq(Frames) /\ written \in Places /\ tail \in Places
      /\ \A s \in Stream : Len(tail[s]) < Len(Marker)
  BY DEF Types, TypeOK, Places
<1>1. SUFFICES ASSUME stream' = "open"
               PROVE  \E at : /\ Flow(log', written', at)
                              /\ \A s \in Stream : KeptOf(tail'[s], written'[s], at[0][s])
                              /\ wait'.marker <=> \E s \in Stream : Found(written'[s], at[0][s])
  BY DEF LogInv, Flow, KeptOf, Found, Occurs
<1>2. ASSUME NEW s \in Stream, NEW c \in Chunks, WriteChunk(s, c)
      PROVE  \E at : /\ Flow(log', written', at)
                     /\ \A r \in Stream : KeptOf(tail'[r], written'[r], at[0][r])
                     /\ wait'.marker <=> \E r \in Stream : Found(written'[r], at[0][r])
  <2> DEFINE frame == [to |-> s, text |-> c]
  <2>1. /\ stream = "open" /\ log' = Append(log, frame) /\ written' = [written EXCEPT ![s] = written[s] \o c]
        /\ UNCHANGED <<tail, wait>>
    BY <1>1, <1>2 DEF WriteChunk
  <2>2. PICK at : /\ Flow(log, written, at)
                  /\ \A r \in Stream : KeptOf(tail[r], written[r], at[0][r])
                  /\ wait.marker <=> \E r \in Stream : Found(written[r], at[0][r])
    BY <2>1 DEF LogInv
  <2>3. c \in Text /\ frame \in Frames /\ frame.to = s /\ frame.text = c
    BY DockerAssumption DEF Text, Frames
  <2> HIDE DEF frame
  <2>4. PICK at2 : Flow(log', written', at2) /\ at2[0] = at[0]
    <3>1. PICK q2, w2 : q2 = log' /\ w2 = written'
      OBVIOUS
    <3>2. w2[s] = written[s] \o c /\ \A r \in Stream \ {s} : w2[r] = written[r]
      BY <1>0, <2>1, <3>1 DEF Places
    <3>3. OneMore(log, written, at, frame, q2, w2)
      <4>1. w2 \in Places
        BY <3>1, TextTypes DEF Places
      <4> QED BY <1>0, <2>1, <2>2, <2>3, <3>1, <3>2, <4>1 DEF OneMore
    <3>4. \E at2 : Flow(q2, w2, at2) /\ at2[0] = at[0]
      BY <3>3, FlowWrite
    <3> QED BY <3>1, <3>4
  <2>5. ASSUME NEW r \in Stream
        PROVE  /\ KeptOf(tail'[r], written'[r], at[0][r])
               /\ Found(written'[r], at[0][r]) <=> Found(written[r], at[0][r])
    <3>1. written[r] \in Text /\ tail[r] \in Text /\ tail'[r] = tail[r] /\ 0 \in 0..Len(log)
      BY <1>0, <2>1 DEF Places
    <3>2. at[0][r] \in Nat /\ at[0][r] <= Len(written[r])
      BY <2>2, <3>1 DEF Flow
    <3>3. CASE r = s
      <4>1. written'[r] = written[r] \o c
        BY <1>0, <2>1, <3>3 DEF Places
      <4> QED BY <2>2, <2>3, <3>1, <3>2, <4>1, Growth
    <3>4. CASE r # s
      BY <1>0, <2>1, <2>2, <3>1, <3>4 DEF Places
    <3> QED BY <3>3, <3>4
  <2>6. Flow(log', written', at2)
    BY <2>1, <2>4
  <2>7. wait'.marker <=> \E r \in Stream : Found(written'[r], at2[0][r])
    BY <2>1, <2>2, <2>4, <2>5
  <2>8. \A r \in Stream : KeptOf(tail'[r], written'[r], at2[0][r])
    BY <2>4, <2>5
  <2> QED BY <2>6, <2>7, <2>8
<1>3. CASE Read
  <2> DEFINE s == Head(log).to
             f == Head(log).text
  <2>1. /\ stream = "open" /\ log # <<>> /\ log' = Tail(log) /\ UNCHANGED written
        /\ tail' = [tail EXCEPT ![s] = Kept(tail[s] \o f)]
    BY <1>3 DEF Read, WriterOf, runner
  <2>2. wait'.marker <=> wait.marker \/ HasMarker(tail[s] \o f)
    BY <1>0, <1>3, WaitSteps
  <2>3. PICK at : /\ Flow(log, written, at)
                  /\ \A r \in Stream : KeptOf(tail[r], written[r], at[0][r])
                  /\ wait.marker <=> \E r \in Stream : Found(written[r], at[0][r])
    BY <2>1 DEF LogInv
  <2>4. s \in Stream /\ f \in Text /\ Len(f) \in Nat
    <3>1. Head(log) = log[1] /\ 1 \in 1..Len(log)
      BY <1>0, <2>1, EmptySeq
    <3> QED BY <1>0, <3>1, FrameAt
  <2>5. /\ \E at2 : Flow(log', written, at2) /\ at2[0] = at[1]
        /\ at[0] \in [Stream -> Nat]
        /\ at[1][s] = at[0][s] + Len(f)
        /\ \A r \in Stream \ {s} : at[1][r] = at[0][r]
        /\ at[1][s] <= Len(written[s])
        /\ \A k \in 1..Len(f) : written[s][at[0][s] + k] = f[k]
    <3>1. PICK p, q2 : p = f /\ q2 = log'
      OBVIOUS
    <3>2. OneLess(log, written, at, s, p, q2)
      BY <1>0, <2>1, <2>3, <2>4, <3>1 DEF OneLess
    <3>3. /\ \E at2 : Flow(q2, written, at2) /\ at2[0] = at[1]
          /\ at[0] \in [Stream -> Nat]
          /\ at[1][s] = at[0][s] + Len(p)
          /\ \A r \in Stream \ {s} : at[1][r] = at[0][r]
          /\ at[1][s] <= Len(written[s])
          /\ \A k \in 1..Len(p) : written[s][at[0][s] + k] = p[k]
      BY <3>2, FlowRead
    <3> QED BY <3>1, <3>3
  <2>6. PICK at2 : Flow(log', written, at2) /\ at2[0] = at[1]
    BY <2>5
  <2> HIDE DEF s, f
  <2>7. /\ Found(written[s], at[1][s]) <=> Found(written[s], at[0][s]) \/ HasMarker(tail[s] \o f)
        /\ KeptOf(tail'[s], written[s], at[1][s])
    <3> PICK n : n = at[0][s]
      OBVIOUS
    <3>1. n \in Nat /\ at[1][s] = n + Len(f)
      BY <2>4, <2>5
    <3>2. written[s] \in Text /\ tail[s] \in Text /\ Len(tail[s]) < Len(Marker) /\ KeptOf(tail[s], written[s], n)
      BY <1>0, <2>3, <2>4 DEF Places
    <3>3. n + Len(f) <= Len(written[s]) /\ \A k \in 1..Len(f) : written[s][n + k] = f[k]
      BY <2>5, <3>1
    <3>4. tail'[s] = Kept(tail[s] \o f)
      BY <1>0, <2>1, <2>4 DEF Places
    <3>5. /\ Found(written[s], n + Len(f)) <=> Found(written[s], n) \/ HasMarker(tail[s] \o f)
          /\ KeptOf(Kept(tail[s] \o f), written[s], n + Len(f))
      BY <2>4, <3>1, <3>2, <3>3, ReadOn
    <3> QED BY <3>1, <3>4, <3>5
  <2>8. ASSUME NEW r \in Stream, r # s
        PROVE  at[1][r] = at[0][r] /\ tail'[r] = tail[r]
    <3>1. at[0][r] \in Nat
      BY <2>5
    <3> QED BY <1>0, <2>1, <2>4, <2>5, <2>8, <3>1 DEF Places
  <2>9. \A r \in Stream : KeptOf(tail'[r], written'[r], at2[0][r])
    <3>1. written' = written /\ at2[0] = at[1]
      BY <2>1, <2>6
    <3>2. \A r \in Stream : KeptOf(tail'[r], written[r], at[1][r])
      BY <2>3, <2>7, <2>8
    <3> QED BY <3>1, <3>2
  <2>10. wait'.marker <=> \E r \in Stream : Found(written'[r], at2[0][r])
    <3>1. written' = written /\ at2[0] = at[1]
      BY <2>1, <2>6
    <3>2. (\E r \in Stream : Found(written[r], at[1][r]))
          <=> (\E r \in Stream : Found(written[r], at[0][r])) \/ HasMarker(tail[s] \o f)
      BY <2>4, <2>7, <2>8
    <3> QED BY <2>2, <2>3, <3>1, <3>2
  <2> QED BY <2>1, <2>6, <2>9, <2>10
<1>4. CASE OpenLogs
  <2>1. stream = "none" /\ tail = [s \in Stream |-> <<>>] /\ UNCHANGED <<written, tail>>
    BY <1>4 DEF OpenLogs, ReaderInv, runner
  <2>2. OpenedWith(log')
    BY <1>1, <1>4, <2>1, OpenedLog
  <2>3. ~wait'.marker
    BY <1>4, OpenLogsSteps, MarkerSteps DEF FirstInv, Read, OpenLogs, ReaderInv
  <2> PICK q : q = log'
    OBVIOUS
  <2>4. PICK at : Flow(q, written, at) /\ at[0] = [s \in Stream |-> 0]
    BY <1>0, <2>2, FlowOpen
  <2>5. ASSUME NEW s \in Stream
        PROVE  KeptOf(tail[s], written[s], at[0][s]) /\ ~Found(written[s], at[0][s])
    <3>1. at[0][s] = 0 /\ tail[s] = <<>> /\ Len(<<>>) = 0 /\ Len(written[s]) \in Nat
      BY <1>0, <2>1, <2>4, EmptySeq DEF Places, Text
    <3>2. KeptOf(tail[s], written[s], at[0][s])
      BY <3>1 DEF KeptOf
    <3>3. Len(Marker) \in Nat /\ Len(Marker) > 0
      BY MarkerFacts
    <3>4. ~Found(written[s], at[0][s])
      BY <3>1, <3>3 DEF Found, Occurs
    <3> QED BY <3>2, <3>4
  <2> QED BY <2>1, <2>3, <2>4, <2>5
<1>5. CASE UNCHANGED written /\ UNCHANGED <<log, stream, tail>> /\ wait'.marker = wait.marker
  BY <1>1, <1>5 DEF LogInv
<1>6. ReaderDone => stream' # "open"
  BY DEF ReaderDone
<1>7. StreamEnds \/ StreamBreaks \/ CloseStream => stream' # "open"
  BY DEF StreamEnds, StreamBreaks, CloseStream
<1>8. UNCHANGED reading => UNCHANGED <<log, stream, tail>> /\ (Read => FALSE)
  <2>1. Read => Tail(log) = log' /\ log # <<>>
    BY DEF Read
  <2>2. log # <<>> => Len(Tail(log)) = Len(log) - 1 /\ Len(log) \in Nat
    BY <1>0, EmptySeq, HeadTailProperties
  <2> QED BY <2>1, <2>2 DEF reading
<1> QED BY <1>1, <1>2, <1>3, <1>4, <1>5, <1>6, <1>7, <1>8, Changers, WrittenSteps, MarkerSteps DEF StreamChangers

-----------------------------------------------------------------------------
(***************************************************************************)
(* What WaitReady knows is so.                                             *)
(***************************************************************************)

LEMMA PrintedStep ==
  ASSUME Types, KnownInv, Next
  PROVE  /\ printed' <= now' /\ seen' <= now' /\ seen <= seen' /\ now <= now'
         /\ printed # Never => printed' = printed
         /\ printed' # Never <=> \E s \in Stream : HasMarker(written'[s])
<1>0. /\ now \in 0..Timeout /\ printed \in Instants /\ seen \in Instants /\ Timeout \in Nat /\ Never = -1
      /\ Instants \subseteq Int /\ written \in [Stream -> Text] /\ printed <= now /\ seen <= now
      /\ printed # Never <=> \E s \in Stream : HasMarker(written[s])
  BY InstantFacts DEF Types, TypeOK, Instants, KnownInv
<1>1. printed' <= now' /\ seen' <= now' /\ seen <= seen' /\ now <= now'
  <2>1. now' \in Int /\ now <= now' /\ seen' \in {seen, now} /\ printed' \in {printed, now}
    BY <1>0, Times
  <2>2. seen \in Int /\ printed \in Int /\ now \in Int
    BY <1>0
  <2> QED BY <1>0, <2>1, <2>2
<1>2. ASSUME NEW s \in Stream, NEW c \in Chunks, WriteChunk(s, c)
      PROVE  /\ printed # Never => printed' = printed
             /\ printed' # Never <=> \E r \in Stream : HasMarker(written'[r])
  <2>1. /\ written' = [written EXCEPT ![s] = written[s] \o c]
        /\ printed' = IF printed = Never /\ HasMarker(written'[s]) THEN now ELSE printed
    BY <1>2 DEF WriteChunk
  <2>2. written'[s] = written[s] \o c /\ \A r \in Stream : r # s => written'[r] = written[r]
    BY <1>0, <2>1
  <2>3. c \in Text /\ written[s] \in Text
    BY <1>0, DockerAssumption DEF Text
  <2>4. HasMarker(written[s]) => HasMarker(written[s] \o c)
    BY <2>3, Growth
  <2>5. HasMarker(written[s]) => HasMarker(written'[s])
    BY <2>2, <2>4
  <2>6. now # Never
    BY <1>0
  <2> QED BY <1>0, <2>1, <2>2, <2>5, <2>6
<1>3. CASE UNCHANGED <<written, printed>>
  <2>1. printed' # Never <=> \E s \in Stream : HasMarker(written'[s])
    BY <1>0, <1>3
  <2> QED BY <1>1, <1>3, <2>1
<1> QED BY <1>1, <1>2, <1>3, WrittenSteps

\* A started container that ends does not come back.
LEMMA GoneStays ==
  ASSUME Types, Next, start = "done"
  PROVE  /\ start' = "done"
         /\ container \in {"none", "exited"} => container' \in {"none", "exited"}
         /\ container' = "running" => container = "running"
<1>1. CASE UNCHANGED <<container, calls, cancelled>>
  BY <1>1 DEF calls
<1>2. CASE BeginStart \/ Create \/ StartContainer \/ Undo
  BY <1>2 DEF BeginStart, Create, StartContainer, Undo
<1>3. CASE Cancel \/ Exit
  BY <1>3 DEF Cancel, Exit, runner, calls
<1>4. CASE RemoveInstance
  <2>1. container' \in {container, "none"} /\ start' = start
    BY <1>4 DEF RemoveInstance
  <2> QED BY <2>1
<1>5. CASE BeginWatch \/ WaitInstance
  BY <1>5 DEF BeginWatch, WaitInstance, runner
<1> QED BY <1>1, <1>2, <1>3, <1>4, <1>5, Movers

Gone == container \in {"none", "exited"}

LEMMA GoneStep ==
  ASSUME Types, StartInv, FirstInv, KnownInv, Next
  PROVE  wait'.answer = "stopped" \/ wait'.verdict = "exited" \/ watch' = "exited" => container' \in {"none", "exited"}
<1>0. /\ wait \in Waits /\ container \in {"none", "created", "running", "exited"}
      /\ wait.answer = "stopped" \/ wait.verdict = "exited" \/ watch = "exited" => Gone
  BY DEF Types, TypeOK, KnownInv, Gone
<1>1. CASE start # "done"
  <2>1. wait.at = "idle" /\ watch = "idle" /\ wait = NotWaiting
    BY <1>1 DEF StartInv, FirstInv
  <2>2. ~BeginWait /\ ~BeginWatch /\ ~WaitInstance /\ ~Inspect /\ ~OpenLogs /\ ~SeeDone /\ ~Inspected /\ ~SeeTick /\ ~Return
    BY <1>1, <2>1 DEF BeginWait, BeginWatch, WaitInstance, Inspect, OpenLogs, SeeDone, Inspected, SeeTick, Return
  <2>3. watch' = watch
    BY <2>1, <2>2, Movers DEF BeginStart, Create, StartContainer, Undo, Cancel, RemoveInstance, Exit, calls
  <2>4. wait'.answer = wait.answer /\ wait'.verdict = wait.verdict
    <3>1. CASE UNCHANGED wait
      BY <3>1
    <3>2. CASE SeeMarker \/ SeeFinished \/ Read \/ ReaderDone \/ Tick \/ Expire
      BY <1>0, <3>2, WaitSteps DEF Keeps, WaitFields
    <3> QED BY <2>2, <3>1, <3>2, Changers DEF WaitChangers
  <2> QED BY <2>1, <2>3, <2>4 DEF NotWaiting
<1>2. CASE start = "done"
  <2>1. Gone => container' \in {"none", "exited"}
    BY <1>2, GoneStays DEF Gone
  <2>2. watch' = "exited" => watch = "exited" \/ container' \in {"none", "exited"}
    <3>1. CASE WaitInstance
      <4>1. \A reply : Watched(reply) = "exited" => reply \in {"not_running", "not_found"}
        BY DEF Watched
      <4>2. container' = container /\ (watch' = "exited" => container \in {"none", "exited"})
        BY <3>1, <4>1 DEF WaitInstance, runner
      <4> QED BY <4>2
    <3>2. CASE UNCHANGED watch
      BY <3>2
    <3>3. CASE BeginWatch
      BY <3>3 DEF BeginWatch
    <3> QED BY <3>1, <3>2, <3>3, Movers DEF BeginStart, Create, StartContainer, Undo, Cancel, RemoveInstance, Exit, calls
  <2>3. wait'.verdict = "exited" => wait.verdict = "exited" \/ wait.answer = "stopped"
    <3>1. OpenLogs /\ wait'.at = "closing" => wait.answer = "stopped"
      BY OpenLogsSteps
    <3>2. Inspected /\ wait'.at = "closing" /\ wait'.verdict = "exited" => wait.answer = "stopped"
      BY <1>0, InspectedSteps
    <3> QED BY <3>1, <3>2, AtSteps
  <2>4. wait'.answer = "stopped" => wait.answer = "stopped" \/ Gone
    <3>1. CASE UNCHANGED wait
      BY <3>1
    <3>2. CASE BeginWait \/ SeeMarker \/ SeeFinished \/ SeeTick \/ Return \/ Read \/ ReaderDone \/ Tick \/ Expire
      BY <1>0, <3>2, WaitSteps DEF Keeps, WaitFields
    <3>3. CASE OpenLogs \/ SeeDone
      BY <1>0, <3>3, OpenLogsSteps, SeeDoneSteps DEF Concludes
    <3>4. CASE Inspected
      BY <1>0, <3>4, InspectedSteps DEF Concludes
    <3>5. CASE Inspect
      <4>1. Answer = "stopped" => Gone
        BY <1>0, <1>2 DEF Answer, Gone, StartInv
      <4> QED BY <3>5, <4>1, InspectSteps
    <3> QED BY <3>1, <3>2, <3>3, <3>4, <3>5, Changers DEF WaitChangers
  <2> QED BY <1>0, <2>1, <2>2, <2>3, <2>4
<1> QED BY <1>1, <1>2

LEMMA KnownStep ==
  ASSUME Types, StartInv, ReaderInv, FirstInv, KnownInv, LogInv, Next PROVE KnownInv'
<1>0. /\ wait \in Waits /\ now \in 0..Timeout /\ Timeout \in Nat /\ Settle \in Nat /\ Never = -1
      /\ printed \in Int /\ seen \in Int /\ wait.marked \in Int /\ now \in Int
  BY InstantFacts DEF Types, TypeOK, Instants, Waits
<1>1. /\ wait' \in Waits /\ now' \in Int /\ printed' \in Int /\ seen' \in Int /\ wait'.marked \in Int
      /\ written' \in [Stream -> Text]
  <2>1. Types'
    BY NextTypes
  <2> QED BY <2>1, InstantFacts DEF Types, TypeOK, Instants, Waits
<1>2. /\ printed' <= now' /\ seen' <= now' /\ seen <= seen' /\ now <= now'
      /\ printed # Never => printed' = printed
      /\ printed' # Never <=> \E s \in Stream : HasMarker(written'[s])
  BY PrintedStep
<1>3. wait'.marker => printed' # Never
  <2>1. CASE wait'.marker = wait.marker
    BY <1>2, <2>1 DEF KnownInv
  <2>2. CASE Read
    <3>1. stream' = "open" /\ LogInv'
      BY <2>2, LogStep DEF Read
    <3>2. PICK at : /\ Flow(log', written', at)
                    /\ wait'.marker <=> \E s \in Stream : Found(written'[s], at[0][s])
      BY <3>1 DEF LogInv, Flow, KeptOf, Found, Occurs
    <3>3. ASSUME NEW s \in Stream, Found(written'[s], at[0][s]) PROVE HasMarker(written'[s])
      <4>1. log' \in Seq(Frames)
        BY TextTypes
      <4>2. Len(log') \in Nat /\ 0 \in 0..Len(log')
        BY <4>1
      <4>3. at[0][s] \in Nat /\ at[0][s] <= Len(written'[s])
        BY <3>2, <4>2 DEF Flow
      <4>4. written'[s] \in Text
        BY <1>1
      <4> PICK t : t = written'[s]
        OBVIOUS
      <4>5. HasMarker(t)
        BY <3>3, <4>3, <4>4, FoundAll
      <4> QED BY <4>5
    <3> QED BY <1>2, <3>2, <3>3
  <2> QED BY <2>1, <2>2, MarkerSteps
<1>4. wait'.marked # Never => wait'.marker /\ printed' <= wait'.marked /\ wait'.marked <= now'
  <2>1. wait.marker => wait'.marker
    BY <1>0, MarkerSteps, WaitSteps
  <2>2. CASE wait'.marked = wait.marked
    <3>1. wait.marked # Never => wait.marker /\ printed # Never /\ printed <= wait.marked /\ wait.marked <= now
      BY DEF KnownInv
    <3> QED BY <1>0, <1>1, <1>2, <2>1, <2>2, <3>1
  <2>3. CASE SeeMarker
    <3>1. wait'.marked = now /\ wait.marker /\ now' = now
      BY <1>0, <2>3, WaitSteps DEF SeeMarker
    <3>2. printed # Never /\ printed <= now
      BY <3>1 DEF KnownInv
    <3> QED BY <1>0, <1>1, <1>2, <2>1, <3>1, <3>2
  <2> QED BY <2>2, <2>3, MarkerSteps
<1>5. wait'.at = "inspect" /\ wait'.answer = "running" => wait'.marked <= seen'
  <2>1. SUFFICES ASSUME wait'.at = "inspect", wait'.answer = "running" PROVE wait'.marked <= seen'
    OBVIOUS
  <2>2. wait.marked # Never => wait.marked <= now
    BY DEF KnownInv
  <2>3. CASE Inspect
    <3>1. container = "running" /\ seen' = now
      BY <2>1, <2>3, InspectSteps DEF Answer
    <3>2. wait'.marked = wait.marked
      BY <2>3, MarkerSteps DEF Inspect, SeeMarker
    <3> QED BY <1>0, <2>2, <3>1, <3>2
  <2>4. CASE wait.at = "inspect" /\ wait.answer = "running" /\ wait'.marked = wait.marked
    <3>1. wait.marked <= seen
      BY <2>4 DEF KnownInv
    <3> QED BY <1>0, <1>1, <1>2, <2>4, <3>1
  <2>5. wait.at = "inspect" \/ (SeeTick /\ wait.at = "select")
    BY <2>1, AtSteps
  <2>6. ~SeeTick
    <3>1. SUFFICES ASSUME SeeTick PROVE FALSE
      OBVIOUS
    <3>2. wait'.answer = wait.answer /\ wait.at = "select"
      BY <1>0, <3>1, WaitSteps DEF Keeps, WaitFields, SeeTick
    <3> QED BY <2>1, <3>2 DEF FirstInv
  <2>7. wait.at = "inspect" => wait'.marked = wait.marked
    BY MarkerSteps DEF SeeMarker
  <2>8. wait.at = "inspect" => wait.answer = "running" \/ Inspect
    <3>1. CASE UNCHANGED wait
      BY <2>1, <3>1
    <3>2. CASE BeginWait \/ SeeMarker \/ SeeFinished \/ SeeTick \/ Return \/ Read \/ ReaderDone \/ Tick \/ Expire
      BY <1>0, <2>1, <3>2, WaitSteps DEF Keeps, WaitFields
    <3>3. CASE OpenLogs \/ SeeDone \/ Inspected
      BY <1>0, <2>1, <3>3, OpenLogsSteps, SeeDoneSteps, InspectedSteps DEF Concludes
    <3> QED BY <3>1, <3>2, <3>3, Changers DEF WaitChangers
  <2> QED BY <2>3, <2>4, <2>5, <2>6, <2>7, <2>8
<1>6. wait'.verdict = "ready" => printed' # Never /\ seen' >= printed' /\ now' >= printed' + Settle
  <2>1. SUFFICES ASSUME wait'.verdict = "ready" PROVE printed' # Never /\ seen' >= printed' /\ now' >= printed' + Settle
    OBVIOUS
  <2>2. CASE wait.verdict = "ready"
    <3>1. printed # Never /\ seen >= printed /\ now >= printed + Settle
      BY <2>2 DEF KnownInv, ReadyMeansListening
    <3> QED BY <1>0, <1>1, <1>2, <3>1
  <2>3. CASE wait.verdict # "ready"
    <3>1. Inspected
      BY <2>1, <2>3, AtSteps
    <3>2. wait.at = "inspect" /\ wait.answer = "running" /\ Settled(wait.marked)
      <4>1. \/ wait'.verdict = wait.verdict
            \/ wait'.verdict = "exited"
            \/ wait.at = "inspect" /\ wait.answer = "running" /\ Settled(wait.marked)
        BY <1>0, <3>1, InspectedSteps DEF Keeps, WaitFields
      <4> QED BY <2>1, <2>3, <4>1
    <3>3. /\ wait.marked # Never /\ now - wait.marked >= Settle /\ wait.marked <= seen
          /\ printed # Never /\ printed <= wait.marked
      BY <3>2 DEF Settled, KnownInv
    <3> QED BY <1>0, <1>1, <1>2, <3>3
  <2> QED BY <2>2, <2>3
<1>7. wait'.answer = "stopped" \/ wait'.verdict = "exited" \/ watch' = "exited" => container' \in {"none", "exited"}
  BY GoneStep
<1> QED BY <1>2, <1>3, <1>4, <1>5, <1>6, <1>7 DEF KnownInv, ReadyMeansListening, HasMarker

-----------------------------------------------------------------------------
(***************************************************************************)
(* In time.  While nothing fails, each tick is dealt with before the next: *)
(* so the marker is seen at the instant it is there, and the first tick    *)
(* once Settle has passed ends the wait.                                   *)
(***************************************************************************)

LEMMA GoodBefore ==
  ASSUME Types, StartInv, Next, Good', wait'.at # "idle"
  PROVE  Good /\ start = "done"
<1>0. wait \in Waits /\ faults \in Nat /\ faults' \in Nat /\ faults <= faults' /\ cancelled \in BOOLEAN
  <2>1. MaxFaults \in Nat /\ faults \in 0..MaxFaults /\ faults' \in 0..MaxFaults /\ faults <= faults'
    BY InstantFacts, FaultsKept DEF Types
  <2> QED BY <2>1 DEF Types
<1>1. start = "done"
  <2>1. wait.at # "idle" \/ BeginWait
    BY AtSteps
  <2> QED BY <2>1 DEF StartInv, BeginWait
<1>2. faults = 0 /\ container = "running"
  BY <1>0, <1>1, GoneStays DEF Good
<1>3. ~cancelled
  BY <1>0, Movers DEF Good, calls, BeginStart, Create, StartContainer, Undo, Cancel, RemoveInstance, BeginWatch,
     WaitInstance, Exit
<1>4. ~wait.expired
  <2>1. wait.expired => wait'.expired
    <3>1. CASE UNCHANGED wait
      BY <3>1
    <3>2. CASE BeginWait \/ Inspect \/ SeeMarker \/ SeeFinished \/ SeeTick \/ Return \/ Read \/ ReaderDone \/ Tick \/ Expire
      BY <1>0, <3>2, WaitSteps DEF Keeps, WaitFields
    <3>3. CASE OpenLogs \/ SeeDone \/ Inspected
      BY <1>0, <3>3, OpenLogsSteps, SeeDoneSteps, InspectedSteps DEF Concludes, Keeps, WaitFields
    <3> QED BY <3>1, <3>2, <3>3, Changers DEF WaitChangers
  <2> QED BY <2>1 DEF Good
<1> QED BY <1>1, <1>2, <1>3, <1>4 DEF Good

\* A tick that counts as no fault found nothing to do.
LEMMA GoodTick == ASSUME Types, Tick, Good' PROVE Idle
<1>1. faults \in Nat /\ faults' = 0
  BY InstantFacts DEF Types, Good
<1> QED BY <1>1 DEF Tick, Fault

\* Before there is a stream.
LEMMA FirstTimely ==
  ASSUME Types, StartInv, ReaderInv, FirstInv, TimelyInv, Next, Good', wait'.at = "first"
  PROVE  now' = 0 /\ wait'.answer \in {"none", "running"}
<1>0. wait \in Waits /\ Good /\ faults' = 0
  BY GoodBefore DEF Types, Good
<1>1. CASE BeginWait
  BY <1>0, <1>1, WaitSteps DEF BeginWait, FirstInv, NotWaiting, Keeps, WaitFields
<1>2. CASE wait.at = "first"
  <2>1. now = 0 /\ wait.answer \in {"none", "running"} /\ reader = "none"
    BY <1>0, <1>2 DEF TimelyInv, ReaderInv
  <2>2. ~Tick
    BY <1>2, GoodTick DEF Idle
  <2>3. now' = 0
    BY <2>1, <2>2, Times
  <2>4. CASE Inspect
    <3>1. ~Over /\ Answer = "running"
      BY <1>0 DEF Over, Good, Answer
    <3>2. wait'.answer = "running"
      BY <1>0, <2>4, <3>1, InspectSteps
    <3> QED BY <2>3, <3>2
  <2>5. CASE UNCHANGED wait
    BY <2>1, <2>3, <2>5
  <2>6. CASE Expire
    BY <1>0, <2>1, <2>3, <2>6, WaitSteps DEF Keeps, WaitFields
  <2>7. ~SeeDone /\ ~SeeMarker /\ ~SeeFinished /\ ~SeeTick /\ ~Inspected /\ ~Return /\ ~Read /\ ~ReaderDone
    BY <1>2, <2>1 DEF SeeDone, SeeMarker, SeeFinished, SeeTick, Inspected, Return, Read, ReaderDone
  <2>8. ~OpenLogs /\ ~BeginWait
    BY <1>2, OpenLogsSteps DEF Concludes, BeginWait
  <2> QED BY <2>2, <2>4, <2>5, <2>6, <2>7, <2>8, Changers DEF WaitChangers
<1> QED BY <1>1, <1>2, AtSteps

\* The stream opens at once.
LEMMA OpensTimely ==
  ASSUME Types, StartInv, FirstInv, TimelyInv, Next, Good', ~Waiting, wait'.at \in {"select", "inspect"}
  PROVE  /\ now' = 0 /\ printed' = printed /\ stream' = "open" /\ ~wait'.unavailable /\ ~wait'.finished
         /\ wait'.answer = "none" /\ wait'.marked = Never
<1>0. wait \in Waits /\ Good /\ faults' = 0
  BY GoodBefore DEF Types, Good
<1>1. OpenLogs /\ wait.at = "first"
  BY AtSteps DEF Waiting
<1>2. now = 0 /\ wait.answer \in {"none", "running"} /\ now' = now /\ printed' = printed
  BY <1>0, <1>1 DEF TimelyInv, OpenLogs, runner
<1>3. ~Over
  BY <1>0 DEF Over, Good
<1> QED BY <1>0, <1>1, <1>2, <1>3, OpenLogsSteps DEF FirstInv, Keeps, WaitFields, Concludes

LEMMA Steady ==
  ASSUME Types, ReaderInv, FirstInv, TimelyInv, Next, Good, Good', Waiting, wait'.at \in {"select", "inspect"}
  PROVE  /\ stream' = "open" /\ ~wait'.unavailable /\ ~wait'.finished /\ wait'.answer \in {"none", "running"}
         /\ \/ Tick /\ Idle /\ wait'.tick
            \/ SeeTick /\ wait'.at = "inspect"
            \/ wait.at = "inspect" /\ wait.answer = "running" /\ ~Settled(wait.marked)
            \/ now' = now /\ wait'.tick = wait.tick /\ wait'.at = wait.at
<1>0. wait \in Waits /\ faults' = 0 /\ faults \in Nat /\ ~Over
  BY InstantFacts DEF Types, Good, Over
<1>1. stream = "open" /\ ~wait.unavailable /\ ~wait.finished /\ wait.answer \in {"none", "running"}
  BY DEF TimelyInv
<1>2. ~StreamEnds /\ ~StreamBreaks /\ ~CloseStream /\ ~ReaderDone
  <2>1. ~Fault
    BY <1>0 DEF Fault
  <2> QED BY <1>0, <1>1, <2>1 DEF StreamEnds, StreamBreaks, CloseStream, ReaderDone, Good, Waiting
<1>3. ~BeginWait /\ ~OpenLogs /\ ~SeeDone /\ ~SeeFinished /\ ~Return /\ ~Expire
  <2>1. ~Expire
    BY <1>0, WaitSteps DEF Good
  <2> QED BY <1>0, <1>1, <2>1 DEF BeginWait, OpenLogs, SeeDone, SeeFinished, Return, Waiting
<1>4. stream' = "open"
  <2>1. Read \/ (\E s \in Stream, c \in Chunks : WriteChunk(s, c)) => stream' = stream
    BY DEF Read, WriteChunk
  <2> QED BY <1>1, <1>2, <1>3, <2>1, Changers DEF StreamChangers, reading
<1>5. CASE UNCHANGED wait
  <2>1. now' = now \/ Tick
    BY Times
  <2>2. CASE Tick
    BY <1>0, <1>1, <1>4, <1>5, <2>2, GoodTick, WaitSteps DEF Waiting
  <2> QED BY <1>1, <1>4, <1>5, <2>1, <2>2
<1>6. CASE Inspect
  <2>1. wait'.answer = "running" /\ now' = now
    BY <1>0, <1>6, InspectSteps DEF Answer, Good, Inspect
  <2> QED BY <1>0, <1>1, <1>4, <1>6, <2>1, WaitSteps DEF Keeps, WaitFields
<1>7. CASE SeeMarker \/ Read
  <2>1. now' = now
    BY <1>7 DEF SeeMarker, Read
  <2> QED BY <1>0, <1>1, <1>4, <1>7, <2>1, WaitSteps DEF Keeps, WaitFields
<1>8. CASE SeeTick
  BY <1>0, <1>1, <1>4, <1>8, WaitSteps DEF Keeps, WaitFields
<1>9. CASE Inspected
  BY <1>0, <1>1, <1>4, <1>9, InspectedSteps DEF Keeps, WaitFields, Concludes
<1>10. CASE Tick
  BY <1>0, <1>1, <1>4, <1>10, GoodTick, WaitSteps DEF Keeps, WaitFields, Waiting
<1> QED BY <1>2, <1>3, <1>5, <1>6, <1>7, <1>8, <1>9, <1>10, Changers DEF WaitChangers

\* Once all is read, the marker is known exactly when it is there.
LEMMA AllRead ==
  ASSUME Types, KnownInv, LogInv, stream = "open", log = <<>>
  PROVE  wait.marker <=> printed # Never
<1>1. PICK at : /\ Flow(log, written, at)
                /\ wait.marker <=> \E s \in Stream : Found(written[s], at[0][s])
  BY DEF LogInv
<1>2. Len(log) = 0
  BY EmptySeq
<1>3. ASSUME NEW s \in Stream PROVE Found(written[s], at[0][s]) <=> HasMarker(written[s])
  <2>1. at[0][s] = Len(written[s])
    BY <1>1, <1>2 DEF Flow
  <2>2. written[s] \in Text /\ Len(written[s]) \in Nat
    BY DEF Types, Text
  <2> PICK t, n : t = written[s] /\ n = Len(t)
    OBVIOUS
  <2>3. Found(t, n) <=> HasMarker(t)
    BY <2>2, FoundAll
  <2> QED BY <2>1, <2>3
<1> QED BY <1>1, <1>3 DEF KnownInv

LEMMA MarkedTimely ==
  ASSUME Types, ReaderInv, FirstInv, KnownInv, LogInv, TimelyInv, Next, Good, Good', Waiting,
         wait'.at \in {"select", "inspect"}, printed' # Never, printed' < now'
  PROVE  printed' = printed /\ wait'.marked = printed
<1>0. /\ wait \in Waits /\ now \in Int /\ printed \in Int /\ wait.marked \in Int /\ printed <= now
      /\ stream = "open" /\ faults' = 0
  BY InstantFacts DEF Types, TypeOK, Instants, Waits, KnownInv, TimelyInv, Good
<1>1. printed' = printed
  <2>1. printed' = printed \/ (printed' = now /\ now' = now)
    BY Times DEF WriteChunk
  <2> QED BY <1>0, <2>1
<1>2. CASE printed < now
  <2>1. wait.marked = printed
    BY <1>1, <1>2 DEF TimelyInv
  <2>2. ~SeeMarker
    BY <1>1, <2>1 DEF SeeMarker
  <2> QED BY <1>1, <2>1, <2>2, MarkerSteps
<1>3. CASE printed = now
  <2>1. Tick
    BY <1>0, <1>1, <1>3, Times
  <2>2. Idle
    BY <2>1, GoodTick
  <2>3. wait.marker
    BY <1>0, <1>1, <2>2, AllRead DEF Idle
  <2>4. wait.marked # Never /\ printed <= wait.marked /\ wait.marked <= now
    BY <2>2, <2>3 DEF Idle, KnownInv
  <2>5. wait'.marked = wait.marked
    BY <1>0, <2>1, WaitSteps DEF Keeps, WaitFields
  <2> QED BY <1>0, <1>1, <1>3, <2>4, <2>5
<1> QED BY <1>0, <1>2, <1>3

LEMMA TimelyStep ==
  ASSUME Types, StartInv, ReaderInv, FirstInv, KnownInv, LogInv, TimelyInv, Next PROVE TimelyInv'
<1>0. /\ now \in Int /\ printed \in Int /\ printed <= now /\ Settle \in Nat /\ (printed # Never => printed >= 0)
  BY InstantFacts DEF Types, TypeOK, Instants, KnownInv
<1>1. SUFFICES ASSUME Good', wait'.at \in {"select", "inspect"}
               PROVE  /\ stream' = "open" /\ ~wait'.unavailable /\ ~wait'.finished
                      /\ wait'.answer \in {"none", "running"}
                      /\ printed' # Never /\ printed' < now' => wait'.marked = printed'
                      /\ printed' # Never /\ printed' < now' /\ printed' + Settle <= now' =>
                            now' \in {printed' + 1, printed' + Settle} /\ (wait'.tick \/ wait'.at = "inspect")
  BY FirstTimely DEF TimelyInv, Waiting
<1>2. CASE ~Waiting
  <2>1. /\ now' = 0 /\ printed' = printed /\ stream' = "open" /\ ~wait'.unavailable /\ ~wait'.finished
        /\ wait'.answer = "none"
    BY <1>1, <1>2, OpensTimely
  <2> QED BY <1>0, <2>1
<1>3. CASE Waiting
  <2>0. Good
    BY <1>1, GoodBefore
  <2>1. /\ stream' = "open" /\ ~wait'.unavailable /\ ~wait'.finished /\ wait'.answer \in {"none", "running"}
        /\ \/ Tick /\ Idle /\ wait'.tick
           \/ SeeTick /\ wait'.at = "inspect"
           \/ wait.at = "inspect" /\ wait.answer = "running" /\ ~Settled(wait.marked)
           \/ now' = now /\ wait'.tick = wait.tick /\ wait'.at = wait.at
    BY <1>1, <1>3, <2>0, Steady
  <2>2. printed' # Never /\ printed' < now' => printed' = printed /\ wait'.marked = printed
    BY <1>1, <1>3, <2>0, MarkedTimely
  <2>3. ASSUME printed' # Never, printed' < now', printed' + Settle <= now'
        PROVE  now' \in {printed' + 1, printed' + Settle} /\ (wait'.tick \/ wait'.at = "inspect")
    <3>0. printed' = printed
      BY <2>2, <2>3
    <3>1. printed < now /\ printed + Settle <= now =>
             now \in {printed + 1, printed + Settle} /\ (wait.tick \/ wait.at = "inspect") /\ wait.marked = printed
      BY <1>3, <2>0, <2>3, <3>0 DEF TimelyInv
    <3>2. CASE Tick /\ Idle /\ wait'.tick
      <4>1. now' = now + 1
        BY <3>2 DEF Tick
      <4>2. ~(printed < now /\ printed + Settle <= now)
        BY <3>1, <3>2 DEF Idle
      <4> QED BY <1>0, <2>3, <3>0, <3>2, <4>1, <4>2
    <3>3. CASE SeeTick /\ wait'.at = "inspect"
      <4>1. now' = now
        BY <3>3 DEF SeeTick
      <4> QED BY <2>3, <3>0, <3>1, <3>3, <4>1
    <3>4. CASE wait.at = "inspect" /\ wait.answer = "running" /\ ~Settled(wait.marked)
      <4>1. ~Tick
        BY <1>1, <3>4, GoodTick DEF Idle
      <4>2. now' = now
        BY <4>1, Times
      <4>3. wait.marked = printed
        BY <2>3, <3>0, <3>1, <4>2
      <4>4. Settled(wait.marked)
        BY <1>0, <2>3, <3>0, <4>2, <4>3 DEF Settled
      <4> QED BY <3>4, <4>4
    <3>5. CASE now' = now /\ wait'.tick = wait.tick /\ wait'.at = wait.at
      BY <2>3, <3>0, <3>1, <3>5
    <3> QED BY <2>1, <3>2, <3>3, <3>4, <3>5
  <2> QED BY <2>1, <2>2, <2>3
<1> QED BY <1>2, <1>3

\* Time is up only for a runner that was not early.
LEMMA LateStep ==
  ASSUME Types, StartInv, ReaderInv, FirstInv, KnownInv, LogInv, TimelyInv, LateInv, Next PROVE LateInv'
<1>0. /\ wait \in Waits /\ now \in Int /\ printed \in Int /\ printed <= now /\ now <= Timeout
      /\ Settle \in Nat /\ Timeout \in Nat /\ Timeout > 0 /\ Never = -1
      /\ faults \in Nat /\ faults' \in Nat /\ faults <= faults' /\ cancelled \in BOOLEAN
  <2>1. MaxFaults \in Nat /\ faults \in 0..MaxFaults /\ faults' \in 0..MaxFaults /\ faults <= faults'
    BY InstantFacts, FaultsKept DEF Types
  <2> QED BY <2>1, InstantFacts DEF Types, TypeOK, Instants, KnownInv
<1>1. now = Timeout => now' = now
  BY <1>0, Times
<1>2. now = Timeout /\ printed' + Settle + 2 <= Timeout => printed' = printed
  <2>1. printed' = printed \/ printed' = now
    BY Times
  <2> QED BY <1>0, <2>1
<1>3. faults' = 0 /\ ~cancelled' /\ container' = "running" /\ start = "done" =>
         faults = 0 /\ ~cancelled /\ container = "running"
  <2>1. ASSUME ~cancelled' PROVE ~cancelled
    BY <1>0, <2>1, Movers DEF calls, BeginStart, Create, StartContainer, Undo, Cancel, RemoveInstance, BeginWatch,
       WaitInstance, Exit
  <2>2. faults' = 0 => faults = 0
    BY <1>0
  <2> QED BY <2>1, <2>2, GoneStays
<1>4. wait'.at # "idle" => start = "done"
  <2>1. wait'.at # "idle" => wait.at # "idle" \/ BeginWait
    BY AtSteps
  <2> QED BY <2>1 DEF StartInv, BeginWait
<1>5. wait'.expired => wait.expired \/ Expire
  <2>1. CASE UNCHANGED wait
    BY <2>1
  <2>2. CASE BeginWait \/ Inspect \/ SeeMarker \/ SeeFinished \/ SeeTick \/ Return \/ Read \/ ReaderDone \/ Tick
    BY <1>0, <2>2, WaitSteps DEF Keeps, WaitFields
  <2>3. CASE OpenLogs \/ SeeDone \/ Inspected
    BY <1>0, <2>3, OpenLogsSteps, SeeDoneSteps, InspectedSteps DEF Concludes, Keeps, WaitFields
  <2> QED BY <2>1, <2>2, <2>3, Changers DEF WaitChangers
<1>6. ASSUME faults' = 0, ~cancelled', container' = "running", wait'.expired, Early',
             wait'.at \in {"first", "select", "inspect"}
      PROVE  FALSE
  <2>1. faults = 0 /\ ~cancelled /\ container = "running" /\ wait.at # "idle"
    <3>1. wait.at # "idle"
      <4>1. wait.at = "idle" => ~wait.expired /\ now = 0 /\ ~Expire
        BY <1>0 DEF FirstInv, NotWaiting, Expire
      <4> QED BY <1>5, <1>6, <4>1
    <3> QED BY <1>3, <1>4, <1>6, <3>1
  <2>2. now = Timeout
    BY <1>5, <1>6 DEF FirstInv, Expire
  <2>3. Early /\ printed' = printed
    BY <1>2, <1>6, <2>2 DEF Early
  <2>4. CASE wait.expired
    <3>1. ~Waiting /\ wait.at # "first"
      BY <2>1, <2>3, <2>4 DEF LateInv
    <3> QED BY <1>6, <2>1, <3>1, AtSteps DEF Waiting
  <2>5. CASE Expire /\ ~wait.expired
    <3>1. Good /\ wait'.at = wait.at
      BY <1>0, <2>1, <2>5, WaitSteps DEF Good, Keeps, WaitFields
    <3>2. wait.at # "first"
      BY <1>0, <2>2, <3>1 DEF TimelyInv
    <3>3. Waiting
      BY <1>6, <3>1, <3>2 DEF Waiting
    <3>4. printed # Never /\ printed < now /\ printed + Settle <= now /\ printed + Settle + 2 <= now
      BY <1>0, <2>2, <2>3 DEF Early
    <3>5. now \in {printed + 1, printed + Settle}
      BY <3>1, <3>3, <3>4 DEF TimelyInv
    <3> QED BY <1>0, <3>4, <3>5
  <2> QED BY <1>5, <1>6, <2>4, <2>5
<1>7. wait'.verdict \in {"timeout", "unavailable"} =>
         \/ wait.verdict \in {"timeout", "unavailable"}
         \/ SeeDone /\ wait.at = "select" /\ ~cancelled /\ wait.expired
  <2>1. SeeDone /\ wait'.verdict \in {"timeout", "unavailable"} => ~cancelled /\ wait.expired
    BY <1>0, SeeDoneSteps DEF Over
  <2> QED BY <2>1, AtSteps
<1>8. wait'.verdict \in {"timeout", "unavailable"} => now = Timeout
  BY <1>7 DEF LateInv, FirstInv
<1>9. ASSUME printed' # Never, printed' + Settle + 2 <= Timeout, faults' = 0,
             wait'.verdict \in {"timeout", "unavailable"}, container' = "running"
      PROVE  FALSE
  <2>1. now = Timeout /\ printed' = printed /\ faults = 0
    BY <1>0, <1>2, <1>8, <1>9
  <2>2. wait.at # "idle" /\ start = "done"
    <3>1. wait.at # "idle"
      BY <1>7, <1>9 DEF FirstInv, Returning
    <3> QED BY <3>1 DEF StartInv
  <2>3. container = "running"
    BY <1>9, <2>2, GoneStays
  <2>4. CASE wait.verdict \in {"timeout", "unavailable"}
    BY <1>9, <2>1, <2>3, <2>4 DEF LateInv, ListeningIsSeen
  <2>5. CASE wait.at = "select" /\ ~cancelled /\ wait.expired
    BY <1>9, <2>1, <2>3, <2>5 DEF LateInv, Early, Waiting
  <2> QED BY <1>7, <1>9, <2>4, <2>5
<1>10. wait'.verdict \in {"timeout", "unavailable"} => now' = Timeout
  BY <1>1, <1>8
<1> QED BY <1>6, <1>9, <1>10 DEF LateInv, ListeningIsSeen, Waiting, Early

-----------------------------------------------------------------------------
(***************************************************************************)
(* The theorems.                                                           *)
(***************************************************************************)

LEMMA InitInv == Init => IInv
<1> SUFFICES ASSUME Init PROVE IInv
  OBVIOUS
<1>0. /\ Timeout \in Nat /\ MaxFaults \in Nat /\ Len(Marker) \in Nat /\ Len(Marker) > 0
      /\ <<>> \in Text /\ <<>> \in Seq(Frames) /\ Len(<<>>) = 0 /\ Never \in Instants /\ Never = -1
  BY InstantFacts, MarkerFacts, EmptySeq DEF Text
<1>1. wait \in Waits /\ wait.verdict = "none" /\ wait.at = "idle" /\ wait.marked = Never /\ ~wait.marker
      /\ wait.answer = "none" /\ ~wait.expired
  BY <1>0 DEF Init, NotWaiting, Waits
<1>2. Types
  <2>1. /\ written \in [Stream -> Text] /\ tail \in [Stream -> Text] /\ log \in Seq(Frames)
        /\ \A s \in Stream : Len(tail[s]) < Len(Marker)
    BY <1>0 DEF Init
  <2>2. /\ lease \in BOOLEAN /\ cancelled \in BOOLEAN /\ faults \in 0..MaxFaults /\ now \in 0..Timeout
        /\ printed \in 0..Timeout \cup {Never} /\ seen \in 0..Timeout \cup {Never}
    <3>1. now = 0 /\ printed = Never /\ seen = Never /\ faults = 0
      BY DEF Init
    <3>2. lease \in BOOLEAN /\ cancelled \in BOOLEAN
      BY DEF Init
    <3>3. 0 \in 0..MaxFaults /\ 0 \in 0..Timeout
      BY <1>0
    <3> QED BY <3>1, <3>2, <3>3
  <2> QED BY <1>1, <2>1, <2>2 DEF Init, Types, TypeOK
<1>3. StartInv /\ ReaderInv /\ FirstInv /\ LogInv
  BY <1>0, <1>1 DEF Init, StartInv, ReaderInv, FirstInv, LogInv, Returning
<1>4. \A s \in Stream : ~HasMarker(written[s])
  <2>1. ~HasMarker(<<>>)
    BY <1>0 DEF HasMarker
  <2> QED BY <2>1 DEF Init
<1>5. KnownInv
  BY <1>0, <1>1, <1>4 DEF Init, KnownInv, ReadyMeansListening
<1>6. TimelyInv /\ LateInv
  BY <1>0, <1>1 DEF Init, TimelyInv, LateInv, ListeningIsSeen, Waiting, Good
<1> QED BY <1>2, <1>3, <1>5, <1>6 DEF IInv

LEMMA StutterInv ==
  ASSUME IInv, UNCHANGED vars PROVE IInv'
<1>1. /\ UNCHANGED <<container, start, lease, cancelled, removal, watch>>
      /\ UNCHANGED <<now, written, printed, log, stream, reader, tail, wait, seen, faults>>
  BY DEF vars
<1> QED BY <1>1 DEF IInv, Types, TypeOK, StartInv, LeftBy, ReaderInv, MayReturn, FirstInv, KnownInv, ReadyMeansListening,
           LogInv, TimelyInv, Good, Waiting, LateInv, Early, ListeningIsSeen

\* The invariant: the caller holds the capacity while it starts and runs the container; the
\* stream and its reader come and go together; what readyMarkerWriter keeps is the end of what
\* it was given, so that it knows of the marker exactly when the runner has written it, however
\* the daemon cuts and interleaves the frames; and while nothing fails each tick of the poll
\* finds the marker seen and ends the wait as soon as readySettle has passed.
THEOREM Inductive == Spec => []IInv
<1>1. Init => IInv
  BY InitInv
<1>2. IInv /\ [Next]_vars => IInv'
  <2>1. ASSUME IInv, Next PROVE IInv'
    BY <2>1, NextTypes, StartStep, ReaderStep, FirstStep, KnownStep, LogStep, TimelyStep, LateStep DEF IInv
  <2> QED BY <2>1, StutterInv
<1> QED BY <1>1, <1>2, PTL DEF Spec

\* WaitReady reports a runner ready only when one of its streams held the whole marker and
\* readySettle has passed with the container running; it and WaitInstance report an exit only
\* of a container that runs no more; and a runner that said in time that it listens is not
\* given up on a host without faults: for every marker and every cut of the output.
THEOREM VerdictIsTrueHolds == Spec => []VerdictIsTrue
<1>1. IInv => VerdictIsTrue
  BY DEF IInv, Types, KnownInv, LateInv, VerdictIsTrue, ExitIsReal
<1> QED BY <1>1, Inductive, PTL

\* In whatever order requests fail, take effect all the same or are cut short by the caller
\* (StartInstance, RemoveInstance), a container is without capacity only after a start that
\* failed, which takes one failure for a container that never ran and two for one that did,
\* unless the caller gave up.
THEOREM CapacityCoversHolds == Spec => []CapacityCovers
<1>1. IInv => CapacityCovers
  BY DEF IInv, Types, TypeOK, StartInv, LeftBy, CapacityCovers
<1> QED BY <1>1, Inductive, PTL
============================================================================
