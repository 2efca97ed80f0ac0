---------------------------- MODULE UsageProofs ----------------------------
(***************************************************************************)
(* Proofs about UsageBody for every content of the documents, every limit, *)
(* every way of cutting a body and every way it ends.                      *)
(***************************************************************************)
EXTENDS UsageBody, SequenceTheorems, WellFoundedInduction, TLAPS

Fields ==
    {"streaming", "format", "hooks", "finished", "terminalSeen", "terminalNotified",
     "evidenceNotified", "candidate", "candidateValid", "candidateInvalid", "jsonBody",
     "capacity", "jsonLimited", "line", "eventData", "eventLimited", "eventHasData",
     "usages", "evidences", "terminals"}

\* An observer record whose buffers hold symbols, within their limits; the JSON
\* text is within what has been reserved for it.
Buffers(x) ==
    /\ x = [f \in Fields |-> x[f]]
    /\ x.line \in Seq(Symbols) /\ Len(x.line) <= SSELimit
    /\ x.eventData \in Seq(Symbols) /\ Len(x.eventData) <= SSELimit
    /\ x.jsonBody \in Seq(Symbols) /\ Len(x.jsonBody) <= x.capacity
    /\ x.capacity \in Nat /\ x.capacity <= MaxJSON

Most(x, hook) == IF hook \in x.hooks THEN 1 ELSE 0

\* The terminal callback is made at most once, and is remembered.
TerminalOnce(x) ==
    /\ x.terminals \in Nat
    /\ x.terminals <= Most(x, "terminal")
    /\ ~x.terminalNotified => x.terminals = 0

\* Nothing has been reported.
Silent(x) == x.usages = <<>> /\ x.evidences = <<>> /\ ~x.evidenceNotified

\* The report has been made.
Told(x) == Len(x.usages) <= Most(x, "usage") /\ Len(x.evidences) <= Most(x, "evidence")

\* What holds of the observer between two calls: nothing is reported before
\* Finish, and Finish reports once.
Good(x) == Buffers(x) /\ TerminalOnce(x) /\ (IF x.finished THEN Told(x) ELSE Silent(x))

\* The parts of an observer that no call changes.
Same(x, y) == y.hooks = x.hooks /\ y.streaming = x.streaming

\* What a call that reports nothing keeps.
Quiet(x, y) ==
    /\ Same(x, y) /\ y.finished = x.finished
    /\ y.usages = x.usages /\ y.evidences = x.evidences
    /\ y.evidenceNotified = x.evidenceNotified

----------------------------------------------------------------------------
(* The doubling loop of observeJSON *)

\* Every non-empty set of naturals has a least element: the form of induction the
\* lemmas on recursive functions use.
LEMMA LeastNat ==
    ASSUME NEW T, T \subseteq Nat, T # {}
    PROVE  \E x \in T : \A y \in T : x <= y
<1>. DEFINE R == OpToRel(<, Nat)
<1>1. IsWellFoundedOn(R, Nat)
    BY NatLessThanWellFounded, Zenon
<1>2. PICK x \in T : \A y \in T : ~(<<y, x>> \in R)
    BY <1>1, WFMin
<1>3. \A y \in T : ~(y < x)
    BY <1>2 DEF OpToRel
<1>. QED  BY <1>3

\* The loop's function, on some of the capacities; and the function Grown uses.
Doubles(f, D, required) ==
    f = [c \in D |-> IF c >= required THEN c
                     ELSE IF c >= MaxJSON \div 2 THEN MaxJSON
                     ELSE f[2 * c]]
GrowFcn(required) == CHOOSE f : Doubles(f, Nat, required)

\* Grown starts the loop at the capacity, or at one.
LEMMA GrownStart ==
    ASSUME NEW capacity, NEW required
    PROVE  Grown(capacity, required) = GrowFcn(required)[IF capacity = 0 THEN 1 ELSE capacity]
BY DEF Grown, GrowFcn, Doubles

\* The capacities at most k short of what is required, and zero, which doubling
\* never leaves.
Near(required, k) == {c \in Nat : c = 0 \/ c + k >= required}

\* The loop has a result from each of them: the one k + 1 short doubles into one
\* at most k short.
LEMMA DoublesExists ==
    ASSUME NEW required \in Nat, NEW n0 \in Nat
    PROVE  \E f : Doubles(f, Near(required, n0), required)
<1>. DEFINE Bad == {k \in Nat : ~\E f : Doubles(f, Near(required, k), required)}
<1>1. SUFFICES ASSUME Bad # {} PROVE FALSE
    OBVIOUS
<1>2. PICK k \in Bad : \A j \in Bad : k <= j
    BY <1>1, LeastNat
<1>. DEFINE H == MaxJSON \div 2
<1>3. H \in Nat /\ H >= 1
    BY MaxJSONIsNumber
<1>. HIDE DEF H
<1>4. CASE k = 0
  <2>. DEFINE f == [c \in Near(required, k) |-> c]
  <2>1. \A c \in Near(required, k) :
          f[c] = IF c >= required THEN c ELSE IF c >= H THEN MaxJSON ELSE f[2 * c]
    BY <1>3, <1>4 DEF Near
  <2>2. f = [c \in Near(required, k) |-> f[c]]
    OBVIOUS
  <2>. HIDE DEF f
  <2>3. Doubles(f, Near(required, k), required)
    BY <2>1, <2>2 DEF Doubles, H
  <2>. QED  BY <2>3
<1>5. CASE k # 0
  <2>1. k - 1 \in Nat /\ k - 1 \notin Bad
    BY <1>2, <1>5
  <2>2. PICK g : Doubles(g, Near(required, k - 1), required)
    BY <2>1
  <2>. DEFINE D == Near(required, k)
              C == Near(required, k - 1)
              f == [c \in D |-> IF c \in C THEN g[c]
                                ELSE IF c >= H THEN MaxJSON ELSE g[2 * c]]
  <2>3. \A c \in C : g[c] = IF c >= required THEN c ELSE IF c >= H THEN MaxJSON ELSE g[2 * c]
    BY <2>2 DEF Doubles, H
  <2>4. C \subseteq D
    BY <2>1 DEF Near
  <2>5. \A c \in C : f[c] = g[c]
    BY <2>4
  <2>6. \A c \in D : 2 * c \in C
    BY <2>1 DEF Near
  <2>7. \A c \in D : c \notin C => ~(c >= required)
    BY <2>1 DEF Near
  <2>8. \A c \in C : 2 * c \in C
    BY <2>4, <2>6
  <2>. HIDE DEF C
  <2>9. \A c \in D :
          f[c] = IF c >= required THEN c ELSE IF c >= H THEN MaxJSON ELSE f[2 * c]
    <3>. SUFFICES ASSUME NEW c \in D
                  PROVE  f[c] = IF c >= required THEN c
                                ELSE IF c >= H THEN MaxJSON ELSE f[2 * c]
      OBVIOUS
    <3>1. f[2 * c] = g[2 * c]
      BY <2>5, <2>6, Zenon
    <3>2. f[c] = IF c \in C THEN g[c] ELSE IF c >= H THEN MaxJSON ELSE g[2 * c]
      BY Zenon
    <3>. HIDE DEF f, D
    <3>. QED  BY <2>3, <2>7, <3>1, <3>2
  <2>10. f = [c \in D |-> f[c]]
    OBVIOUS
  <2>. HIDE DEF f
  <2>11. Doubles(f, D, required)
    BY <2>9, <2>10 DEF Doubles, H
  <2>. QED  BY <2>11
<1>. QED  BY <1>4, <1>5

\* One round of the loop.
LEMMA GrowSteps ==
    ASSUME NEW required \in Nat
    PROVE  \A c \in Nat :
             GrowFcn(required)[c] = IF c >= required THEN c
                                    ELSE IF c >= MaxJSON \div 2 THEN MaxJSON
                                    ELSE GrowFcn(required)[2 * c]
<1>1. Near(required, required) = Nat
    BY DEF Near
<1>2. \E f : Doubles(f, Nat, required)
    BY <1>1, DoublesExists
<1>3. Doubles(GrowFcn(required), Nat, required)
    BY <1>2, Zenon DEF GrowFcn
<1>. DEFINE f == GrowFcn(required)
<1>. HIDE DEF f
<1>4. Doubles(f, Nat, required)
    BY <1>3 DEF f
<1>5. \A c \in Nat : f[c] = IF c >= required THEN c
                            ELSE IF c >= MaxJSON \div 2 THEN MaxJSON ELSE f[2 * c]
    BY <1>4 DEF Doubles
<1>. QED  BY <1>5 DEF f

\* From a capacity of at least one and at most the limit, the loop ends with one
\* that holds what is required and is at most the limit.
LEMMA GrowFits ==
    ASSUME NEW required \in Nat, required <= MaxJSON
    PROVE  \A c \in 1..MaxJSON :
             /\ GrowFcn(required)[c] \in Nat
             /\ required <= GrowFcn(required)[c] /\ GrowFcn(required)[c] <= MaxJSON
<1>. DEFINE f == GrowFcn(required)
            Fits(c) == f[c] \in Nat /\ required <= f[c] /\ f[c] <= MaxJSON
            H == MaxJSON \div 2
            Bad == {k \in Nat : k < MaxJSON /\ ~Fits(MaxJSON - k)}
<1>0. MaxJSON \in Nat /\ H \in Nat /\ 2 * H <= MaxJSON
    BY MaxJSONIsNumber
<1>1. \A c \in Nat : f[c] = IF c >= required THEN c ELSE IF c >= H THEN MaxJSON ELSE f[2 * c]
    BY GrowSteps
<1>. HIDE DEF f, H
<1>2. SUFFICES ASSUME NEW b \in 1..MaxJSON, ~Fits(b) PROVE FALSE
    BY DEF f
<1>3. MaxJSON - b \in Bad
    BY <1>0, <1>2
<1>4. Bad \subseteq Nat /\ Bad # {}
    BY <1>3
<1>5. PICK k \in Bad : \A j \in Bad : k <= j
    BY <1>4, LeastNat
<1>. DEFINE c == MaxJSON - k
<1>6. c \in Nat /\ c >= 1 /\ c <= MaxJSON /\ ~Fits(c)
    BY <1>0, <1>5
<1>7. CASE c >= required
    BY <1>1, <1>6, <1>7
<1>8. CASE ~(c >= required) /\ c >= H
    BY <1>0, <1>1, <1>6, <1>8
<1>9. CASE ~(c >= required) /\ ~(c >= H)
  <2>1. f[c] = f[2 * c]
    BY <1>1, <1>6, <1>9
  <2>2. ~Fits(2 * c)
    BY <1>6, <2>1
  <2>3. 2 * c \in Nat /\ 2 * c <= MaxJSON /\ 2 * c > c
    BY <1>0, <1>6, <1>9
  <2>4. MaxJSON - 2 * c \in Nat /\ MaxJSON - 2 * c < k /\ MaxJSON - 2 * c < MaxJSON
    BY <1>0, <1>5, <1>6, <2>3
  <2>5. MaxJSON - (MaxJSON - 2 * c) = 2 * c
    BY <1>0, <2>3
  <2>6. MaxJSON - 2 * c \in Bad
    BY <2>2, <2>4, <2>5
  <2>. QED  BY <1>5, <2>4, <2>6
<1>. QED  BY <1>7, <1>8, <1>9

\* The capacity observeJSON reserves holds the body, within the limit.
LEMMA GrownFits ==
    ASSUME NEW capacity \in Nat, NEW required \in Nat, capacity <= MaxJSON, required <= MaxJSON
    PROVE  /\ Grown(capacity, required) \in Nat
           /\ required <= Grown(capacity, required)
           /\ Grown(capacity, required) <= MaxJSON
<1>. DEFINE start == IF capacity = 0 THEN 1 ELSE capacity
<1>1. start \in 1..MaxJSON
    BY MaxJSONIsNumber
<1>2. Grown(capacity, required) = GrowFcn(required)[start]
    BY GrownStart
<1>. QED  BY <1>1, <1>2, GrowFits

----------------------------------------------------------------------------
(* The observer's methods *)

\* An empty buffer is a buffer within its limit.
LEMMA EmptyFits == <<>> \in Seq(Symbols) /\ Len(<<>>) = 0 /\ 0 <= SSELimit /\ 0 <= MaxJSON
BY SSELimitIsNumber, MaxJSONIsNumber

\* notifyTerminal makes the callback once.
LEMMA NotifyTerminal ==
    ASSUME NEW x, Buffers(x), TerminalOnce(x)
    PROVE  /\ Buffers(notifyTerminal(x)) /\ TerminalOnce(notifyTerminal(x))
           /\ Quiet(x, notifyTerminal(x))
<1>. DEFINE y == notifyTerminal(x)
<1>1. y = [f \in Fields |-> y[f]]
    BY DEF Buffers, notifyTerminal, Fields
<1>2. /\ y.line = x.line /\ y.eventData = x.eventData /\ y.jsonBody = x.jsonBody
      /\ y.capacity = x.capacity
      /\ Quiet(x, y)
    BY DEF Buffers, notifyTerminal, Fields, Quiet, Same
<1>3. TerminalOnce(y)
    BY DEF Buffers, TerminalOnce, notifyTerminal, Fields, Most
<1>. QED  BY <1>1, <1>2, <1>3 DEF Buffers

\* emit and emitEvidence, on an observer that has reported nothing yet.
LEMMA Report ==
    ASSUME NEW x, Buffers(x), TerminalOnce(x), Silent(x), NEW e
    PROVE  /\ Buffers(report(x, e)) /\ TerminalOnce(report(x, e)) /\ Told(report(x, e))
           /\ Same(x, report(x, e)) /\ report(x, e).finished = x.finished
<1>. DEFINE y == IF e.outcome = "available" THEN emit(x, e.usage) ELSE x
            z == emitEvidence(y, e)
<1>1. /\ y = [f \in Fields |-> y[f]]
      /\ y.line = x.line /\ y.eventData = x.eventData /\ y.jsonBody = x.jsonBody
      /\ y.capacity = x.capacity
      /\ Same(x, y) /\ y.finished = x.finished
      /\ y.terminals = x.terminals /\ y.terminalNotified = x.terminalNotified
      /\ y.evidences = <<>> /\ ~y.evidenceNotified
    BY DEF Buffers, emit, Fields, Same, Silent
<1>2. Len(y.usages) <= Most(x, "usage")
    BY DEF Buffers, emit, Fields, Silent, Most
<1>3. /\ z = [f \in Fields |-> z[f]]
      /\ z.line = y.line /\ z.eventData = y.eventData /\ z.jsonBody = y.jsonBody
      /\ z.capacity = y.capacity
      /\ Same(y, z) /\ z.finished = y.finished /\ z.usages = y.usages
      /\ z.terminals = y.terminals /\ z.terminalNotified = y.terminalNotified
    BY <1>1 DEF emitEvidence, Fields, Same
<1>4. Len(z.evidences) <= Most(x, "evidence")
    BY <1>1 DEF emitEvidence, Fields, Most, Same
<1>5. Buffers(z) /\ TerminalOnce(z)
    BY <1>1, <1>3 DEF Buffers, TerminalOnce, Most, Same
<1>6. report(x, e) = notifyTerminal(z)
    BY DEF report
<1>7. Quiet(z, notifyTerminal(z)) /\ Buffers(notifyTerminal(z)) /\ TerminalOnce(notifyTerminal(z))
    BY <1>5, NotifyTerminal
<1>. QED  BY <1>1, <1>2, <1>3, <1>4, <1>6, <1>7 DEF Quiet, Told, Same, Most

\* Noting what an event said empties the event and reports nothing.
LEMMA NotedKeeps ==
    ASSUME NEW x, Buffers(x), TerminalOnce(x), NEW e
    PROVE  /\ Buffers(Noted(x, e)) /\ TerminalOnce(Noted(x, e)) /\ Quiet(x, Noted(x, e))
<1>. DEFINE y == Noted(x, e)
<1>1. /\ y = [f \in Fields |-> y[f]]
      /\ y.line = x.line /\ y.eventData = <<>> /\ y.jsonBody = x.jsonBody
      /\ y.capacity = x.capacity
      /\ y.terminals = x.terminals /\ y.terminalNotified = x.terminalNotified
      /\ Quiet(x, y)
    BY DEF Buffers, Noted, Fields, Quiet, Same
<1>. HIDE DEF y
<1>2. Buffers(y)
    BY <1>1, EmptyFits DEF Buffers
<1>3. TerminalOnce(y)
    BY <1>1 DEF TerminalOnce, Most, Quiet, Same
<1>. QED  BY <1>1, <1>2, <1>3 DEF y

\* The end of an event makes no callback but the terminal one.
LEMMA FinishSSEEvent ==
    ASSUME NEW x, Buffers(x), TerminalOnce(x)
    PROVE  /\ Buffers(finishSSEEvent(x)) /\ TerminalOnce(finishSSEEvent(x))
           /\ Quiet(x, finishSSEEvent(x))
<1>. DEFINE data == TrimSpace(x.eventData)
            y == Noted(x, Unavailable)
            z == [y EXCEPT !.terminalSeen = TRUE]
            w == Noted(x, EventEvidence(x, data))
<1>1. Buffers(y) /\ TerminalOnce(y) /\ Quiet(x, y)
    BY NotedKeeps
<1>2. Buffers(w) /\ TerminalOnce(w) /\ Quiet(x, w)
    BY NotedKeeps
<1>3. Buffers(z) /\ TerminalOnce(z) /\ Quiet(y, z)
  <2>. HIDE DEF y
  <2>1. /\ z = [f \in Fields |-> z[f]]
        /\ z.line = y.line /\ z.eventData = y.eventData /\ z.jsonBody = y.jsonBody
        /\ z.capacity = y.capacity
        /\ z.terminals = y.terminals /\ z.terminalNotified = y.terminalNotified
        /\ Quiet(y, z)
    BY <1>1 DEF Buffers, Fields, Quiet, Same
  <2>. QED  BY <1>1, <2>1 DEF Buffers, TerminalOnce, Most, Quiet, Same
<1>4. /\ Buffers(notifyTerminal(z)) /\ TerminalOnce(notifyTerminal(z))
      /\ Quiet(z, notifyTerminal(z))
    BY <1>3, NotifyTerminal
<1>5. finishSSEEvent(x) = notifyTerminal(z) \/ finishSSEEvent(x) = w
    BY DEF finishSSEEvent, finishEvent
<1>. HIDE DEF z, w, y
<1>. QED  BY <1>1, <1>2, <1>3, <1>4, <1>5 DEF Quiet, Same

\* A line is added to the event within the event's limit, or the event is given up.
LEMMA ProcessSSELine ==
    ASSUME NEW x, Buffers(x), TerminalOnce(x)
    PROVE  /\ Buffers(processSSELine(x)) /\ TerminalOnce(processSSELine(x))
           /\ Quiet(x, processSSELine(x))
<1>. DEFINE y == [x EXCEPT !.line = <<>>]
            line == TrimCR(x.line)
            data == DataOf(line)
            z == addData(y, data)
<1>1. /\ y = [f \in Fields |-> y[f]]
      /\ y.line = <<>> /\ y.eventData = x.eventData /\ y.jsonBody = x.jsonBody
      /\ y.capacity = x.capacity
      /\ y.terminals = x.terminals /\ y.terminalNotified = x.terminalNotified
      /\ Quiet(x, y)
    BY DEF Buffers, Fields, Quiet, Same
<1>2. Buffers(y) /\ TerminalOnce(y)
    BY <1>1, SSELimitIsNumber DEF Buffers, TerminalOnce, Most, Quiet, Same
<1>3. Buffers(finishSSEEvent(y)) /\ TerminalOnce(finishSSEEvent(y)) /\ Quiet(y, finishSSEEvent(y))
    BY <1>2, FinishSSEEvent
<1>4. line \in Seq(Symbols)
  <2>. DEFINE s == x.line
  <2>. HIDE DEF s
  <2>1. s \in Seq(Symbols)
    BY DEF Buffers, s
  <2>2. SubSeq(s, 1, Len(s) - 1) \in Seq(Symbols)
    BY <2>1
  <2>. QED  BY <2>1, <2>2 DEF TrimCR, s
<1>5. line # <<>> => data \in Seq(Symbols)
    BY <1>4 DEF DataOf
<1>6. ASSUME line # <<>> PROVE Buffers(z) /\ TerminalOnce(z) /\ Quiet(y, z)
  <2>. HIDE DEF y, data, line
  <2>. DEFINE joined == (IF y.eventHasData THEN <<"nl">> ELSE <<>>) \o data
  <2>1. joined \in Seq(Symbols)
    <3>1. "nl" \in Symbols
      BY DEF Symbols
    <3>2. <<"nl">> \in Seq(Symbols) /\ <<>> \in Seq(Symbols)
      BY <3>1
    <3>3. data \in Seq(Symbols)
      BY <1>5, <1>6
    <3>. QED  BY <3>2, <3>3, ConcatProperties, Zenon
  <2>. HIDE DEF joined
  <2>2. z = IF Len(y.eventData) + Len(joined) > SSELimit
              THEN [y EXCEPT !.eventData = <<>>, !.eventLimited = TRUE]
              ELSE [y EXCEPT !.eventData = @ \o joined, !.eventHasData = TRUE]
    BY DEF addData, joined
  <2>. HIDE DEF z
  <2>3. /\ z = [f \in Fields |-> z[f]]
        /\ z.line = y.line /\ z.jsonBody = y.jsonBody
        /\ z.capacity = y.capacity
        /\ z.terminals = y.terminals /\ z.terminalNotified = y.terminalNotified
        /\ Quiet(y, z)
    BY <1>2, <2>2 DEF Buffers, Fields, Quiet, Same
  <2>4. \/ z.eventData = <<>>
        \/ z.eventData = y.eventData \o joined /\ ~(Len(y.eventData) + Len(joined) > SSELimit)
    BY <1>2, <2>2 DEF Buffers, Fields
  <2>5. y.eventData \in Seq(Symbols)
    BY <1>2 DEF Buffers
  <2>6. /\ y.eventData \o joined \in Seq(Symbols)
        /\ Len(y.eventData \o joined) = Len(y.eventData) + Len(joined)
    BY <2>1, <2>5, ConcatProperties, Zenon
  <2>7. /\ <<>> \in Seq(Symbols) /\ Len(<<>>) <= SSELimit
        /\ Len(y.eventData) \in Nat /\ Len(joined) \in Nat
    BY <2>1, <2>5, SSELimitIsNumber
  <2>8. z.eventData \in Seq(Symbols) /\ Len(z.eventData) <= SSELimit
    <3>1. CASE z.eventData = <<>>
      BY <2>7, <3>1, Zenon
    <3>2. CASE /\ z.eventData = y.eventData \o joined
               /\ ~(Len(y.eventData) + Len(joined) > SSELimit)
      <4>. DEFINE a == Len(y.eventData) + Len(joined)
      <4>1. a \in Nat /\ ~(a > SSELimit)
        BY <2>7, <3>2
      <4>2. a <= SSELimit
        BY <4>1, SSELimitIsNumber
      <4>. QED  BY <2>6, <3>2, <4>2, Zenon
    <3>. QED  BY <2>4, <3>1, <3>2
  <2>. QED  BY <1>2, <2>3, <2>8 DEF Buffers, TerminalOnce, Most, Quiet, Same
<1>7. \/ processSSELine(x) = finishSSEEvent(y)
      \/ processSSELine(x) = y
      \/ line # <<>> /\ processSSELine(x) = z
    BY DEF processSSELine, processLine
<1>. HIDE DEF y, z, line
<1>. QED  BY <1>1, <1>2, <1>3, <1>6, <1>7 DEF Quiet, Same

\* A call that reports nothing keeps what holds between two calls.
LEMMA QuietKeeps ==
    ASSUME NEW x, NEW y, Good(x), Buffers(y), TerminalOnce(y), Quiet(x, y)
    PROVE  Good(y) /\ Same(x, y)
BY DEF Good, Told, Silent, Quiet, Same, Most

\* One symbol of a stream goes into the line while the line has room.
LEMMA ObserveByteKeeps ==
    ASSUME NEW x, Good(x), NEW b \in Symbols
    PROVE  Good(ObserveByte(x, b)) /\ Same(x, ObserveByte(x, b))
           /\ ObserveByte(x, b).finished = x.finished
<1>. DEFINE y == [x EXCEPT !.line = Append(@, b)]
            z == [x EXCEPT !.eventLimited = TRUE]
<1>0. Buffers(x) /\ TerminalOnce(x)
    BY DEF Good
<1>1. Buffers(processSSELine(x)) /\ TerminalOnce(processSSELine(x)) /\ Quiet(x, processSSELine(x))
    BY <1>0, ProcessSSELine
<1>2. ASSUME Len(x.line) < SSELimit
      PROVE  Buffers(y) /\ TerminalOnce(y) /\ Quiet(x, y)
  <2>1. /\ y = [f \in Fields |-> y[f]]
        /\ y.line = Append(x.line, b) /\ y.eventData = x.eventData /\ y.jsonBody = x.jsonBody
        /\ y.capacity = x.capacity
        /\ y.terminals = x.terminals /\ y.terminalNotified = x.terminalNotified
        /\ Quiet(x, y)
    BY <1>0 DEF Buffers, Fields, Quiet, Same
  <2>. DEFINE s == x.line
  <2>. HIDE DEF s, y
  <2>2. s \in Seq(Symbols) /\ Len(s) < SSELimit
    BY <1>0, <1>2 DEF Buffers, s
  <2>3. Append(s, b) \in Seq(Symbols) /\ Len(Append(s, b)) <= SSELimit
    BY <2>2, SSELimitIsNumber
  <2>4. Buffers(y)
    BY <1>0, <2>1, <2>3 DEF Buffers, s
  <2>. QED  BY <1>0, <2>1, <2>4 DEF TerminalOnce, Most, Quiet, Same
<1>3. Buffers(z) /\ TerminalOnce(z) /\ Quiet(x, z)
  <2>1. /\ z = [f \in Fields |-> z[f]]
        /\ z.line = x.line /\ z.eventData = x.eventData /\ z.jsonBody = x.jsonBody
        /\ z.capacity = x.capacity
        /\ z.terminals = x.terminals /\ z.terminalNotified = x.terminalNotified
        /\ Quiet(x, z)
    BY <1>0 DEF Buffers, Fields, Quiet, Same
  <2>. HIDE DEF z
  <2>. QED  BY <1>0, <2>1 DEF Buffers, TerminalOnce, Most, Quiet, Same
<1>4. \/ ObserveByte(x, b) = processSSELine(x)
      \/ Len(x.line) < SSELimit /\ ObserveByte(x, b) = y
      \/ ObserveByte(x, b) = z
    BY DEF ObserveByte
<1>. HIDE DEF y, z
<1>5. /\ Buffers(ObserveByte(x, b)) /\ TerminalOnce(ObserveByte(x, b))
      /\ Quiet(x, ObserveByte(x, b))
    BY <1>1, <1>2, <1>3, <1>4
<1>. QED  BY <1>5, QuietKeeps DEF Quiet

\* A piece of a plain body is kept while the body stays within its limit.
LEMMA ObserveJSONKeeps ==
    ASSUME NEW x, Good(x), NEW c \in Seq(Symbols)
    PROVE  Good(observeJSON(x, c)) /\ Same(x, observeJSON(x, c))
           /\ observeJSON(x, c).finished = x.finished
<1>. DEFINE required == Len(x.jsonBody) + Len(c)
            y == [x EXCEPT !.jsonBody = <<>>, !.capacity = 0, !.jsonLimited = TRUE]
            cap == IF required > x.capacity THEN Grown(x.capacity, required) ELSE x.capacity
            z == [x EXCEPT !.jsonBody = @ \o c, !.capacity = cap]
<1>0. Buffers(x) /\ TerminalOnce(x) /\ Quiet(x, x)
    BY DEF Good, Quiet, Same
<1>1. Buffers(y) /\ TerminalOnce(y) /\ Quiet(x, y)
  <2>1. /\ y = [f \in Fields |-> y[f]]
        /\ y.line = x.line /\ y.eventData = x.eventData /\ y.jsonBody = <<>>
        /\ y.capacity = 0
        /\ y.terminals = x.terminals /\ y.terminalNotified = x.terminalNotified
        /\ Quiet(x, y)
    BY <1>0 DEF Buffers, Fields, Quiet, Same
  <2>. HIDE DEF y
  <2>2. /\ y.jsonBody \in Seq(Symbols) /\ Len(y.jsonBody) <= y.capacity
        /\ y.capacity \in Nat /\ y.capacity <= MaxJSON
    <3>1. 0 \in Nat /\ 0 <= 0
      OBVIOUS
    <3>. QED  BY <2>1, <3>1, EmptyFits, Zenon
  <2>3. Buffers(y)
    BY <1>0, <2>1, <2>2 DEF Buffers
  <2>. QED  BY <1>0, <2>1, <2>3 DEF TerminalOnce, Most, Quiet, Same
<1>2. ASSUME ~(required > MaxJSON) PROVE Buffers(z) /\ TerminalOnce(z) /\ Quiet(x, z)
  <2>. HIDE DEF cap
  <2>1. /\ z = [f \in Fields |-> z[f]]
        /\ z.line = x.line /\ z.eventData = x.eventData /\ z.jsonBody = x.jsonBody \o c
        /\ z.capacity = cap
        /\ z.terminals = x.terminals /\ z.terminalNotified = x.terminalNotified
        /\ Quiet(x, z)
    BY <1>0 DEF Buffers, Fields, Quiet, Same
  <2>. DEFINE s == x.jsonBody
  <2>. HIDE DEF s, z
  <2>2. s \in Seq(Symbols) /\ required = Len(s) + Len(c)
    BY <1>0 DEF Buffers, s
  <2>3. /\ s \o c \in Seq(Symbols) /\ Len(s \o c) = required
        /\ required \in Nat /\ required <= MaxJSON
    BY <1>2, <2>2, MaxJSONIsNumber
  <2>. HIDE DEF required
  <2>4. x.capacity \in Nat /\ x.capacity <= MaxJSON
    BY <1>0 DEF Buffers
  <2>5. cap \in Nat /\ required <= cap /\ cap <= MaxJSON
    <3>. DEFINE k == x.capacity
    <3>. HIDE DEF k
    <3>1. k \in Nat /\ k <= MaxJSON
      BY <2>4 DEF k
    <3>2. cap = IF required > k THEN Grown(k, required) ELSE k
      BY DEF cap, k
    <3>3. Grown(k, required) \in Nat /\ required <= Grown(k, required) /\ Grown(k, required) <= MaxJSON
      BY <2>3, <3>1, GrownFits
    <3>. QED  BY <2>3, <3>1, <3>2, <3>3
  <2>6. Buffers(z)
    BY <1>0, <2>1, <2>3, <2>5 DEF Buffers, s
  <2>. QED  BY <1>0, <2>1, <2>6 DEF TerminalOnce, Most, Quiet, Same
<1>3. \/ observeJSON(x, c) = x
      \/ observeJSON(x, c) = y
      \/ ~(required > MaxJSON) /\ observeJSON(x, c) = z
    BY DEF observeJSON
<1>. HIDE DEF y, z, required
<1>4. /\ Buffers(observeJSON(x, c)) /\ TerminalOnce(observeJSON(x, c))
      /\ Quiet(x, observeJSON(x, c))
    BY <1>0, <1>1, <1>2, <1>3
<1>. QED  BY <1>4, QuietKeeps DEF Quiet

\* Finish reports once, whatever has been observed.
LEMMA FinishKeeps ==
    ASSUME NEW x, Good(x)
    PROVE  Good(Finish(x)) /\ Same(x, Finish(x)) /\ Finish(x).finished
<1>1. CASE x.finished
    BY <1>1 DEF Finish, Same
<1>2. CASE ~x.finished
  <2>. DEFINE y == IF x.streaming THEN lastEvent(lastLine(x)) ELSE x
              z == [y EXCEPT !.finished = TRUE]
  <2>1. Buffers(x) /\ TerminalOnce(x) /\ Silent(x) /\ Quiet(x, x)
    BY <1>2 DEF Good, Quiet, Same
  <2>2. Buffers(lastLine(x)) /\ TerminalOnce(lastLine(x)) /\ Quiet(x, lastLine(x))
    BY <2>1, ProcessSSELine DEF lastLine
  <2>3. /\ Buffers(lastEvent(lastLine(x))) /\ TerminalOnce(lastEvent(lastLine(x)))
        /\ Quiet(x, lastEvent(lastLine(x)))
    BY <2>2, FinishSSEEvent DEF lastEvent, Quiet, Same
  <2>4. Buffers(y) /\ TerminalOnce(y) /\ Quiet(x, y) /\ Silent(y)
    BY <2>1, <2>3 DEF Quiet, Silent
  <2>5. \E e : Finish(x) = report(z, e)
    BY <1>2 DEF Finish, finishStreaming
  <2>. HIDE DEF y
  <2>6. /\ z = [f \in Fields |-> z[f]]
        /\ z.line = y.line /\ z.eventData = y.eventData /\ z.jsonBody = y.jsonBody
        /\ z.capacity = y.capacity
        /\ z.terminals = y.terminals /\ z.terminalNotified = y.terminalNotified
        /\ z.usages = y.usages /\ z.evidences = y.evidences
        /\ z.evidenceNotified = y.evidenceNotified
        /\ z.finished /\ Same(y, z)
    BY <2>4 DEF Buffers, Fields, Same
  <2>. HIDE DEF z
  <2>7. Buffers(z) /\ TerminalOnce(z) /\ Silent(z)
    BY <2>4, <2>6 DEF Buffers, TerminalOnce, Silent, Most, Same
  <2>8. PICK e : Finish(x) = report(z, e)
    BY <2>5
  <2>9. /\ Buffers(report(z, e)) /\ TerminalOnce(report(z, e)) /\ Told(report(z, e))
        /\ Same(z, report(z, e)) /\ report(z, e).finished = z.finished
    BY <2>7, Report
  <2>. QED  BY <2>4, <2>6, <2>8, <2>9 DEF Good, Quiet, Same
<1>. QED  BY <1>1, <1>2

----------------------------------------------------------------------------
(* The body *)

\* The observer is the one the body was wrapped with.
Wrapped == Good(o) /\ o.hooks = config.hooks /\ o.streaming = config.streaming

\* The read in progress, and the ends that have been seen.
Reads ==
    /\ pc # "observe" => chunk = <<>>
    /\ pc = "observe" /\ ~config.streaming => n = Len(chunk)
    /\ err = "eof" => ended
    /\ pending = "eof" => ended
    /\ ended => src # "open"

\* A body at EOF that is not reported is one whose EOF is still to be acted on: it
\* is being returned, or the lookahead keeps it behind bytes to hand over; or the
\* length was not the declared one.
Ends ==
    ended /\ ~o.finished =>
        \/ pc # "idle" /\ err = "eof"
        \/ expectedLengthBad
        \/ /\ lookahead /\ pending = "eof"
           /\ IF pc = "idle" THEN ahead # <<>> ELSE err = "none" /\ n > 0

\* remaining counts down from the declared length; a length gone bad never comes
\* right again.
Counts ==
    /\ expectedLengthBad => hasExpectedLength
    /\ hasExpectedLength /\ ~expectedLengthBad =>
         remaining = config.length - Len(given) + (IF pc = "settle" THEN n ELSE 0)
    /\ hasExpectedLength /\ expectedLengthBad =>
         \/ Len(given) > config.length
         \/ src # "open" /\ chunk = <<>> /\ Len(given) < config.length

\* The inductive invariant.
IInv == TypeOK /\ Wrapped /\ Reads /\ Ends /\ Counts

\* The observer's part of the type invariant follows from Good.
LEMMA ObserverTypes ==
    ASSUME NEW x, Good(x)
    PROVE  /\ x.line \in Seq(Symbols) /\ x.eventData \in Seq(Symbols)
           /\ x.jsonBody \in Seq(Symbols) /\ x.terminals \in Nat
BY DEF Good, Buffers, TerminalOnce

\* What a source can bring is a sequence of symbols.
LEMMA BringTypes ==
    ASSUME TypeOK, NEW c \in Bring PROVE c \in Seq(Symbols) /\ Len(c) \in Nat
<1>1. config.streaming \in BOOLEAN
    BY ConfigsAreCalls DEF TypeOK
<1>2. Chunks[config.streaming] \in SUBSET Seq(Symbols)
    BY <1>1, ChunksAreBytes
<1>3. c \in Seq(Symbols)
    BY <1>2, EmptyFits, Zenon DEF Bring
<1>. QED  BY <1>3

\* A body is wrapped as the exported constructors say.
LEMMA ConfigTypes ==
    ASSUME config \in Configs
    PROVE  /\ config.streaming \in BOOLEAN /\ config.length \in Int
           /\ lookahead => ~hasExpectedLength
           /\ hasExpectedLength => config.length \in Nat /\ ~config.streaming
<1>1. config.streaming \in BOOLEAN /\ config.length \in Int
    BY ConfigsAreCalls
<1>. QED  BY <1>1 DEF lookahead, hasExpectedLength

\* The observer of a new body has reported nothing and holds nothing.
LEMMA NewObserver ==
    ASSUME NEW s, NEW f, NEW h, NEW k \in Nat, k <= MaxJSON
    PROVE  LET x == newCompletionUsageObserver(s, f, h, k)
           IN Good(x) /\ x.hooks = h /\ x.streaming = s /\ ~x.finished
<1>. DEFINE x == newCompletionUsageObserver(s, f, h, k)
<1>1. /\ x = [g \in Fields |-> x[g]]
      /\ x.line = <<>> /\ x.eventData = <<>> /\ x.jsonBody = <<>> /\ x.capacity = k
      /\ x.terminals = 0 /\ x.usages = <<>> /\ x.evidences = <<>>
      /\ ~x.evidenceNotified /\ ~x.finished /\ x.hooks = h /\ x.streaming = s
    BY DEF newCompletionUsageObserver, Fields
<1>. HIDE DEF x
<1>2. /\ x.jsonBody \in Seq(Symbols) /\ Len(x.jsonBody) <= x.capacity
      /\ x.capacity \in Nat /\ x.capacity <= MaxJSON
  <2>1. 0 <= k
    OBVIOUS
  <2>. QED  BY <1>1, <2>1, EmptyFits, Zenon
<1>3. Buffers(x)
    BY <1>1, <1>2, EmptyFits DEF Buffers
<1>4. TerminalOnce(x) /\ Silent(x)
    BY <1>1 DEF TerminalOnce, Silent, Most
<1>. QED  BY <1>1, <1>3, <1>4 DEF Good, x

\* The constructors establish the invariant.
LEMMA InitIInv == Init => IInv
<1>. SUFFICES ASSUME Init PROVE IInv
    OBVIOUS
<1>1. Wrapped /\ ~o.finished
  <2>. DEFINE k == IF ~config.streaming /\ config.length \in 1..MaxJSON
                     THEN config.length ELSE 0
  <2>1. k \in Nat /\ k <= MaxJSON
    BY MaxJSONIsNumber
  <2>2. o = newCompletionUsageObserver(config.streaming, config.format, config.hooks, k)
    BY DEF Init
  <2>. HIDE DEF k
  <2>. QED  BY <2>1, <2>2, NewObserver DEF Wrapped
<1>2. config \in Configs /\ config.streaming \in BOOLEAN /\ config.length \in Int
    BY ConfigTypes DEF Init
<1>3. TypeOK
  <2>1. /\ o.line \in Seq(Symbols) /\ o.eventData \in Seq(Symbols)
        /\ o.jsonBody \in Seq(Symbols) /\ o.terminals \in Nat
    BY <1>1, ObserverTypes DEF Wrapped
  <2>2. remaining \in (IF hasExpectedLength THEN 0..config.length ELSE {-1})
    BY <1>2 DEF Init, hasExpectedLength
  <2>3. ahead \in Seq(Symbols) /\ chunk \in Seq(Symbols) /\ given \in Seq(Symbols)
    BY EmptyFits, Zenon DEF Init
  <2>4. /\ src \in {"open", "eof", "error"} /\ pending \in Errors /\ err \in Errors
        /\ pc \in {"idle", "observe", "settle"} /\ n \in Nat /\ produced \in Nat
        /\ expectedLengthBad \in BOOLEAN /\ ended \in BOOLEAN
    BY DEF Init, Errors
  <2>. QED  BY <1>2, <2>1, <2>2, <2>3, <2>4 DEF TypeOK
<1>4. Reads /\ Ends
    BY <1>1 DEF Init, Reads, Ends
<1>5. Counts
    BY <1>2, EmptyFits DEF Init, Counts, hasExpectedLength
<1>. QED  BY <1>1, <1>3, <1>4, <1>5 DEF IInv

\* A read that has its bytes and its error.
LEMMA GotTypes ==
    ASSUME IInv, NEW c \in Seq(Symbols), NEW e \in Errors, Got(c, e)
    PROVE  /\ Wrapped' /\ pc' = "observe" /\ chunk' \in Seq(Symbols) /\ n' \in Nat
           /\ n' = Len(chunk') /\ err' \in Errors /\ config' = config
           /\ UNCHANGED <<o, remaining, expectedLengthBad, given>>
BY DEF IInv, Wrapped, Got

\* What one read of the source does to the ends that have been seen.
LEMMA SourceEnds ==
    ASSUME IInv, NEW c \in Bring, NEW e \in Errors, SourceRead(c, e)
    PROVE  /\ src' \in {"open", "eof", "error"} /\ produced' \in Nat /\ ended' \in BOOLEAN
           /\ ended' = (ended \/ e = "eof")
           /\ ended' => src' # "open"
           /\ src # "open" => c = <<>> /\ src' # "open"
<1>1. Len(c) \in Nat
    BY BringTypes DEF IInv
<1>. QED  BY <1>1 DEF IInv, TypeOK, Reads, SourceRead, Errors

\* A read that goes straight to the source.
LEMMA ReadSourceIInv == IInv /\ ReadSource => IInv'
<1>. SUFFICES ASSUME IInv, ReadSource PROVE IInv'
    OBVIOUS
<1>1. PICK c \in Bring, e \in Errors : SourceRead(c, e) /\ Got(c, e)
    BY DEF ReadSource
<1>2. c \in Seq(Symbols) /\ Len(c) \in Nat
    BY BringTypes DEF IInv
<1>3. /\ Wrapped' /\ pc' = "observe" /\ chunk' \in Seq(Symbols) /\ n' \in Nat
      /\ n' = Len(chunk') /\ err' \in Errors /\ config' = config
      /\ UNCHANGED <<o, remaining, expectedLengthBad, given>>
    BY <1>1, <1>2, GotTypes
<1>4. /\ src' \in {"open", "eof", "error"} /\ produced' \in Nat /\ ended' \in BOOLEAN
      /\ ended' = (ended \/ e = "eof")
      /\ ended' => src' # "open"
      /\ src # "open" => c = <<>> /\ src' # "open"
    BY <1>1, SourceEnds
<1>5. chunk' = c /\ err' = e /\ pc = "idle" /\ UNCHANGED <<ahead, pending>>
    BY <1>1 DEF Got, ReadSource
<1>6. hasExpectedLength' = hasExpectedLength /\ lookahead' = lookahead /\ ~lookahead
    BY <1>3 DEF hasExpectedLength, lookahead, ReadSource
<1>7. TypeOK'
    BY <1>3, <1>4, <1>5, <1>6 DEF IInv, TypeOK
<1>8. Reads'
    BY <1>3, <1>4, <1>5 DEF IInv, Reads
<1>9. Ends'
    BY <1>3, <1>4, <1>5, <1>6 DEF IInv, Ends
<1>10. Counts'
    BY <1>3, <1>4, <1>5, <1>6 DEF IInv, Counts
<1>. QED  BY <1>3, <1>7, <1>8, <1>9, <1>10 DEF IInv

\* The parts of a sequence.
LEMMA Cut ==
    ASSUME NEW s \in Seq(Symbols), NEW k \in 1..Len(s)
    PROVE  /\ SubSeq(s, 1, k) \in Seq(Symbols) /\ Len(SubSeq(s, 1, k)) = k
           /\ SubSeq(s, k + 1, Len(s)) \in Seq(Symbols)
<1>1. Len(s) \in Nat /\ k \in Nat /\ 1 <= k /\ k <= Len(s)
    OBVIOUS
<1>. QED  BY <1>1

\* A read of what the lookahead holds, bytes or an error.
LEMMA ReadAheadIInv == IInv /\ ReadAhead => IInv'
<1>. SUFFICES ASSUME IInv, ReadAhead PROVE IInv'
    OBVIOUS
<1>0. /\ lookahead /\ ~hasExpectedLength /\ config \in Configs
      /\ UNCHANGED <<src, produced, ended>> /\ ahead \in Seq(Symbols)
    BY ConfigTypes DEF IInv, TypeOK, ReadAhead
<1>1. CASE \E k \in 1..Len(ahead) :
              /\ Got(SubSeq(ahead, 1, k), "none")
              /\ ahead' = SubSeq(ahead, k + 1, Len(ahead)) /\ UNCHANGED pending
            /\ ahead # <<>>
  <2>1. PICK k \in 1..Len(ahead) :
              /\ Got(SubSeq(ahead, 1, k), "none")
              /\ ahead' = SubSeq(ahead, k + 1, Len(ahead)) /\ UNCHANGED pending
            /\ ahead # <<>>
    BY <1>1
  <2>2. /\ SubSeq(ahead, 1, k) \in Seq(Symbols) /\ Len(SubSeq(ahead, 1, k)) = k
        /\ SubSeq(ahead, k + 1, Len(ahead)) \in Seq(Symbols)
    BY <1>0, Cut
  <2>3. /\ Wrapped' /\ pc' = "observe" /\ chunk' \in Seq(Symbols) /\ n' \in Nat
      /\ n' = Len(chunk') /\ err' \in Errors /\ config' = config
      /\ UNCHANGED <<o, remaining, expectedLengthBad, given>>
    BY <2>1, <2>2, GotTypes DEF Errors
  <2>4. /\ chunk' = SubSeq(ahead, 1, k) /\ err' = "none" /\ n' > 0 /\ pc = "idle"
    BY <2>1, <2>2 DEF Got
  <2>5. hasExpectedLength' = hasExpectedLength /\ lookahead' = lookahead
    BY <2>3 DEF hasExpectedLength, lookahead
  <2>6. TypeOK'
    BY <1>0, <2>1, <2>2, <2>3, <2>5 DEF IInv, TypeOK
  <2>7. Reads' /\ Ends' /\ Counts'
    BY <1>0, <2>1, <2>3, <2>4, <2>5 DEF IInv, Reads, Ends, Counts
  <2>. QED  BY <2>3, <2>6, <2>7 DEF IInv
<1>2. CASE ahead = <<>> /\ pending # "none" /\ Got(<<>>, pending) /\ pending' = "none"
           /\ UNCHANGED ahead
  <2>1. pending \in Errors
    BY DEF IInv, TypeOK
  <2>3. /\ Wrapped' /\ pc' = "observe" /\ chunk' \in Seq(Symbols) /\ n' \in Nat
      /\ n' = Len(chunk') /\ err' \in Errors /\ config' = config
      /\ UNCHANGED <<o, remaining, expectedLengthBad, given>>
    BY <1>2, <2>1, EmptyFits, GotTypes
  <2>4. chunk' = <<>> /\ err' = pending /\ pc = "idle"
    BY <1>2 DEF Got
  <2>5. hasExpectedLength' = hasExpectedLength /\ lookahead' = lookahead
    BY <2>3 DEF hasExpectedLength, lookahead
  <2>6. TypeOK'
    BY <1>0, <1>2, <2>3, <2>5 DEF IInv, TypeOK, Errors
  <2>7. pending = "eof" => ended
    BY <2>1 DEF IInv, Reads
  <2>8. Reads' /\ Ends' /\ Counts'
    BY <1>0, <1>2, <2>3, <2>4, <2>5, <2>7 DEF IInv, Reads, Ends, Counts
  <2>. QED  BY <2>3, <2>6, <2>8 DEF IInv
<1>. QED  BY <1>1, <1>2 DEF ReadAhead

\* A read through the lookahead to the source.
LEMMA ReadThroughIInv == IInv /\ ReadThrough => IInv'
<1>. SUFFICES ASSUME IInv, ReadThrough PROVE IInv'
    OBVIOUS
<1>0. /\ lookahead /\ ~hasExpectedLength /\ ahead = <<>> /\ pending = "none"
    BY ConfigTypes DEF IInv, TypeOK, ReadThrough
<1>1. PICK c \in Bring, e \in Errors :
        /\ SourceRead(c, e)
        /\ \/ Got(c, e) /\ UNCHANGED <<ahead, pending>>
           \/ \E k \in 1..Len(c) :
                 /\ Got(SubSeq(c, 1, k), "none")
                 /\ ahead' = SubSeq(c, k + 1, Len(c)) /\ pending' = e
    BY DEF ReadThrough
<1>2. c \in Seq(Symbols) /\ Len(c) \in Nat
    BY BringTypes DEF IInv
<1>4. /\ src' \in {"open", "eof", "error"} /\ produced' \in Nat /\ ended' \in BOOLEAN
      /\ ended' = (ended \/ e = "eof")
      /\ ended' => src' # "open"
      /\ src # "open" => c = <<>> /\ src' # "open"
    BY <1>1, SourceEnds
<1>5. CASE Got(c, e) /\ UNCHANGED <<ahead, pending>>
  <2>3. /\ Wrapped' /\ pc' = "observe" /\ chunk' \in Seq(Symbols) /\ n' \in Nat
      /\ n' = Len(chunk') /\ err' \in Errors /\ config' = config
      /\ UNCHANGED <<o, remaining, expectedLengthBad, given>>
    BY <1>2, <1>5, GotTypes
  <2>4. chunk' = c /\ err' = e /\ pc = "idle"
    BY <1>5 DEF Got
  <2>5. hasExpectedLength' = hasExpectedLength /\ lookahead' = lookahead
    BY <2>3 DEF hasExpectedLength, lookahead
  <2>6. TypeOK'
    BY <1>4, <1>5, <2>3, <2>5 DEF IInv, TypeOK
  <2>7. Reads' /\ Ends' /\ Counts'
    BY <1>0, <1>4, <1>5, <2>3, <2>4, <2>5 DEF IInv, Reads, Ends, Counts
  <2>. QED  BY <2>3, <2>6, <2>7 DEF IInv
<1>6. ASSUME NEW k \in 1..Len(c), Got(SubSeq(c, 1, k), "none"),
             ahead' = SubSeq(c, k + 1, Len(c)), pending' = e
      PROVE  IInv'
  <2>2. /\ SubSeq(c, 1, k) \in Seq(Symbols) /\ Len(SubSeq(c, 1, k)) = k
        /\ SubSeq(c, k + 1, Len(c)) \in Seq(Symbols)
    BY <1>2, Cut
  <2>3. /\ Wrapped' /\ pc' = "observe" /\ chunk' \in Seq(Symbols) /\ n' \in Nat
      /\ n' = Len(chunk') /\ err' \in Errors /\ config' = config
      /\ UNCHANGED <<o, remaining, expectedLengthBad, given>>
    BY <1>6, <2>2, GotTypes DEF Errors
  <2>4. chunk' = SubSeq(c, 1, k) /\ err' = "none" /\ n' > 0 /\ pc = "idle"
    BY <1>6, <2>2 DEF Got
  <2>5. hasExpectedLength' = hasExpectedLength /\ lookahead' = lookahead
    BY <2>3 DEF hasExpectedLength, lookahead
  <2>6. TypeOK'
    BY <1>4, <1>6, <2>2, <2>3, <2>5 DEF IInv, TypeOK
  <2>7. Reads' /\ Ends' /\ Counts'
    BY <1>0, <1>4, <1>6, <2>3, <2>4, <2>5 DEF IInv, Reads, Ends, Counts
  <2>. QED  BY <2>3, <2>6, <2>7 DEF IInv
<1>. QED  BY <1>1, <1>5, <1>6

\* One symbol of a stream is observed.
LEMMA ObserveSSEIInv == IInv /\ ObserveSSE => IInv'
<1>. SUFFICES ASSUME IInv, ObserveSSE PROVE IInv'
    OBVIOUS
<1>1. /\ Head(chunk) \in Symbols /\ Tail(chunk) \in Seq(Symbols)
      /\ Append(given, Head(chunk)) \in Seq(Symbols)
    BY DEF IInv, TypeOK, ObserveSSE
<1>2. /\ Good(o') /\ Same(o, o') /\ o'.finished = o.finished
    BY <1>1, ObserveByteKeeps DEF IInv, Wrapped, ObserveSSE
<1>3. Wrapped'
    BY <1>2 DEF IInv, Wrapped, Same, ObserveSSE
<1>4. /\ config' = config /\ hasExpectedLength' = hasExpectedLength /\ lookahead' = lookahead
      /\ ~hasExpectedLength /\ ~lookahead
    BY DEF hasExpectedLength, lookahead, ObserveSSE
<1>5. TypeOK'
    BY <1>1, <1>2, <1>4, ObserverTypes DEF IInv, TypeOK, ObserveSSE
<1>6. Reads' /\ Ends' /\ Counts'
    BY <1>2, <1>4 DEF IInv, Reads, Ends, Counts, ObserveSSE
<1>. QED  BY <1>3, <1>5, <1>6 DEF IInv

\* Observe returns.
LEMMA ObservedIInv == IInv /\ Observed => IInv'
<1>. SUFFICES ASSUME IInv, Observed PROVE IInv'
    OBVIOUS
<1>1. /\ chunk \in Seq(Symbols) /\ given \in Seq(Symbols)
      /\ given' = given \o chunk /\ chunk' = <<>>
      /\ UNCHANGED <<config, src, ahead, pending, n, err, remaining, expectedLengthBad,
                     produced, ended>>
    BY DEF IInv, TypeOK, Observed
<1>2. given' \in Seq(Symbols) /\ chunk' \in Seq(Symbols)
      /\ Len(given') = Len(given) + Len(chunk) /\ Len(given) \in Nat /\ Len(chunk) \in Nat
    BY <1>1
<1>3. Good(o') /\ Same(o, o') /\ o'.finished = o.finished
    BY <1>1, ObserveJSONKeeps DEF IInv, Wrapped, Observed, Same
<1>4. Wrapped'
    BY <1>1, <1>3 DEF IInv, Wrapped, Same
<1>5. /\ hasExpectedLength' = hasExpectedLength /\ lookahead' = lookahead
      /\ config.length \in Int
      /\ hasExpectedLength => config.length \in Nat /\ ~config.streaming
    BY <1>1, ConfigTypes DEF hasExpectedLength, lookahead, IInv, TypeOK
<1>6. pc = "observe" /\ pc' = "settle"
    BY DEF Observed
<1>7. TypeOK'
    BY <1>1, <1>2, <1>3, <1>5, <1>6, ObserverTypes DEF IInv, TypeOK
<1>8. Reads' /\ Ends'
    BY <1>1, <1>3, <1>5, <1>6 DEF IInv, Reads, Ends
<1>9. Counts'
    BY <1>1, <1>2, <1>5, <1>6 DEF IInv, Reads, Counts, TypeOK
<1>. QED  BY <1>4, <1>7, <1>8, <1>9 DEF IInv

\* The end of a read of a body with a declared length.
LEMMA ExpectedLengthIInv == IInv /\ observeExpectedLength => IInv'
<1>. SUFFICES ASSUME IInv, observeExpectedLength PROVE IInv'
    OBVIOUS
<1>1. /\ pc = "settle" /\ pc' = "idle" /\ hasExpectedLength
      /\ UNCHANGED <<config, src, ahead, pending, chunk, n, err, given, produced, ended>>
    BY DEF observeExpectedLength
<1>2. /\ hasExpectedLength' = hasExpectedLength /\ lookahead' = lookahead /\ ~lookahead
      /\ config.length \in Nat
    BY <1>1, ConfigTypes DEF hasExpectedLength, lookahead, IInv, TypeOK
<1>3. /\ n \in Nat /\ Len(given) \in Nat /\ remaining \in 0..config.length
      /\ chunk = <<>> /\ (err = "eof" => ended /\ src # "open")
    BY <1>1, <1>2 DEF IInv, TypeOK, Reads
<1>4. Good(Finish(o)) /\ Same(o, Finish(o)) /\ Finish(o).finished
    BY FinishKeeps DEF IInv, Wrapped
<1>5. o' = o \/ o' = Finish(o)
    BY DEF observeExpectedLength
<1>6. Wrapped'
    BY <1>1, <1>4, <1>5 DEF IInv, Wrapped, Same
<1>7. \/ expectedLengthBad /\ expectedLengthBad' /\ remaining' = remaining
      \/ /\ ~expectedLengthBad /\ n > remaining /\ expectedLengthBad' = TRUE
         /\ remaining' = remaining
      \/ /\ ~expectedLengthBad /\ n <= remaining /\ remaining' = remaining - n
         /\ remaining' = 0 /\ o' = Finish(o) /\ ~expectedLengthBad'
      \/ /\ ~expectedLengthBad /\ n <= remaining /\ remaining' = remaining - n
         /\ remaining' # 0 \/ err = "error"
         /\ expectedLengthBad' = (err = "eof")
    BY DEF observeExpectedLength
<1>8. expectedLengthBad' \in BOOLEAN /\ remaining' \in 0..config.length
  <2>1. expectedLengthBad' \in BOOLEAN
    BY DEF observeExpectedLength, IInv, TypeOK
  <2>2. remaining' = remaining \/ (n <= remaining /\ remaining' = remaining - n)
    BY <1>7, Zenon
  <2>. QED  BY <1>2, <1>3, <2>1, <2>2
<1>9. TypeOK'
    BY <1>1, <1>2, <1>6, <1>8, ObserverTypes DEF IInv, TypeOK, Wrapped
<1>10. Reads'
    BY <1>1, <1>3 DEF IInv, Reads
<1>11. Ends'
    BY <1>1, <1>2, <1>4, <1>5, <1>7 DEF IInv, Ends
<1>12. ~expectedLengthBad => remaining = config.length - Len(given) + n
    BY <1>1 DEF IInv, Counts
<1>13. expectedLengthBad => \/ Len(given) > config.length
                            \/ src # "open" /\ chunk = <<>> /\ Len(given) < config.length
    BY <1>1 DEF IInv, Counts
<1>14. /\ ~expectedLengthBad' => remaining' = config.length - Len(given)
       /\ expectedLengthBad' => \/ Len(given) > config.length
                                \/ src # "open" /\ chunk = <<>> /\ Len(given) < config.length
  <2>. DEFINE short == src # "open" /\ chunk = <<>> /\ Len(given) < config.length
              long == Len(given) > config.length
              left == config.length - Len(given)
  <2>1. CASE expectedLengthBad /\ expectedLengthBad' /\ remaining' = remaining
    BY <2>1, <1>13
  <2>2. CASE ~expectedLengthBad /\ n > remaining /\ expectedLengthBad' = TRUE
    <3>1. long
      BY <2>2, <1>2, <1>3, <1>12
    <3>. QED  BY <2>2, <3>1
  <2>3. CASE ~expectedLengthBad /\ n <= remaining /\ remaining' = remaining - n
             /\ ~expectedLengthBad'
    <3>1. remaining' = left
      BY <2>3, <1>2, <1>3, <1>12
    <3>. QED  BY <2>3, <3>1
  <2>4. CASE /\ ~expectedLengthBad /\ n <= remaining /\ remaining' = remaining - n
             /\ remaining' # 0 \/ err = "error"
             /\ expectedLengthBad' = (err = "eof")
    <3>1. remaining' = left
      BY <2>4, <1>2, <1>3, <1>12
    <3>2. CASE err = "eof"
      <4>1. left > 0
        BY <2>4, <3>1, <3>2, <1>2, <1>3
      <4>2. Len(given) < config.length
        BY <4>1, <1>2, <1>3
      <4>3. short
        BY <3>2, <4>2, <1>3
      <4>. QED  BY <2>4, <3>2, <4>3
    <3>3. CASE err # "eof"
      BY <2>4, <3>1, <3>3
    <3>. QED  BY <3>2, <3>3
  <2>. QED  BY <1>7, <2>1, <2>2, <2>3, <2>4
<1>15. Counts'
    BY <1>1, <1>2, <1>14 DEF Counts
<1>. QED  BY <1>6, <1>9, <1>10, <1>11, <1>15 DEF IInv

\* The end of a read without a declared length.
LEMMA SettleIInv == IInv /\ Settle => IInv'
<1>. SUFFICES ASSUME IInv, Settle PROVE IInv'
    OBVIOUS
<1>1. /\ pc = "settle" /\ pc' = "idle" /\ ~hasExpectedLength
      /\ UNCHANGED <<config, src, ahead, pending, chunk, n, err, remaining,
                     expectedLengthBad, given, produced, ended>>
    BY DEF Settle
<1>2. hasExpectedLength' = hasExpectedLength /\ lookahead' = lookahead
    BY <1>1 DEF hasExpectedLength, lookahead
<1>3. Good(Finish(o)) /\ Same(o, Finish(o)) /\ Finish(o).finished
    BY FinishKeeps DEF IInv, Wrapped
<1>4. \/ err = "eof" /\ o' = Finish(o)
      \/ err # "eof" /\ o' = o /\ ~(lookahead /\ err = "none" /\ n > 0)
    BY DEF Settle
<1>5. Wrapped'
    BY <1>1, <1>3, <1>4 DEF IInv, Wrapped, Same
<1>6. TypeOK'
    BY <1>1, <1>2, <1>5, ObserverTypes DEF IInv, TypeOK, Wrapped
<1>7. Reads' /\ Ends' /\ Counts'
    BY <1>1, <1>2, <1>3, <1>4 DEF IInv, Reads, Ends, Counts
<1>. QED  BY <1>5, <1>6, <1>7 DEF IInv

\* The lookahead after a read without an error.
LEMMA PeekIInv == IInv /\ Peek => IInv'
<1>. SUFFICES ASSUME IInv, Peek PROVE IInv'
    OBVIOUS
<1>1. /\ pc = "settle" /\ pc' = "idle" /\ lookahead /\ err = "none" /\ ~hasExpectedLength
      /\ UNCHANGED <<config, chunk, n, err, remaining, expectedLengthBad, given>>
    BY ConfigTypes DEF Peek, IInv, TypeOK
<1>2. hasExpectedLength' = hasExpectedLength /\ lookahead' = lookahead
    BY <1>1 DEF hasExpectedLength, lookahead
<1>3. Good(Finish(o)) /\ Same(o, Finish(o)) /\ Finish(o).finished
    BY FinishKeeps DEF IInv, Wrapped
<1>4. o' = o \/ o' = Finish(o)
    BY DEF Peek
<1>5. Wrapped'
    BY <1>1, <1>3, <1>4 DEF IInv, Wrapped, Same
<1>6. CASE /\ ahead # <<>> \/ pending # "none"
           /\ o' = IF ahead = <<>> /\ pending = "eof" THEN Finish(o) ELSE o
           /\ pending' = IF ahead = <<>> THEN "none" ELSE pending
           /\ UNCHANGED <<ahead, src, produced, ended>>
  <2>1. TypeOK'
    BY <1>1, <1>2, <1>5, <1>6, ObserverTypes DEF IInv, TypeOK, Wrapped, Errors
  <2>2. Reads' /\ Ends' /\ Counts'
    BY <1>1, <1>2, <1>3, <1>6 DEF IInv, Reads, Ends, Counts
  <2>. QED  BY <1>5, <2>1, <2>2 DEF IInv
<1>7. ASSUME NEW c \in Bring, NEW e \in Errors, c # <<>> \/ e # "none", SourceRead(c, e),
             ahead = <<>>, pending = "none", ahead' = c,
             pending' = IF c = <<>> THEN "none" ELSE e,
             o' = IF c = <<>> /\ e = "eof" THEN Finish(o) ELSE o
      PROVE  IInv'
  <2>1. c \in Seq(Symbols)
    BY BringTypes DEF IInv
  <2>2. /\ src' \in {"open", "eof", "error"} /\ produced' \in Nat /\ ended' \in BOOLEAN
        /\ ended' = (ended \/ e = "eof")
        /\ ended' => src' # "open"
        /\ src # "open" => c = <<>> /\ src' # "open"
    BY <1>7, SourceEnds
  <2>3. TypeOK'
    BY <1>1, <1>2, <1>5, <1>7, <2>1, <2>2, ObserverTypes DEF IInv, TypeOK, Wrapped, Errors
  <2>4. Reads' /\ Ends' /\ Counts'
    BY <1>1, <1>2, <1>3, <1>7, <2>2 DEF IInv, Reads, Ends, Counts
  <2>. QED  BY <1>5, <2>3, <2>4 DEF IInv
<1>. QED  BY <1>6, <1>7 DEF Peek

\* Closing the source, and a step that changes nothing.
LEMMA CloseIInv == IInv /\ (Close \/ UNCHANGED vars) => IInv'
<1>. SUFFICES ASSUME IInv, Close \/ UNCHANGED vars PROVE IInv'
    OBVIOUS
<1>1. /\ UNCHANGED <<config, o, ahead, pending, pc, chunk, n, err, remaining,
                     expectedLengthBad, given, produced, ended>>
      /\ src' = src \/ src' = "error"
    BY DEF Close, vars
<1>2. hasExpectedLength' = hasExpectedLength /\ lookahead' = lookahead
    BY <1>1 DEF hasExpectedLength, lookahead
<1>. QED  BY <1>1, <1>2 DEF IInv, TypeOK, Wrapped, Reads, Ends, Counts

----------------------------------------------------------------------------
(* The theorems *)

\* The inductive invariant holds of every body.
LEMMA Inductive == Spec => []IInv
<1>1. IInv /\ [Next]_vars => IInv'
    BY ReadSourceIInv, ReadAheadIInv, ReadThroughIInv, ObserveSSEIInv, ObservedIInv,
       ExpectedLengthIInv, SettleIInv, PeekIInv, CloseIInv DEF Next
<1>. QED  BY InitIInv, <1>1, PTL DEF Spec

\* The state is well typed (completionUsageBody, CompletionUsageObserver).
THEOREM TypeCorrect == Spec => []TypeOK
<1>1. IInv => TypeOK
    BY DEF IInv
<1>. QED  BY Inductive, <1>1, PTL

\* Whatever the body and its cuts, the observer's buffers stay within the limits
\* (Observe, observeJSON, processSSELine).
THEOREM BoundedBuffers == Spec => []BuffersBounded
<1>1. IInv => BuffersBounded
  <2>. SUFFICES ASSUME IInv PROVE BuffersBounded
    OBVIOUS
  <2>1. Buffers(o)
    BY DEF IInv, Wrapped, Good
  <2>2. Len(o.jsonBody) \in Nat /\ MaxJSON \in Nat
    BY <2>1, MaxJSONIsNumber DEF Buffers
  <2>. QED  BY <2>1, <2>2 DEF Buffers, BuffersBounded
<1>. QED  BY Inductive, <1>1, PTL

\* The JSON text fits what the doubling loop has reserved, and that is within the
\* limit (observeJSON, and the capacity newCompletionUsageObserver starts with).
THEOREM CapacityCorrect == Spec => []CapacityBounded
<1>1. IInv => CapacityBounded
    BY DEF IInv, Wrapped, Good, Buffers, CapacityBounded
<1>. QED  BY Inductive, <1>1, PTL

\* No callback is made twice, and none that was not asked for (emit, emitEvidence,
\* notifyTerminal, Finish).
THEOREM AtMostOnce == Spec => []CallbacksOnce
<1>1. IInv => CallbacksOnce
  <2>. SUFFICES ASSUME IInv PROVE CallbacksOnce
    OBVIOUS
  <2>1. Told(o) /\ TerminalOnce(o) /\ o.hooks = config.hooks
    BY EmptyFits DEF IInv, Wrapped, Good, Silent, Told, Most
  <2>. QED  BY <2>1 DEF Told, TerminalOnce, Most, CallbacksOnce
<1>. QED  BY Inductive, <1>1, PTL

\* A declared length that is reached without an error has been acted on.
Due ==
    /\ hasExpectedLength /\ pc = "idle" /\ Len(given) = config.length
    /\ given # <<>> /\ err # "error"
    => o.finished

\* The end of a read acts on it, and only a read brings bytes.
LEMMA DueStep == IInv /\ Due /\ [Next]_vars => Due'
<1>. SUFFICES ASSUME IInv, Due, [Next]_vars PROVE Due'
    OBVIOUS
<1>1. CASE ReadSource \/ ReadAhead \/ ReadThrough
    BY <1>1 DEF ReadSource, ReadAhead, ReadThrough, Got, Due
<1>2. CASE ObserveSSE \/ Observed
    BY <1>2 DEF ObserveSSE, Observed, Due
<1>3. CASE observeExpectedLength
  <2>1. /\ pc = "settle" /\ hasExpectedLength /\ UNCHANGED <<config, given, err>>
    BY <1>3 DEF observeExpectedLength
  <2>2. SUFFICES ASSUME Len(given) = config.length, err # "error" PROVE o'.finished
    BY <2>1 DEF Due
  <2>3. n \in Nat /\ Len(given) \in Nat
    BY DEF IInv, TypeOK
  <2>4. ~expectedLengthBad /\ remaining = n
    BY <2>1, <2>2, <2>3 DEF IInv, Counts
  <2>5. o' = Finish(o)
    BY <1>3, <2>2, <2>3, <2>4 DEF observeExpectedLength
  <2>. QED  BY <2>5, FinishKeeps DEF IInv, Wrapped
<1>4. CASE Settle \/ Peek
  <2>1. ~hasExpectedLength /\ config' = config
    BY <1>4, ConfigTypes DEF Settle, Peek, IInv, TypeOK
  <2>. QED  BY <2>1 DEF Due, hasExpectedLength
<1>5. CASE Close \/ UNCHANGED vars
    BY <1>5 DEF Close, vars, Due, hasExpectedLength
<1>. QED  BY <1>1, <1>2, <1>3, <1>4, <1>5 DEF Next

\* A body that has been handed over to its end, or to its declared length, has
\* been reported when the read returns (Read, observeExpectedLength).
THEOREM NothingMissed == Spec => []CompleteBodyReported
<1>1. IInv /\ Due => CompleteBodyReported
  <2>. SUFFICES ASSUME IInv, Due, pc = "idle", ahead = <<>>,
                       IF hasExpectedLength
                         THEN Len(given) = config.length /\ (ended \/ (given # <<>> /\ err # "error"))
                         ELSE ended
                PROVE  o.finished
    BY DEF CompleteBodyReported
  <2>1. CASE ended
    <3>1. o.finished \/ expectedLengthBad
      BY <2>1 DEF IInv, Ends
    <3>2. Len(given) \in Nat /\ (hasExpectedLength => config.length \in Nat)
      BY ConfigTypes DEF IInv, TypeOK
    <3>3. ~expectedLengthBad
      BY <3>2 DEF IInv, Counts
    <3>. QED  BY <3>1, <3>3
  <2>2. CASE ~ended
    BY <2>2 DEF Due
  <2>. QED  BY <2>1, <2>2
<1>2. Init => Due
    BY DEF Init, Due
<1>. QED  BY Inductive, DueStep, <1>1, <1>2, PTL DEF Spec

----------------------------------------------------------------------------
(* Where the bytes are *)

\* Every byte the source has brought is handed over, in the read under way or in
\* the lookahead, and EOF is returned only when the lookahead is empty.
Accounted ==
    /\ produced = Len(given) + Len(chunk) + Len(ahead)
    /\ ~lookahead \/ (pc # "idle" /\ err = "eof") => ahead = <<>>

\* The two parts of a sequence have its length.
LEMMA CutLengths ==
    ASSUME NEW s \in Seq(Symbols), NEW k \in 1..Len(s)
    PROVE  Len(SubSeq(s, 1, k)) + Len(SubSeq(s, k + 1, Len(s))) = Len(s)
<1>1. Len(s) \in Nat /\ k \in Nat /\ 1 <= k /\ k <= Len(s)
    OBVIOUS
<1>2. Len(SubSeq(s, 1, k)) = k /\ Len(SubSeq(s, k + 1, Len(s))) = Len(s) - k
    BY <1>1
<1>. QED  BY <1>1, <1>2

\* No step loses a byte, or makes one.
LEMMA AccountedStep == IInv /\ Accounted /\ [Next]_vars => Accounted'
<1>. SUFFICES ASSUME IInv, Accounted, [Next]_vars PROVE Accounted'
    OBVIOUS
<1>0. /\ ahead \in Seq(Symbols) /\ chunk \in Seq(Symbols) /\ given \in Seq(Symbols)
      /\ Len(ahead) \in Nat /\ Len(chunk) \in Nat /\ Len(given) \in Nat /\ produced \in Nat
      /\ pc # "observe" => chunk = <<>>
      /\ Len(<<>>) = 0
    BY DEF IInv, TypeOK, Reads
<1>1. ASSUME NEW c, NEW e, Got(c, e)
      PROVE  /\ pc = "idle" /\ chunk = <<>> /\ chunk' = c /\ err' = e /\ given' = given
             /\ config' = config /\ lookahead' = lookahead
    BY <1>0, <1>1 DEF Got, lookahead
<1>2. CASE ReadSource
  <2>1. PICK c \in Bring, e \in Errors : SourceRead(c, e) /\ Got(c, e)
    BY <1>2 DEF ReadSource
  <2>2. ~lookahead /\ ahead' = ahead /\ produced' = produced + Len(c) /\ Len(c) \in Nat
    BY <1>2, <2>1, BringTypes DEF ReadSource, SourceRead, IInv
  <2>. QED  BY <1>0, <1>1, <2>1, <2>2 DEF Accounted
<1>3. CASE ReadAhead
  <2>0. lookahead /\ produced' = produced
    BY <1>3 DEF ReadAhead
  <2>1. ASSUME NEW k \in 1..Len(ahead), Got(SubSeq(ahead, 1, k), "none"),
               ahead' = SubSeq(ahead, k + 1, Len(ahead))
        PROVE  Accounted'
    <3>1. Len(SubSeq(ahead, 1, k)) + Len(SubSeq(ahead, k + 1, Len(ahead))) = Len(ahead)
      BY <1>0, CutLengths
    <3>2. /\ chunk = <<>> /\ chunk' = SubSeq(ahead, 1, k) /\ err' = "none" /\ given' = given
          /\ lookahead' = lookahead
      BY <1>1, <2>1
    <3>3. SubSeq(ahead, 1, k) \in Seq(Symbols) /\ SubSeq(ahead, k + 1, Len(ahead)) \in Seq(Symbols)
      BY <1>0, Cut
    <3>4. Len(chunk') + Len(ahead') = Len(ahead) /\ Len(chunk') \in Nat /\ Len(ahead') \in Nat
      BY <2>1, <3>1, <3>2, <3>3
    <3>5. produced' = Len(given') + Len(chunk') + Len(ahead')
      BY <1>0, <2>0, <3>2, <3>4 DEF Accounted
    <3>. QED  BY <2>0, <3>2, <3>5 DEF Accounted
  <2>2. CASE ahead = <<>> /\ Got(<<>>, pending) /\ ahead' = ahead
    BY <1>0, <1>1, <2>0, <2>2 DEF Accounted
  <2>. QED  BY <1>3, <2>1, <2>2 DEF ReadAhead
<1>4. CASE ReadThrough
  <2>0. lookahead /\ ahead = <<>>
    BY <1>4 DEF ReadThrough
  <2>1. PICK c \in Bring, e \in Errors :
          /\ SourceRead(c, e)
          /\ \/ Got(c, e) /\ UNCHANGED <<ahead, pending>>
             \/ \E k \in 1..Len(c) :
                   /\ Got(SubSeq(c, 1, k), "none")
                   /\ ahead' = SubSeq(c, k + 1, Len(c)) /\ pending' = e
    BY <1>4 DEF ReadThrough
  <2>2. c \in Seq(Symbols) /\ Len(c) \in Nat /\ produced' = produced + Len(c)
    BY <2>1, BringTypes DEF SourceRead, IInv
  <2>3. CASE Got(c, e) /\ UNCHANGED <<ahead, pending>>
    <3>1. chunk = <<>> /\ chunk' = c /\ given' = given /\ ahead' = <<>>
      BY <1>1, <2>0, <2>3
    <3>2. produced = Len(given)
      BY <1>0, <2>0, <3>1 DEF Accounted
    <3>3. produced' = Len(given') + Len(chunk') + Len(ahead')
      BY <1>0, <2>2, <3>1, <3>2
    <3>. QED  BY <3>1, <3>3 DEF Accounted
  <2>4. ASSUME NEW k \in 1..Len(c), Got(SubSeq(c, 1, k), "none"),
               ahead' = SubSeq(c, k + 1, Len(c))
        PROVE  Accounted'
    <3>1. Len(SubSeq(c, 1, k)) + Len(SubSeq(c, k + 1, Len(c))) = Len(c)
      BY <2>2, CutLengths
    <3>2. /\ chunk = <<>> /\ chunk' = SubSeq(c, 1, k) /\ err' = "none" /\ given' = given
          /\ lookahead' = lookahead
      BY <1>1, <2>4
    <3>3. SubSeq(c, 1, k) \in Seq(Symbols) /\ SubSeq(c, k + 1, Len(c)) \in Seq(Symbols)
      BY <2>2, Cut
    <3>4. Len(chunk') + Len(ahead') = Len(c) /\ Len(chunk') \in Nat /\ Len(ahead') \in Nat
      BY <2>4, <3>1, <3>2, <3>3
    <3>5. produced' = Len(given') + Len(chunk') + Len(ahead')
      BY <1>0, <2>0, <2>2, <3>2, <3>4 DEF Accounted
    <3>. QED  BY <2>0, <3>2, <3>5 DEF Accounted
  <2>. QED  BY <2>1, <2>3, <2>4
<1>5. CASE ObserveSSE
  <2>1. /\ chunk # <<>> /\ given' = Append(given, Head(chunk)) /\ chunk' = Tail(chunk)
        /\ UNCHANGED <<config, pc, err, ahead, produced>>
    BY <1>5 DEF ObserveSSE
  <2>2. Head(chunk) \in Symbols /\ Len(chunk) >= 1
    BY <1>0, <2>1
  <2>3. Len(given') = Len(given) + 1 /\ Len(chunk') = Len(chunk) - 1
    BY <1>0, <2>1, <2>2
  <2>. QED  BY <1>0, <2>1, <2>3 DEF Accounted, lookahead
<1>6. CASE Observed
  <2>1. /\ given' = given \o chunk /\ chunk' = <<>> /\ pc = "observe"
        /\ UNCHANGED <<config, err, ahead, produced>>
    BY <1>6 DEF Observed
  <2>2. Len(given') = Len(given) + Len(chunk)
    BY <1>0, <2>1
  <2>. QED  BY <1>0, <2>1, <2>2 DEF Accounted, lookahead
<1>7. CASE observeExpectedLength \/ Settle
    BY <1>7 DEF observeExpectedLength, Settle, Accounted, lookahead
<1>8. CASE Peek
  <2>1. /\ lookahead /\ pc = "settle" /\ pc' = "idle" /\ UNCHANGED <<config, chunk, given>>
        /\ lookahead' = lookahead
    BY <1>8 DEF Peek, lookahead
  <2>2. CASE UNCHANGED <<ahead, produced>>
    BY <2>1, <2>2 DEF Accounted
  <2>3. ASSUME NEW c \in Bring, NEW e \in Errors, SourceRead(c, e), ahead = <<>>, ahead' = c
        PROVE  Accounted'
    <3>1. Len(c) \in Nat /\ produced' = produced + Len(c)
      BY <2>3, BringTypes DEF SourceRead, IInv
    <3>. QED  BY <1>0, <2>1, <2>3, <3>1 DEF Accounted
  <2>. QED  BY <1>8, <2>2, <2>3 DEF Peek
<1>9. CASE Close \/ UNCHANGED vars
    BY <1>9 DEF Close, vars, Accounted, lookahead
<1>. QED  BY <1>2, <1>3, <1>4, <1>5, <1>6, <1>7, <1>8, <1>9 DEF Next

\* The account is right in every reachable state.
LEMMA Accounts == Spec => []Accounted
<1>1. Init => Accounted
    BY EmptyFits DEF Init, Accounted
<1>. QED  BY <1>1, AccountedStep, Inductive, PTL DEF Spec

\* What is handed over to its end is so for good; while bytes are to be observed, it
\* is not; and when EOF is returned, it is.
LEMMA EndStands ==
    ASSUME IInv, Accounted
    PROVE  /\ HandedOver \in BOOLEAN
           /\ chunk # <<>> => ~HandedOver
           /\ ended /\ chunk = <<>> /\ ahead = <<>> => HandedOver
<1>1. /\ ahead \in Seq(Symbols) /\ chunk \in Seq(Symbols) /\ given \in Seq(Symbols)
      /\ Len(ahead) \in Nat /\ Len(chunk) \in Nat /\ Len(given) \in Nat /\ Len(<<>>) = 0
      /\ ended \in BOOLEAN
    BY DEF IInv, TypeOK
<1>2. HandedOver \in BOOLEAN
    BY DEF HandedOver
<1>3. chunk # <<>> => Len(chunk) # 0
    BY <1>1, EmptySeq
<1>4. chunk # <<>> => ~HandedOver
    BY <1>1, <1>3 DEF HandedOver, Accounted
<1>5. ended /\ chunk = <<>> /\ ahead = <<>> => HandedOver
    BY <1>1 DEF HandedOver, Accounted
<1>. QED  BY <1>2, <1>4, <1>5

\* A source at its end brings nothing.
LEMMA SourceStands ==
    ASSUME IInv, NEW c, NEW e, SourceRead(c, e), given' = given
    PROVE  HandedOver => HandedOver'
<1>1. ended => c = <<>> /\ produced' = produced + Len(c) /\ ended'
    BY DEF SourceRead, IInv, Reads
<1>2. produced \in Nat /\ Len(<<>>) = 0
    BY DEF IInv, TypeOK
<1>. QED  BY <1>1, <1>2 DEF HandedOver

----------------------------------------------------------------------------
(* The refinement of UsageContract, for bodies that are no streams *)

\* The contract decodes documents as the observer does: the two instances of
\* UsageDecode are the same.
LEMMA SameDecode ==
    /\ Contract!Malformed = Malformed /\ Contract!Unavailable = Unavailable
    /\ \A b, s, f : Contract!decodeCompletionUsageEvidence(b, s, f)
                      = decodeCompletionUsageEvidence(b, s, f)
<1>1. /\ Contract!Malformed = Malformed /\ Contract!Unavailable = Unavailable
      /\ Contract!NoUsage = NoUsage
    BY DEF Malformed, Unavailable, NoUsage, Evidence, Contract!Malformed,
           Contract!Unavailable, Contract!NoUsage, Contract!Evidence
<1>2. \A b : Contract!Parsed(b) = Parsed(b)
    BY Zenon DEF Contract!Parsed, Parsed, Contract!Space, Space, Contract!Docs, Docs
<1>3. \A d, s : Contract!decodeResponsesUsageEvidence(d, s) = decodeResponsesUsageEvidence(d, s)
    BY <1>1, Zenon DEF decodeResponsesUsageEvidence, Contract!decodeResponsesUsageEvidence,
       Evidence, Contract!Evidence, The, Contract!The, Positive, Contract!Positive
<1>4. \A d, s :
        Contract!decodeCompletionsUsageEvidence(d, s) = decodeCompletionsUsageEvidence(d, s)
    BY Zenon DEF decodeCompletionsUsageEvidence, Contract!decodeCompletionsUsageEvidence,
       Malformed, Contract!Malformed, Unavailable, Contract!Unavailable, NoUsage,
       Contract!NoUsage, Evidence, Contract!Evidence, The, Contract!The, Positive,
       Contract!Positive, OrZero, Contract!OrZero, Durations, Contract!Durations,
       millisecondsDuration, ToInt, Ceil, MaxInt, Float, RoundTo,
       Contract!millisecondsDuration, Contract!ToInt, Contract!Ceil,
       Contract!MaxInt, Contract!Float, Contract!RoundTo
<1>. QED  BY <1>1, <1>2, <1>3, <1>4, Zenon DEF decodeCompletionUsageEvidence,
       Contract!decodeCompletionUsageEvidence, decodeDocument, Contract!decodeDocument,
       Docs, Contract!Docs

\* The callbacks of a report, each once: those asked for, and the terminal one unless
\* it has been made.
Reported(x, y, e) ==
    /\ y.usages = IF e.outcome = "available" /\ "usage" \in x.hooks THEN <<e.usage>> ELSE <<>>
    /\ y.evidences = IF "evidence" \in x.hooks THEN <<e>> ELSE <<>>
    /\ y.terminals = IF "terminal" \in x.hooks THEN 1 ELSE 0
    /\ y.format = x.format /\ y.terminalSeen = x.terminalSeen

\* report makes them.
LEMMA ReportTells ==
    ASSUME NEW x, Buffers(x), TerminalOnce(x), Silent(x),
           x.terminalNotified => x.terminals = Most(x, "terminal"), NEW e
    PROVE  Reported(x, report([x EXCEPT !.finished = TRUE], e), e)
<1>. DEFINE z == [x EXCEPT !.finished = TRUE]
            v == IF e.outcome = "available" THEN emit(z, e.usage) ELSE z
            w == emitEvidence(v, e)
            y == notifyTerminal(w)
<1>0. \A a : Append(<<>>, a) = <<a>>
    OBVIOUS
<1>1. x = [f \in Fields |-> x[f]]
    BY DEF Buffers
<1>2. report(z, e) = y
    BY DEF report
<1>3. /\ z = [f \in Fields |-> z[f]] /\ z.hooks = x.hooks /\ z.terminals = x.terminals
      /\ z.usages = <<>> /\ z.evidences = <<>> /\ ~z.evidenceNotified
      /\ z.terminalNotified = x.terminalNotified
      /\ z.format = x.format /\ z.terminalSeen = x.terminalSeen
    BY <1>1 DEF Fields, Silent
<1>. HIDE DEF z
<1>4. /\ v = [f \in Fields |-> v[f]] /\ v.hooks = x.hooks /\ v.terminals = x.terminals
      /\ v.usages = IF e.outcome = "available" /\ "usage" \in x.hooks THEN <<e.usage>> ELSE <<>>
      /\ v.evidences = <<>> /\ ~v.evidenceNotified /\ v.terminalNotified = x.terminalNotified
      /\ v.format = x.format /\ v.terminalSeen = x.terminalSeen
  <2>1. CASE e.outcome = "available" /\ "usage" \in x.hooks
    <3>1. v = [z EXCEPT !.usages = Append(<<>>, e.usage)]
      BY <1>3, <2>1 DEF emit
    <3>2. v = [z EXCEPT !.usages = <<e.usage>>]
      BY <1>0, <3>1, Zenon
    <3>. HIDE DEF v
    <3>. QED  BY <1>3, <2>1, <3>2 DEF Fields
  <2>2. CASE ~(e.outcome = "available" /\ "usage" \in x.hooks)
    <3>1. v = z
      BY <1>3, <2>2 DEF emit
    <3>. HIDE DEF v
    <3>. QED  BY <1>3, <2>2, <3>1
  <2>. QED  BY <2>1, <2>2
<1>. HIDE DEF v
<1>5. /\ w = [f \in Fields |-> w[f]] /\ w.hooks = x.hooks /\ w.terminals = x.terminals
      /\ w.usages = v.usages /\ w.evidences = IF "evidence" \in x.hooks THEN <<e>> ELSE <<>>
      /\ w.terminalNotified = x.terminalNotified /\ w.format = x.format
      /\ w.terminalSeen = x.terminalSeen
  <2>. DEFINE told == IF "evidence" \in x.hooks THEN <<e>> ELSE <<>>
  <2>1. w = [v EXCEPT !.evidenceNotified = TRUE,
                      !.evidences = IF "evidence" \in x.hooks THEN Append(<<>>, e) ELSE <<>>]
    BY <1>4 DEF emitEvidence
  <2>2. w = [v EXCEPT !.evidenceNotified = TRUE, !.evidences = told]
    BY <1>0, <2>1, Zenon
  <2>. HIDE DEF w, told
  <2>3. /\ w = [f \in Fields |-> w[f]] /\ w.hooks = x.hooks /\ w.terminals = x.terminals
        /\ w.usages = v.usages /\ w.evidences = told
        /\ w.terminalNotified = x.terminalNotified /\ w.format = x.format
        /\ w.terminalSeen = x.terminalSeen
    BY <1>4, <2>2 DEF Fields
  <2>. QED  BY <2>3 DEF told
<1>. HIDE DEF w
<1>6. /\ y.usages = w.usages /\ y.evidences = w.evidences
      /\ y.terminals = IF "terminal" \in x.hooks THEN 1 ELSE 0
      /\ y.format = x.format /\ y.terminalSeen = x.terminalSeen
  <2>1. CASE x.terminalNotified
    BY <1>5, <2>1 DEF notifyTerminal, Most
  <2>2. CASE ~x.terminalNotified
    <3>1. x.terminals = 0
      BY <2>2 DEF TerminalOnce
    <3>. QED  BY <1>5, <2>2, <3>1 DEF Fields, notifyTerminal
  <2>. QED  BY <2>1, <2>2
<1>. HIDE DEF y
<1>. QED  BY <1>2, <1>4, <1>5, <1>6 DEF z, Reported

\* A longer body begins with a shorter one.
LEMMA Longer ==
    ASSUME NEW b \in Seq(Symbols), NEW c \in Seq(Symbols), c # <<>>
    PROVE  Len(b) < Len(b \o c) /\ SubSeq(b \o c, 1, Len(b)) = b
<1>1. Len(c) \in Nat /\ Len(c) # 0 /\ Len(b) \in Nat
    BY EmptySeq
<1>2. Len(b \o c) = Len(b) + Len(c)
    OBVIOUS
<1>3. SubSeq(b \o c, 1, Len(b)) = b
    BY <1>1, SubSeqOfConcat1, SubSeqFull
<1>. QED  BY <1>1, <1>2, <1>3

\* What Finish finds in a plain body.
PlainFound(x) ==
    IF x.jsonLimited THEN Malformed
    ELSE IF x.jsonBody = <<>> THEN Unavailable
    ELSE decodeCompletionUsageEvidence(x.jsonBody, FALSE, x.format)

\* Finish on a plain body reports that.
LEMMA FinishPlain ==
    ASSUME NEW x, Good(x), ~x.streaming, ~x.finished, ~x.terminalNotified
    PROVE  Reported(x, Finish(x), PlainFound(x))
<1>1. Buffers(x) /\ TerminalOnce(x) /\ Silent(x)
    BY DEF Good
<1>2. Finish(x) = report([x EXCEPT !.finished = TRUE], PlainFound(x))
    BY DEF Finish, PlainFound
<1>. QED  BY <1>1, <1>2, ReportTells

\* Until it is reported, a plain body has been kept whole, or it is past the limit.
Kept(x, b) ==
    /\ ~x.terminalSeen
    /\ ~x.finished => /\ ~x.terminalNotified
                      /\ x.jsonLimited \in BOOLEAN
                      /\ IF x.jsonLimited THEN Len(b) > MaxJSON ELSE x.jsonBody = b

Whole == ~config.streaming => Kept(o, given) /\ o.format = config.format

\* A piece of a plain body is added to what is kept.
LEMMA ObserveJSONWhole ==
    ASSUME NEW x, Good(x), ~x.finished, NEW b \in Seq(Symbols), Kept(x, b), NEW c \in Seq(Symbols)
    PROVE  LET y == observeJSON(x, c)
           IN /\ Kept(y, b \o c) /\ Quiet(x, y) /\ y.terminals = x.terminals
              /\ y.format = x.format
<1>. DEFINE required == Len(x.jsonBody) + Len(c)
            y == observeJSON(x, c)
            cap == IF required > x.capacity THEN Grown(x.capacity, required) ELSE x.capacity
<1>1. x = [f \in Fields |-> x[f]] /\ x.jsonBody \in Seq(Symbols)
    BY DEF Good, Buffers
<1>2. /\ b \o c \in Seq(Symbols) /\ Len(b \o c) = Len(b) + Len(c)
      /\ Len(b) \in Nat /\ Len(c) \in Nat /\ MaxJSON \in Nat
    BY MaxJSONIsNumber
<1>3. CASE x.jsonLimited
  <2>1. y = x
    BY <1>3 DEF observeJSON
  <2>2. Len(b) > MaxJSON
    BY <1>3 DEF Kept
  <2>3. Len(b \o c) > MaxJSON
    BY <1>2, <2>2
  <2>. HIDE DEF y
  <2>. QED  BY <1>3, <2>1, <2>3 DEF Kept, Quiet, Same, y
<1>4. CASE ~x.jsonLimited /\ required > MaxJSON
  <2>1. y = [x EXCEPT !.jsonBody = <<>>, !.capacity = 0, !.jsonLimited = TRUE]
    BY <1>4 DEF observeJSON
  <2>2. x.jsonBody = b
    BY <1>4 DEF Kept
  <2>3. Len(b \o c) > MaxJSON
    BY <1>2, <1>4, <2>2
  <2>. HIDE DEF y
  <2>4. /\ y.jsonLimited = TRUE /\ y.terminalSeen = x.terminalSeen
        /\ y.terminalNotified = x.terminalNotified /\ Quiet(x, y)
        /\ y.terminals = x.terminals /\ y.format = x.format
    BY <1>1, <2>1 DEF Fields, Quiet, Same
  <2>. QED  BY <2>3, <2>4 DEF Kept, y
<1>5. CASE ~x.jsonLimited /\ ~(required > MaxJSON)
  <2>1. y = [x EXCEPT !.jsonBody = @ \o c, !.capacity = cap]
    BY <1>5 DEF observeJSON
  <2>2. x.jsonBody = b
    BY <1>5 DEF Kept
  <2>. HIDE DEF y, cap
  <2>3. /\ y.jsonLimited = x.jsonLimited /\ y.terminalSeen = x.terminalSeen
        /\ y.terminalNotified = x.terminalNotified /\ Quiet(x, y)
        /\ y.terminals = x.terminals /\ y.format = x.format
        /\ y.jsonBody = x.jsonBody \o c
    BY <1>1, <2>1 DEF Fields, Quiet, Same
  <2>. QED  BY <1>5, <2>2, <2>3 DEF Kept, y
<1>. QED  BY <1>3, <1>4, <1>5 DEF Kept

\* The steps of a plain body, as far as the contract sees them: nothing but the end
\* of the source, ...
QuietStep == UNCHANGED <<config, o, given>> /\ (HandedOver => HandedOver')

\* ... bytes handed over, ...
HandStep ==
    /\ given' = given \o chunk /\ UNCHANGED <<config, ended, produced>>
    /\ \/ o' = o /\ (chunk = <<>> \/ o.finished)
       \/ chunk # <<>> /\ ~o.finished /\ o' = observeJSON(o, chunk)

\* ... or the end of the body.
FinishStep ==
    /\ o' = Finish(o) /\ UNCHANGED <<config, given>>
    /\ HandedOver => HandedOver'
    /\ IF hasExpectedLength THEN Len(given) = config.length ELSE HandedOver'

\* A body is finished when exactly its declared length is handed over, or all of it
\* up to EOF, and not before.
LEMMA PlainSteps ==
    ASSUME IInv, Accounted, Whole, ~config.streaming, [Next]_vars
    PROVE  QuietStep \/ HandStep \/ FinishStep
<1>0. lookahead => ~hasExpectedLength
    BY ConfigTypes DEF IInv, TypeOK
<1>1. ASSUME NEW c, NEW e, SourceRead(c, e), given' = given
      PROVE  HandedOver => HandedOver'
    BY <1>1, SourceStands
<1>2. CASE ReadSource
  <2>1. UNCHANGED <<config, o, given>>
    BY <1>2 DEF ReadSource, Got
  <2>2. HandedOver => HandedOver'
    BY <1>1, <1>2, <2>1 DEF ReadSource
  <2>. QED  BY <2>1, <2>2 DEF QuietStep
<1>3. CASE ReadAhead
  <2>1. UNCHANGED <<config, o, given, produced, ended>>
    BY <1>3 DEF ReadAhead, Got
  <2>. QED  BY <2>1 DEF QuietStep, HandedOver
<1>4. CASE ReadThrough
  <2>1. UNCHANGED <<config, o, given>>
    BY <1>4 DEF ReadThrough, Got
  <2>2. HandedOver => HandedOver'
    BY <1>1, <1>4, <2>1 DEF ReadThrough
  <2>. QED  BY <2>1, <2>2 DEF QuietStep
<1>5. CASE ObserveSSE
    BY <1>5 DEF ObserveSSE
<1>6. CASE Observed
  <2>1. ~o.terminalSeen
    BY DEF Whole, Kept
  <2>. QED  BY <1>6, <2>1 DEF Observed, Deaf, HandStep
<1>7. CASE observeExpectedLength
  <2>0. UNCHANGED <<given, ended, produced>>
    BY <1>7 DEF observeExpectedLength
  <2>1. /\ UNCHANGED <<config, given>> /\ hasExpectedLength /\ pc = "settle"
        /\ HandedOver => HandedOver'
    BY <1>7, <2>0 DEF observeExpectedLength, HandedOver
  <2>2. CASE o' = o
    BY <2>1, <2>2 DEF QuietStep
  <2>3. CASE /\ ~expectedLengthBad /\ n <= remaining /\ remaining' = remaining - n
             /\ remaining' = 0 /\ o' = Finish(o)
    <3>1. remaining = config.length - Len(given) + n
      BY <2>1, <2>3 DEF IInv, Counts
    <3>2. /\ n \in Nat /\ remaining \in 0..config.length /\ Len(given) \in Nat
          /\ config.length \in Nat
      BY <2>1, ConfigTypes DEF IInv, TypeOK
    <3>3. Len(given) = config.length
      BY <2>3, <3>1, <3>2
    <3>. QED  BY <2>1, <2>3, <3>3 DEF FinishStep
  <2>. QED  BY <1>7, <2>2, <2>3 DEF observeExpectedLength
<1>8. CASE Settle
  <2>1. /\ UNCHANGED <<config, given, ended, produced>> /\ ~hasExpectedLength
        /\ pc = "settle" /\ chunk = <<>>
    BY <1>8 DEF Settle, IInv, Reads
  <2>2. HandedOver' = HandedOver
    BY <2>1 DEF HandedOver
  <2>3. err = "eof" => HandedOver
    BY <2>1, EndStands DEF IInv, Reads, Accounted
  <2>. QED  BY <1>8, <2>1, <2>2, <2>3 DEF Settle, QuietStep, FinishStep
<1>9. CASE Peek
  <2>1. UNCHANGED <<config, given>> /\ ~hasExpectedLength /\ pc = "settle" /\ chunk = <<>>
    BY <1>0, <1>9 DEF Peek, IInv, Reads
  <2>2. CASE /\ o' = IF ahead = <<>> /\ pending = "eof" THEN Finish(o) ELSE o
             /\ UNCHANGED <<ended, produced>>
    <3>1. ahead = <<>> /\ pending = "eof" => HandedOver
      BY <2>1, EndStands DEF IInv, Reads
    <3>2. HandedOver' = HandedOver
      BY <2>1, <2>2 DEF HandedOver
    <3>. QED  BY <2>1, <2>2, <3>1, <3>2 DEF QuietStep, FinishStep
  <2>3. ASSUME NEW c, NEW e, SourceRead(c, e), ahead = <<>>,
               o' = IF c = <<>> /\ e = "eof" THEN Finish(o) ELSE o
        PROVE  QuietStep \/ FinishStep
    <3>1. HandedOver => HandedOver'
      BY <1>1, <2>1, <2>3
    <3>2. ASSUME c = <<>>, e = "eof" PROVE HandedOver'
      <4>1. produced' = produced + Len(<<>>) /\ ended'
        BY <2>3, <3>2 DEF SourceRead
      <4>2. /\ Len(given) \in Nat /\ produced \in Nat /\ Len(<<>>) = 0
            /\ produced = Len(given) + Len(<<>>) + Len(<<>>)
        BY <2>1, <2>3 DEF IInv, TypeOK, Accounted
      <4>. QED  BY <2>1, <4>1, <4>2 DEF HandedOver
    <3>. QED  BY <2>1, <2>3, <3>1, <3>2 DEF QuietStep, FinishStep
  <2>. QED  BY <1>9, <2>2, <2>3 DEF Peek
<1>10. CASE Close \/ UNCHANGED vars
  <2>1. UNCHANGED <<config, o, given, produced, ended>>
    BY <1>10 DEF Close, vars
  <2>. QED  BY <2>1 DEF QuietStep, HandedOver
<1>. QED  BY <1>2, <1>3, <1>4, <1>5, <1>6, <1>7, <1>8, <1>9, <1>10 DEF Next

\* A new plain body has been kept whole.
LEMMA InitWhole == Init => Whole
<1>. SUFFICES ASSUME Init PROVE Whole
    OBVIOUS
<1>. DEFINE k == IF ~config.streaming /\ config.length \in 1..MaxJSON THEN config.length ELSE 0
<1>1. o = newCompletionUsageObserver(config.streaming, config.format, config.hooks, k)
    BY DEF Init
<1>. HIDE DEF k
<1>2. /\ o.terminalSeen = FALSE /\ o.terminalNotified = FALSE /\ o.jsonLimited = FALSE
      /\ o.jsonBody = <<>> /\ o.format = config.format
    BY <1>1 DEF newCompletionUsageObserver
<1>3. given = <<>>
    BY DEF Init
<1>. QED  BY <1>2, <1>3 DEF Whole, Kept

\* Every step of a plain body keeps it whole, and is a step of the contract or none.
LEMMA PlainContract ==
    ASSUME IInv, Accounted, Whole, ~config.streaming, [Next]_vars
    PROVE  Whole' /\ (Contract!Next \/ UNCHANGED Contract!vars)
<1>0. /\ Good(o) /\ o.hooks = config.hooks /\ ~o.streaming
      /\ given \in Seq(Symbols) /\ chunk \in Seq(Symbols)
      /\ HandedOver \in BOOLEAN /\ (chunk # <<>> => ~HandedOver)
    BY EndStands DEF IInv, Wrapped, TypeOK
<1>1. Kept(o, given) /\ o.format = config.format
    BY DEF Whole
<1>2. CASE QuietStep
  <2>1. Whole'
    BY <1>1, <1>2 DEF QuietStep, Whole, Kept
  <2>0. HandedOver' \in BOOLEAN
    BY DEF HandedOver
  <2>2. CASE HandedOver' = HandedOver
    BY <1>2, <2>1, <2>2 DEF QuietStep, Contract!vars
  <2>3. CASE HandedOver' # HandedOver
    <3>1. ~HandedOver /\ HandedOver' = TRUE
      BY <1>0, <1>2, <2>0, <2>3 DEF QuietStep
    <3>2. Contract!End
      BY <1>2, <3>1 DEF QuietStep, Contract!End
    <3>. QED  BY <2>1, <3>2 DEF Contract!Next
  <2>. QED  BY <2>1, <2>2, <2>3
<1>3. CASE HandStep
  <2>1. CASE chunk = <<>>
    <3>1. given \o chunk = given
      BY <1>0, <2>1
    <3>2. UNCHANGED <<config, o, given, ended, produced>>
      BY <1>3, <2>1, <3>1 DEF HandStep
    <3>3. HandedOver' = HandedOver
      BY <3>2 DEF HandedOver
    <3>. QED  BY <1>1, <3>2, <3>3 DEF Whole, Kept, Contract!vars
  <2>2. CASE chunk # <<>>
    <3>1. /\ Len(given) < Len(given \o chunk)
          /\ SubSeq(given \o chunk, 1, Len(given)) = given
      BY <1>0, <2>2, Longer
    <3>2. /\ Whole' /\ o'.finished = o.finished /\ o'.usages = o.usages
          /\ o'.evidences = o.evidences /\ o'.terminals = o.terminals
      <4>1. CASE o' = o /\ o.finished
        BY <1>1, <1>3, <4>1 DEF HandStep, Whole, Kept
      <4>2. CASE ~o.finished /\ o' = observeJSON(o, chunk)
        <5>1. /\ Kept(o', given \o chunk) /\ Quiet(o, o') /\ o'.terminals = o.terminals
              /\ o'.format = o.format
          BY <1>0, <1>1, <4>2, ObserveJSONWhole
        <5>2. Whole'
          BY <1>1, <1>3, <5>1 DEF HandStep, Whole, Kept
        <5>. QED  BY <5>1, <5>2 DEF Quiet
      <4>. QED  BY <1>3, <2>2, <4>1, <4>2 DEF HandStep
    <3>3. config' = config /\ given' = given \o chunk /\ ~HandedOver /\ HandedOver' \in BOOLEAN
      BY <1>0, <1>3, <2>2 DEF HandStep, HandedOver
    <3>4. Contract!Hand
      BY <3>1, <3>2, <3>3 DEF Contract!Hand
    <3>. QED  BY <3>2, <3>4 DEF Contract!Next
  <2>. QED  BY <2>1, <2>2
<1>4. CASE FinishStep
  <2>1. CASE o.finished
    <3>1. o' = o
      BY <1>4, <2>1 DEF FinishStep, Finish
    <3>2. QuietStep
      BY <1>4, <3>1 DEF FinishStep, QuietStep
    <3>. QED  BY <1>2, <3>2
  <2>2. CASE ~o.finished
    <3>. DEFINE e == PlainFound(o)
    <3>1. ~o.terminalNotified
      BY <1>1, <2>2 DEF Kept
    <3>2. /\ o'.usages = IF e.outcome = "available" /\ "usage" \in o.hooks
                           THEN <<e.usage>> ELSE <<>>
          /\ o'.evidences = IF "evidence" \in o.hooks THEN <<e>> ELSE <<>>
          /\ o'.terminals = IF "terminal" \in o.hooks THEN 1 ELSE 0
          /\ o'.format = o.format /\ o'.terminalSeen = o.terminalSeen
      BY <1>0, <1>4, <2>2, <3>1, FinishPlain DEF FinishStep, Reported
    <3>3. o'.finished
      BY <1>0, <1>4, FinishKeeps DEF FinishStep
    <3>4. Whole'
      BY <1>1, <1>4, <3>2, <3>3 DEF FinishStep, Whole, Kept
    <3>5. Contract!Verdict = e
      <4>1. Contract!Verdict = Contract!PlainVerdict(given, config.format)
        BY DEF Contract!Verdict
      <4>2. Contract!PlainVerdict(given, config.format) =
              IF Len(given) > MaxJSON THEN Malformed
              ELSE IF given = <<>> THEN Unavailable
              ELSE decodeCompletionUsageEvidence(given, FALSE, config.format)
        BY SameDecode, Zenon DEF Contract!PlainVerdict
      <4>3. CASE o.jsonLimited
        <5>1. Len(given) > MaxJSON
          BY <1>1, <2>2, <4>3 DEF Kept
        <5>. QED  BY <4>1, <4>2, <4>3, <5>1 DEF PlainFound
      <4>4. CASE ~o.jsonLimited
        <5>1. o.jsonBody = given
          BY <1>1, <2>2, <4>4 DEF Kept
        <5>2. Len(given) \in Nat /\ Len(given) <= o.capacity /\ o.capacity \in Nat
              /\ o.capacity <= MaxJSON /\ MaxJSON \in Nat
          BY <1>0, <5>1, MaxJSONIsNumber DEF Good, Buffers
        <5>3. ~(Len(given) > MaxJSON)
          BY <5>2
        <5>. QED  BY <1>1, <4>1, <4>2, <4>4, <5>1, <5>3 DEF PlainFound
      <4>. QED  BY <4>3, <4>4
    <3>. HIDE DEF e
    <3>6. Contract!Told(e)
      BY <1>0, <3>2, Zenon DEF Contract!Told, Contract!Asked, Contract!Once
    <3>7. UNCHANGED <<config, given>> /\ (HandedOver => HandedOver')
      BY <1>4 DEF FinishStep
    <3>8. Contract!Complete'
      BY <1>4, <3>7 DEF FinishStep, hasExpectedLength, Contract!Complete
    <3>9. Contract!Report
      BY <2>2, <3>3, <3>5, <3>6, <3>7, <3>8 DEF Contract!Report
    <3>. QED  BY <3>4, <3>9 DEF Contract!Next
  <2>. QED  BY <2>1, <2>2
<1>. QED  BY <1>2, <1>3, <1>4, PlainSteps

----------------------------------------------------------------------------
(* Streams: the pieces of a sequence *)

\* One more element: it ends the rest, or goes into it.
Start == [ended |-> <<>>, rest |-> <<>>]
Cutting(p, x, sep) ==
    IF x \in sep THEN [ended |-> Append(p.ended, p.rest), rest |-> <<>>]
                 ELSE [ended |-> p.ended, rest |-> Append(p.rest, x)]

\* upTo in Split, and the recursion up to the m-th element.
SplitUpTo(f, s, sep, m) ==
    f = [i \in 0..m |-> IF i = 0 THEN Start ELSE Cutting(f[i - 1], s[i], sep)]
SplitFcn(s, sep) == CHOOSE f : SplitUpTo(f, s, sep, Len(s))

\* Split is that function at the last element.
LEMMA SplitLast == ASSUME NEW s, NEW sep PROVE Contract!Split(s, sep) = SplitFcn(s, sep)[Len(s)]
BY DEF Contract!Split, SplitFcn, SplitUpTo, Start, Cutting

\* There is such a function, however long the sequence.
LEMMA SplitExists ==
    ASSUME NEW s, NEW sep, NEW m0 \in Nat
    PROVE  \E f : SplitUpTo(f, s, sep, m0)
<1>. DEFINE Bad == {m \in Nat : ~\E f : SplitUpTo(f, s, sep, m)}
<1>1. SUFFICES ASSUME Bad # {} PROVE FALSE
    OBVIOUS
<1>2. PICK m \in Bad : \A k \in Bad : m <= k
    BY <1>1, LeastNat
<1>3. CASE m = 0
  <2>. DEFINE f == [i \in 0..m |-> Start]
  <2>1. SplitUpTo(f, s, sep, m)
    BY <1>3 DEF SplitUpTo
  <2>. QED  BY <2>1
<1>4. CASE m # 0
  <2>1. m - 1 \in Nat /\ m - 1 \notin Bad
    BY <1>2, <1>4
  <2>2. PICK g : SplitUpTo(g, s, sep, m - 1)
    BY <2>1
  <2>. DEFINE f == [i \in 0..m |-> IF i = m THEN Cutting(g[m - 1], s[m], sep) ELSE g[i]]
  <2>3. \A i \in 0..(m - 1) : f[i] = g[i]
    BY <2>1
  <2>4. \A i \in 0..(m - 1) : g[i] = IF i = 0 THEN Start ELSE Cutting(g[i - 1], s[i], sep)
    BY <2>2 DEF SplitUpTo
  <2>5. \A i \in 0..m : f[i] = IF i = 0 THEN Start ELSE Cutting(f[i - 1], s[i], sep)
    <3>. SUFFICES ASSUME NEW i \in 0..m
                  PROVE  f[i] = IF i = 0 THEN Start ELSE Cutting(f[i - 1], s[i], sep)
      OBVIOUS
    <3>1. CASE i = m
      <4>1. f[i] = Cutting(g[m - 1], s[m], sep)
        BY <3>1
      <4>2. f[i - 1] = g[m - 1]
        BY <2>1, <2>3, <3>1
      <4>. QED  BY <1>4, <3>1, <4>1, <4>2
    <3>2. CASE i # m
      <4>1. i \in 0..(m - 1)
        BY <3>2
      <4>2. i # 0 => f[i - 1] = g[i - 1]
        BY <2>3, <4>1
      <4>. QED  BY <2>3, <2>4, <4>1, <4>2
    <3>. QED  BY <3>1, <3>2
  <2>6. SplitUpTo(f, s, sep, m)
    <3>. HIDE DEF f
    <3>1. f = [i \in 0..m |-> f[i]]
      BY DEF f
    <3>. QED  BY <2>5, <3>1 DEF SplitUpTo
  <2>. QED  BY <2>6
<1>. QED  BY <1>3, <1>4

\* One step of the recursion.
LEMMA SplitSteps ==
    ASSUME NEW S, NEW s \in Seq(S), NEW sep
    PROVE  /\ SplitFcn(s, sep)[0] = Start
           /\ \A i \in 1..Len(s) :
                 SplitFcn(s, sep)[i] = Cutting(SplitFcn(s, sep)[i - 1], s[i], sep)
<1>1. Len(s) \in Nat
    OBVIOUS
<1>2. \E f : SplitUpTo(f, s, sep, Len(s))
    BY <1>1, SplitExists, Zenon
<1>. DEFINE f == SplitFcn(s, sep)
<1>3. SplitUpTo(f, s, sep, Len(s))
    BY <1>2, Zenon DEF SplitFcn
<1>. HIDE DEF f
<1>4. \A i \in 0..Len(s) : f[i] = IF i = 0 THEN Start ELSE Cutting(f[i - 1], s[i], sep)
    BY <1>3 DEF SplitUpTo
<1>. QED  BY <1>1, <1>4 DEF f

\* The pieces of a sequence are sequences.
LEMMA SplitTypes ==
    ASSUME NEW S, NEW s \in Seq(S), NEW sep
    PROVE  /\ Contract!Split(s, sep) \in [ended : Seq(Seq(S)), rest : Seq(S)]
           /\ s = <<>> => Contract!Split(s, sep) = Start
<1>. DEFINE f == SplitFcn(s, sep)
            Pair == [ended : Seq(Seq(S)), rest : Seq(S)]
            Bad == {i \in 0..Len(s) : f[i] \notin Pair}
<1>1. f[0] = Start /\ \A i \in 1..Len(s) : f[i] = Cutting(f[i - 1], s[i], sep)
    BY SplitSteps, Zenon
<1>2. Contract!Split(s, sep) = f[Len(s)] /\ Len(s) \in Nat
    BY SplitLast
<1>. HIDE DEF f
<1>3. Start \in Pair
    BY DEF Start
<1>4. ASSUME NEW p \in Pair, NEW x \in S PROVE Cutting(p, x, sep) \in Pair
    BY <1>4 DEF Cutting
<1>5. Bad = {}
  <2>. SUFFICES ASSUME Bad # {} PROVE FALSE
    OBVIOUS
  <2>0. Bad \subseteq Nat
    BY <1>2
  <2>1. PICK k \in Bad : \A j \in Bad : k <= j
    BY <2>0, LeastNat, Zenon
  <2>2. k # 0
    BY <1>1, <1>3, <2>1
  <2>3. k \in 1..Len(s) /\ k - 1 \in 0..Len(s) /\ k - 1 \notin Bad /\ s[k] \in S
    BY <1>2, <2>1, <2>2
  <2>. QED  BY <1>1, <1>4, <2>1, <2>3
<1>. QED  BY <1>1, <1>2, <1>5

\* One more element at the end of the sequence.
LEMMA SplitAppend ==
    ASSUME NEW S, NEW s \in Seq(S), NEW x \in S, NEW sep
    PROVE  Contract!Split(Append(s, x), sep) = Cutting(Contract!Split(s, sep), x, sep)
<1>. DEFINE t == Append(s, x)
            f == SplitFcn(s, sep)
            g == SplitFcn(t, sep)
            Bad == {i \in 0..Len(s) : f[i] # g[i]}
<1>0. /\ t \in Seq(S) /\ Len(t) = Len(s) + 1 /\ Len(s) \in Nat /\ t[Len(s) + 1] = x
      /\ \A i \in 1..Len(s) : t[i] = s[i]
    OBVIOUS
<1>. HIDE DEF t
<1>1. f[0] = Start /\ \A i \in 1..Len(s) : f[i] = Cutting(f[i - 1], s[i], sep)
    BY SplitSteps, Zenon
<1>2. g[0] = Start /\ \A i \in 1..Len(t) : g[i] = Cutting(g[i - 1], t[i], sep)
    BY <1>0, SplitSteps, Zenon
<1>3. Contract!Split(s, sep) = f[Len(s)] /\ Contract!Split(t, sep) = g[Len(t)]
    BY SplitLast
<1>. HIDE DEF f, g
<1>4. Bad = {}
  <2>. SUFFICES ASSUME Bad # {} PROVE FALSE
    OBVIOUS
  <2>0. Bad \subseteq Nat
    BY <1>0
  <2>1. PICK k \in Bad : \A j \in Bad : k <= j
    BY <2>0, LeastNat, Zenon
  <2>2. k # 0
    BY <1>1, <1>2, <2>1
  <2>3. k \in 1..Len(s) /\ k \in 1..Len(t) /\ k - 1 \in 0..Len(s) /\ k - 1 \notin Bad
    BY <1>0, <2>1, <2>2
  <2>4. f[k - 1] = g[k - 1] /\ s[k] = t[k]
    BY <1>0, <2>3
  <2>. QED  BY <1>1, <1>2, <2>1, <2>3, <2>4
<1>5. f[Len(s)] = g[Len(s)]
    BY <1>0, <1>4
<1>6. g[Len(t)] = Cutting(g[Len(s)], x, sep)
  <2>1. Len(t) \in 1..Len(t) /\ Len(t) - 1 = Len(s) /\ t[Len(t)] = x
    BY <1>0
  <2>. QED  BY <1>2, <2>1
<1>. QED  BY <1>3, <1>5, <1>6 DEF t

----------------------------------------------------------------------------
(* Streams: the data of an event *)

\* The contract looks at bytes as the observer does.
LEMMA SameBytes ==
    /\ \A b : Contract!TrimSpace(b) = TrimSpace(b) /\ Contract!MentionsUsage(b) = MentionsUsage(b)
    /\ \A b : Contract!TrimCR(b) = TrimCR(b)
    /\ \A b : Contract!IsData(b) = IsData(b) /\ Contract!DataOf(b) = DataOf(b)
BY Zenon DEF Contract!TrimSpace, TrimSpace, Contract!Space, Space, Contract!MentionsUsage,
   MentionsUsage, Contract!Docs, Docs, Contract!TrimCR, TrimCR, Contract!IsData, IsData,
   Contract!DataOf, DataOf

\* One more line: a data line is joined to those before it.
HasData(ev, k) == \E j \in 1..k : IsData(ev[j])
Joining(d, ev, k) ==
    IF ~IsData(ev[k]) THEN d
    ELSE d \o (IF HasData(ev, k - 1) THEN <<"nl">> ELSE <<>>) \o DataOf(TrimCR(ev[k]))

\* data in EventData, and the recursion up to the m-th line.
DataUpTo(f, ev, m) == f = [k \in 0..m |-> IF k = 0 THEN <<>> ELSE Joining(f[k - 1], ev, k)]
DataFcn(ev) == CHOOSE f : DataUpTo(f, ev, Len(ev))

\* EventData is that function at the last line.
LEMMA DataLast == ASSUME NEW ev PROVE Contract!EventData(ev) = DataFcn(ev)[Len(ev)]
<1>1. DataFcn(ev) =
        CHOOSE f : f = [k \in 0..Len(ev) |->
                          IF k = 0 THEN <<>>
                          ELSE IF ~Contract!IsData(ev[k]) THEN f[k - 1]
                          ELSE f[k - 1] \o (IF \E j \in 1..(k - 1) : Contract!IsData(ev[j])
                                              THEN <<"nl">> ELSE <<>>)
                                        \o Contract!DataOf(Contract!TrimCR(ev[k]))]
    BY Zenon DEF DataFcn, DataUpTo, Joining, HasData, Contract!IsData, IsData, Contract!DataOf,
       DataOf, Contract!TrimCR, TrimCR
<1>. QED  BY <1>1, Zenon DEF Contract!EventData

\* There is such a function, however many lines the event has.
LEMMA DataExists ==
    ASSUME NEW ev, NEW m0 \in Nat
    PROVE  \E f : DataUpTo(f, ev, m0)
<1>. DEFINE Bad == {m \in Nat : ~\E f : DataUpTo(f, ev, m)}
<1>1. SUFFICES ASSUME Bad # {} PROVE FALSE
    OBVIOUS
<1>2. PICK m \in Bad : \A k \in Bad : m <= k
    BY <1>1, LeastNat
<1>3. CASE m = 0
  <2>. DEFINE f == [i \in 0..m |-> <<>>]
  <2>1. DataUpTo(f, ev, m)
    BY <1>3 DEF DataUpTo
  <2>. QED  BY <2>1
<1>4. CASE m # 0
  <2>1. m - 1 \in Nat /\ m - 1 \notin Bad
    BY <1>2, <1>4
  <2>2. PICK g : DataUpTo(g, ev, m - 1)
    BY <2>1
  <2>. DEFINE f == [i \in 0..m |-> IF i = m THEN Joining(g[m - 1], ev, m) ELSE g[i]]
  <2>3. \A i \in 0..(m - 1) : f[i] = g[i]
    BY <2>1
  <2>4. \A i \in 0..(m - 1) : g[i] = IF i = 0 THEN <<>> ELSE Joining(g[i - 1], ev, i)
    BY <2>2 DEF DataUpTo
  <2>5. \A i \in 0..m : f[i] = IF i = 0 THEN <<>> ELSE Joining(f[i - 1], ev, i)
    <3>. SUFFICES ASSUME NEW i \in 0..m
                  PROVE  f[i] = IF i = 0 THEN <<>> ELSE Joining(f[i - 1], ev, i)
      OBVIOUS
    <3>1. CASE i = m
      <4>1. f[i] = Joining(g[m - 1], ev, m)
        BY <3>1
      <4>2. f[i - 1] = g[m - 1]
        BY <2>1, <2>3, <3>1
      <4>. QED  BY <1>4, <3>1, <4>1, <4>2
    <3>2. CASE i # m
      <4>1. i \in 0..(m - 1)
        BY <3>2
      <4>2. i # 0 => f[i - 1] = g[i - 1]
        BY <2>3, <4>1
      <4>. QED  BY <2>3, <2>4, <4>1, <4>2
    <3>. QED  BY <3>1, <3>2
  <2>6. DataUpTo(f, ev, m)
    <3>. HIDE DEF f
    <3>1. f = [i \in 0..m |-> f[i]]
      BY DEF f
    <3>. QED  BY <2>5, <3>1 DEF DataUpTo
  <2>. QED  BY <2>6
<1>. QED  BY <1>3, <1>4

\* One step of the recursion.
LEMMA DataSteps ==
    ASSUME NEW S, NEW ev \in Seq(S)
    PROVE  /\ DataFcn(ev)[0] = <<>>
           /\ \A k \in 1..Len(ev) : DataFcn(ev)[k] = Joining(DataFcn(ev)[k - 1], ev, k)
<1>1. Len(ev) \in Nat
    OBVIOUS
<1>2. \E f : DataUpTo(f, ev, Len(ev))
    BY <1>1, DataExists, Zenon
<1>. DEFINE f == DataFcn(ev)
<1>3. DataUpTo(f, ev, Len(ev))
    BY <1>2, Zenon DEF DataFcn
<1>. HIDE DEF f
<1>4. \A k \in 0..Len(ev) : f[k] = IF k = 0 THEN <<>> ELSE Joining(f[k - 1], ev, k)
    BY <1>3 DEF DataUpTo
<1>. QED  BY <1>1, <1>4 DEF f

Line == Seq(Symbols)

\* What a data line carries is a sequence of symbols.
LEMMA DataTypes ==
    ASSUME NEW line \in Line, IsData(line)
    PROVE  DataOf(TrimCR(line)) \in Line /\ IsData(TrimCR(line)) /\ TrimCR(line) \in Line
<1>1. line # <<>> /\ line[1] = "data" /\ Len(line) \in Nat
    BY DEF IsData, Line
<1>2. TrimCR(line) \in Line
    BY DEF TrimCR, Line
<1>3. TrimCR(line) # <<>> /\ TrimCR(line)[1] = "data"
  <2>1. CASE line[Len(line)] = "cr"
    <3>1. Len(line) # 1 /\ Len(line) # 0
      BY <1>1, <2>1 DEF Line
    <3>. DEFINE m == Len(line) - 1
    <3>2. TrimCR(line) = SubSeq(line, 1, m)
      BY <1>1, <2>1 DEF TrimCR
    <3>3. m \in Nat /\ m >= 1 /\ m <= Len(line)
      <4>. DEFINE l == Len(line)
      <4>1. l \in Nat /\ l # 0 /\ l # 1 /\ m = l - 1
        BY <1>1, <3>1
      <4>. HIDE DEF l, m
      <4>2. m \in Nat /\ m >= 1 /\ m <= l
        BY <4>1
      <4>. QED  BY <4>2 DEF l
    <3>. HIDE DEF m
    <3>4. Len(SubSeq(line, 1, m)) = m /\ SubSeq(line, 1, m)[1] = line[1]
      <4>1. \A i \in 1..m : line[i] \in Symbols
        BY <3>3 DEF Line
      <4>2. /\ Len(SubSeq(line, 1, m)) = IF 1 <= m THEN m - 1 + 1 ELSE 0
            /\ \A i \in 1..(m - 1 + 1) : SubSeq(line, 1, m)[i] = line[1 + i - 1]
        BY <3>3, <4>1, SubSeqProperties
      <4>. QED  BY <3>3, <4>2
    <3>5. SubSeq(line, 1, m) # <<>>
      BY <3>3, <3>4
    <3>. QED  BY <1>1, <3>2, <3>4, <3>5
  <2>2. CASE line[Len(line)] # "cr"
    BY <1>1, <2>2 DEF TrimCR
  <2>. QED  BY <2>1, <2>2
<1>4. DataOf(TrimCR(line)) \in Line
  <2>. DEFINE t == TrimCR(line)
  <2>. HIDE DEF t
  <2>1. t \in Line /\ t # <<>>
    BY <1>2, <1>3 DEF t
  <2>2. DataOf(t) \in Line
    BY <2>1 DEF DataOf, Line
  <2>. QED  BY <2>2 DEF t
<1>. QED  BY <1>2, <1>3, <1>4 DEF IsData

\* The data of an event is a sequence of symbols.
LEMMA EventDataTypes ==
    ASSUME NEW ev \in Seq(Line)
    PROVE  Contract!EventData(ev) \in Line /\ (ev = <<>> => Contract!EventData(ev) = <<>>)
<1>. DEFINE f == DataFcn(ev)
            Bad == {i \in 0..Len(ev) : f[i] \notin Line}
<1>1. f[0] = <<>> /\ \A k \in 1..Len(ev) : f[k] = Joining(f[k - 1], ev, k)
    BY DataSteps, Zenon
<1>2. Contract!EventData(ev) = f[Len(ev)] /\ Len(ev) \in Nat
    BY DataLast
<1>. HIDE DEF f
<1>3. <<>> \in Line /\ <<"nl">> \in Line
    BY DEF Line, Symbols
<1>4. ASSUME NEW d \in Line, NEW k \in 1..Len(ev) PROVE Joining(d, ev, k) \in Line
  <2>1. ev[k] \in Line
    OBVIOUS
  <2>2. CASE ~IsData(ev[k])
    BY <1>4, <2>2 DEF Joining
  <2>3. CASE IsData(ev[k])
    <3>. DEFINE j == IF HasData(ev, k - 1) THEN <<"nl">> ELSE <<>>
                c == DataOf(TrimCR(ev[k]))
    <3>1. j \in Line /\ c \in Line
      BY <1>3, <2>1, <2>3, DataTypes, Zenon
    <3>2. Joining(d, ev, k) = d \o j \o c
      BY <2>3 DEF Joining
    <3>. HIDE DEF j, c
    <3>3. d \o j \in Line
      BY <1>4, <3>1, ConcatProperties, Zenon DEF Line
    <3>4. (d \o j) \o c \in Line
      BY <3>1, <3>3, ConcatProperties, Zenon DEF Line
    <3>. QED  BY <3>2, <3>4, Zenon
  <2>. QED  BY <2>2, <2>3
<1>5. Bad = {}
  <2>. SUFFICES ASSUME Bad # {} PROVE FALSE
    OBVIOUS
  <2>0. Bad \subseteq Nat
    BY <1>2
  <2>1. PICK k \in Bad : \A j \in Bad : k <= j
    BY <2>0, LeastNat, Zenon
  <2>2. k # 0
    BY <1>1, <1>3, <2>1
  <2>3. k \in 1..Len(ev) /\ k - 1 \in 0..Len(ev) /\ k - 1 \notin Bad
    BY <1>2, <2>1, <2>2
  <2>. QED  BY <1>1, <1>4, <2>1, <2>3
<1>. QED  BY <1>1, <1>2, <1>5

\* One more line at the end of the event.
LEMMA EventDataAppend ==
    ASSUME NEW ev \in Seq(Line), NEW line \in Line
    PROVE  Contract!EventData(Append(ev, line)) =
             IF ~IsData(line) THEN Contract!EventData(ev)
             ELSE Contract!EventData(ev) \o (IF HasData(ev, Len(ev)) THEN <<"nl">> ELSE <<>>)
                                         \o DataOf(TrimCR(line))
<1>. DEFINE t == Append(ev, line)
            f == DataFcn(ev)
            g == DataFcn(t)
            Bad == {i \in 0..Len(ev) : f[i] # g[i]}
<1>0. /\ t \in Seq(Line) /\ Len(t) = Len(ev) + 1 /\ Len(ev) \in Nat /\ t[Len(ev) + 1] = line
      /\ \A i \in 1..Len(ev) : t[i] = ev[i]
    OBVIOUS
<1>. HIDE DEF t
<1>1. f[0] = <<>> /\ \A k \in 1..Len(ev) : f[k] = Joining(f[k - 1], ev, k)
    BY DataSteps, Zenon
<1>2. g[0] = <<>> /\ \A k \in 1..Len(t) : g[k] = Joining(g[k - 1], t, k)
    BY <1>0, DataSteps, Zenon
<1>3. Contract!EventData(ev) = f[Len(ev)] /\ Contract!EventData(t) = g[Len(t)]
    BY DataLast
<1>. HIDE DEF f, g
<1>4. \A k \in 0..Len(ev) : HasData(t, k) <=> HasData(ev, k)
    BY <1>0 DEF HasData
<1>5. Bad = {}
  <2>. SUFFICES ASSUME Bad # {} PROVE FALSE
    OBVIOUS
  <2>0. Bad \subseteq Nat
    BY <1>0
  <2>1. PICK k \in Bad : \A j \in Bad : k <= j
    BY <2>0, LeastNat, Zenon
  <2>2. k # 0
    BY <1>1, <1>2, <2>1
  <2>3. k \in 1..Len(ev) /\ k \in 1..Len(t) /\ k - 1 \in 0..Len(ev) /\ k - 1 \notin Bad
    BY <1>0, <2>1, <2>2
  <2>4. f[k - 1] = g[k - 1] /\ ev[k] = t[k] /\ (HasData(t, k - 1) <=> HasData(ev, k - 1))
    BY <1>0, <1>4, <2>3
  <2>5. Joining(f[k - 1], ev, k) = Joining(g[k - 1], t, k)
    BY <2>4 DEF Joining
  <2>. QED  BY <1>1, <1>2, <2>1, <2>3, <2>5
<1>6. f[Len(ev)] = g[Len(ev)]
    BY <1>0, <1>5
<1>7. g[Len(t)] = Joining(g[Len(ev)], t, Len(t))
  <2>1. Len(t) \in 1..Len(t) /\ Len(t) - 1 = Len(ev)
    BY <1>0
  <2>. QED  BY <1>2, <2>1
<1>8. t[Len(t)] = line /\ Len(t) - 1 = Len(ev) /\ (HasData(t, Len(ev)) <=> HasData(ev, Len(ev)))
    BY <1>0, <1>4
<1>. QED  BY <1>3, <1>6, <1>7, <1>8 DEF Joining, t

----------------------------------------------------------------------------
(* Streams: the events that have ended, the lines of the next one, the next line *)

EventsOf(b) == Contract!Events(b).ended
EventOf(b) == Contract!Events(b).rest
LineOf(b) == Contract!Lines(b).rest

\* The parts of a stream are sequences, empty at its start.
LEMMA ViewTypes ==
    ASSUME NEW b \in Line
    PROVE  /\ Contract!Lines(b).ended \in Seq(Line) /\ LineOf(b) \in Line
           /\ EventsOf(b) \in Seq(Seq(Line)) /\ EventOf(b) \in Seq(Line)
           /\ b = <<>> => LineOf(b) = <<>> /\ EventsOf(b) = <<>> /\ EventOf(b) = <<>>
<1>. DEFINE L == Contract!Lines(b)
            E == Contract!Events(b)
<1>1. L \in [ended : Seq(Line), rest : Line] /\ (b = <<>> => L = Start)
    BY SplitTypes, Zenon DEF Contract!Lines, Line
<1>2. E = Contract!Split(L.ended, Contract!Blank)
    BY Zenon DEF Contract!Events
<1>. HIDE DEF L, E
<1>3. L.ended \in Seq(Line) /\ L.rest \in Line
    BY <1>1
<1>4. E \in [ended : Seq(Seq(Line)), rest : Seq(Line)] /\ (L.ended = <<>> => E = Start)
    BY <1>2, <1>3, SplitTypes, Zenon
<1>5. E.ended \in Seq(Seq(Line)) /\ E.rest \in Seq(Line)
    BY <1>4
<1>6. ASSUME b = <<>> PROVE L.rest = <<>> /\ E.ended = <<>> /\ E.rest = <<>>
    BY <1>1, <1>4, <1>6 DEF Start
<1>. QED  BY <1>3, <1>5, <1>6 DEF L, E, EventsOf, EventOf, LineOf

\* A symbol other than a line feed goes into the next line.
LEMMA ViewByte ==
    ASSUME NEW b \in Line, NEW x \in Symbols, x # "nl"
    PROVE  /\ EventsOf(Append(b, x)) = EventsOf(b) /\ EventOf(Append(b, x)) = EventOf(b)
           /\ LineOf(Append(b, x)) = Append(LineOf(b), x)
<1>1. Contract!Lines(Append(b, x)) = Cutting(Contract!Lines(b), x, {"nl"})
    BY SplitAppend, Zenon DEF Contract!Lines, Line
<1>2. Contract!Lines(Append(b, x)) =
        [ended |-> Contract!Lines(b).ended, rest |-> Append(Contract!Lines(b).rest, x)]
    BY <1>1 DEF Cutting
<1>3. /\ Contract!Lines(Append(b, x)).ended = Contract!Lines(b).ended
      /\ Contract!Lines(Append(b, x)).rest = Append(Contract!Lines(b).rest, x)
    BY <1>2
<1>. QED  BY <1>3, Zenon DEF EventsOf, EventOf, LineOf, Contract!Events

\* A line feed ends the line, and a blank line the event.
LEMMA ViewLineFeed ==
    ASSUME NEW b \in Line
    PROVE  LET c == Append(b, "nl")
           IN /\ LineOf(c) = <<>>
              /\ IF LineOf(b) \in Contract!Blank
                   THEN EventsOf(c) = Append(EventsOf(b), EventOf(b)) /\ EventOf(c) = <<>>
                   ELSE EventsOf(c) = EventsOf(b) /\ EventOf(c) = Append(EventOf(b), LineOf(b))
<1>. DEFINE c == Append(b, "nl")
            L == Contract!Lines(b)
            M == Contract!Lines(c)
<1>0. "nl" \in Symbols
    BY DEF Symbols
<1>1. M = Cutting(L, "nl", {"nl"})
    BY <1>0, SplitAppend, Zenon DEF Contract!Lines, Line
<1>2. L.ended \in Seq(Line) /\ L.rest \in Line
    BY ViewTypes DEF LineOf
<1>. HIDE DEF L, M
<1>3. M.ended = Append(L.ended, L.rest) /\ M.rest = <<>>
    BY <1>1 DEF Cutting
<1>4. Contract!Split(M.ended, Contract!Blank) =
        Cutting(Contract!Split(L.ended, Contract!Blank), L.rest, Contract!Blank)
    BY <1>2, <1>3, SplitAppend, Zenon
<1>5. Contract!Events(c) = Cutting(Contract!Events(b), L.rest, Contract!Blank)
    BY <1>4, Zenon DEF Contract!Events, L, M
<1>. DEFINE E == Contract!Events(b)
            F == Contract!Events(c)
<1>. HIDE DEF E, F
<1>6. F = Cutting(E, L.rest, Contract!Blank)
    BY <1>5 DEF E, F
<1>7. IF L.rest \in Contract!Blank
        THEN F.ended = Append(E.ended, E.rest) /\ F.rest = <<>>
        ELSE F.ended = E.ended /\ F.rest = Append(E.rest, L.rest)
    BY <1>6 DEF Cutting
<1>. QED  BY <1>3, <1>7 DEF EventsOf, EventOf, LineOf, E, F, L, M

\* All events of a stream that ends here.
LEMMA ViewEnd ==
    ASSUME NEW b \in Line
    PROVE  Contract!AllEvents(b) =
             IF LineOf(b) \in Contract!Blank
               THEN Append(Append(EventsOf(b), EventOf(b)), <<>>)
               ELSE Append(EventsOf(b), Append(EventOf(b), LineOf(b)))
<1>. DEFINE L == Contract!Lines(b)
            E == Contract!Events(b)
            F == Contract!Split(Append(L.ended, L.rest), Contract!Blank)
<1>1. L.ended \in Seq(Line) /\ L.rest \in Line
    BY ViewTypes DEF LineOf
<1>2. F = Cutting(E, L.rest, Contract!Blank)
    BY <1>1, SplitAppend, Zenon DEF Contract!Events
<1>3. Contract!AllEvents(b) = Append(F.ended, F.rest)
    BY DEF Contract!AllEvents
<1>. HIDE DEF L, E, F
<1>4. IF L.rest \in Contract!Blank
        THEN F.ended = Append(E.ended, E.rest) /\ F.rest = <<>>
        ELSE F.ended = E.ended /\ F.rest = Append(E.rest, L.rest)
    BY <1>2 DEF Cutting
<1>. QED  BY <1>3, <1>4 DEF EventsOf, EventOf, LineOf, E, L

\* es begins with ds.
Begins(es, ds) == \A i \in 1..Len(ds) : i \in 1..Len(es) /\ es[i] = ds[i]

\* A longer stream has the same ended events, and perhaps more.
LEMMA ViewGrows ==
    ASSUME NEW b \in Line, NEW c \in Line
    PROVE  Begins(EventsOf(b \o c), EventsOf(b))
<1>. DEFINE at(k) == b \o SubSeq(c, 1, k)
            Bad == {k \in 0..Len(c) : ~Begins(EventsOf(at(k)), EventsOf(b))}
<1>0. Len(c) \in Nat /\ Len(b) \in Nat
    BY DEF Line
<1>1. \A k \in 0..Len(c) : SubSeq(c, 1, k) \in Line /\ at(k) \in Line
  <2>. SUFFICES ASSUME NEW k \in 0..Len(c) PROVE SubSeq(c, 1, k) \in Line /\ at(k) \in Line
    OBVIOUS
  <2>1. SubSeq(c, 1, k) \in Line
    BY <1>0 DEF Line
  <2>. QED  BY <2>1, ConcatProperties, Zenon DEF Line
<1>2. at(0) = b /\ at(Len(c)) = b \o c
  <2>1. SubSeq(c, 1, 0) = <<>>
    BY SubSeqEmpty
  <2>2. SubSeq(c, 1, Len(c)) = c
    BY SubSeqFull, Zenon DEF Line
  <2>3. b \o <<>> = b
    BY ConcatEmptySeq, Zenon DEF Line
  <2>. QED  BY <2>1, <2>2, <2>3, Zenon
<1>3. \A k \in 1..Len(c) : at(k) = Append(at(k - 1), c[k]) /\ c[k] \in Symbols
  <2>. SUFFICES ASSUME NEW k \in 1..Len(c)
                PROVE  at(k) = Append(at(k - 1), c[k]) /\ c[k] \in Symbols
    OBVIOUS
  <2>. DEFINE d == SubSeq(c, 1, k - 1)
  <2>1. c[k] \in Symbols /\ k - 1 \in 0..Len(c)
    BY <1>0 DEF Line
  <2>2. d \in Line
    BY <1>1, <2>1, Zenon
  <2>3. SubSeq(c, 1, k) = Append(d, c[k])
    BY <1>0 DEF Line
  <2>. HIDE DEF d
  <2>4. b \o Append(d, c[k]) = Append(b \o d, c[k])
    BY <2>1, <2>2 DEF Line
  <2>. QED  BY <2>1, <2>3, <2>4 DEF d
<1>. HIDE DEF at
<1>4. ASSUME NEW d \in Line, NEW x \in Symbols, Begins(EventsOf(d), EventsOf(b))
      PROVE  Begins(EventsOf(Append(d, x)), EventsOf(b))
  <2>1. EventsOf(d) \in Seq(Seq(Line)) /\ EventsOf(b) \in Seq(Seq(Line)) /\ EventOf(d) \in Seq(Line)
    BY ViewTypes
  <2>2. EventsOf(Append(d, x)) \in {EventsOf(d), Append(EventsOf(d), EventOf(d))}
    BY ViewByte, ViewLineFeed
  <2>. DEFINE es == EventsOf(d)
              ev == EventOf(d)
              ds == EventsOf(b)
              fs == EventsOf(Append(d, x))
  <2>. HIDE DEF es, ev, ds, fs
  <2>3. /\ es \in Seq(Seq(Line)) /\ ds \in Seq(Seq(Line)) /\ ev \in Seq(Line)
        /\ fs \in {es, Append(es, ev)} /\ Begins(es, ds)
    BY <1>4, <2>1, <2>2 DEF es, ev, ds, fs
  <2>4. Begins(fs, ds)
    <3>1. CASE fs = es
      BY <2>3, <3>1
    <3>2. CASE fs = Append(es, ev)
      <4>1. Len(fs) = Len(es) + 1 /\ Len(es) \in Nat /\ Len(ds) \in Nat
        BY <2>3, <3>2
      <4>2. \A i \in 1..Len(es) : fs[i] = es[i]
        BY <2>3, <3>2
      <4>. QED  BY <2>3, <4>1, <4>2 DEF Begins
    <3>. QED  BY <2>3, <3>1, <3>2
  <2>. QED  BY <2>4 DEF fs, ds
<1>5. Bad = {}
  <2>. SUFFICES ASSUME Bad # {} PROVE FALSE
    OBVIOUS
  <2>0. Bad \subseteq Nat
    BY <1>0
  <2>1. PICK k \in Bad : \A j \in Bad : k <= j
    BY <2>0, LeastNat, Zenon
  <2>2. k # 0
    BY <1>2, <2>1 DEF Begins
  <2>3. k \in 1..Len(c) /\ k - 1 \in 0..Len(c) /\ k - 1 \notin Bad
    BY <1>0, <2>1, <2>2
  <2>4. Begins(EventsOf(at(k - 1)), EventsOf(b)) /\ at(k - 1) \in Line
    BY <1>1, <2>3
  <2>5. at(k) = Append(at(k - 1), c[k]) /\ c[k] \in Symbols
    BY <1>3, <2>3
  <2>6. Begins(EventsOf(at(k)), EventsOf(b))
    BY <1>4, <2>4, <2>5, Zenon
  <2>. QED  BY <2>1, <2>6
<1>6. Len(c) \in 0..Len(c)
    BY <1>0
<1>. QED  BY <1>2, <1>5, <1>6, Zenon

----------------------------------------------------------------------------
(* Streams: the candidate and the verdict *)

\* What the events say, one by one.
Verdicts(evs, format) == [i \in 1..Len(evs) |-> Contract!EventVerdict(evs[i], format)]

\* The candidate is the usage of the only event that has one, unless something has
\* spoiled it.
Candidate(x, v) ==
    /\ x.candidateInvalid <=>
         \/ \E i \in DOMAIN v : v[i].outcome = "malformed"
         \/ \E i, j \in DOMAIN v : i # j /\ v[i].outcome = "available" /\ v[j].outcome = "available"
    /\ x.candidateValid <=> \E i \in DOMAIN v : v[i].outcome = "available"
    /\ x.candidateValid /\ ~x.candidateInvalid =>
         \E i \in DOMAIN v : v[i].outcome = "available" /\ v[i].usage = x.candidate

\* What Noted makes of the candidate.
Noting(x, y, e) ==
    /\ y.candidateValid <=> x.candidateValid \/ e.outcome = "available"
    /\ y.candidateInvalid <=> \/ x.candidateInvalid \/ e.outcome = "malformed"
                              \/ e.outcome = "available" /\ x.candidateValid
    /\ y.candidate = IF e.outcome = "available" /\ ~x.candidateValid THEN e.usage ELSE x.candidate

\* One more event.
LEMMA CandidateAdd ==
    ASSUME NEW evs, Len(evs) \in Nat, NEW ev, NEW format, NEW x, NEW y,
           NEW fvs, Len(fvs) = Len(evs) + 1, fvs[Len(evs) + 1] = ev,
           \A i \in 1..Len(evs) : fvs[i] = evs[i],
           Candidate(x, Verdicts(evs, format)), Noting(x, y, Contract!EventVerdict(ev, format))
    PROVE  Candidate(y, Verdicts(fvs, format))
<1>. DEFINE v == Verdicts(evs, format)
            w == Verdicts(fvs, format)
            e == Contract!EventVerdict(ev, format)
            m == Len(evs)
<1>1. /\ DOMAIN v = 1..m /\ DOMAIN w = 1..(m + 1) /\ w[m + 1] = e
      /\ \A i \in 1..m : w[i] = v[i]
    BY DEF Verdicts
<1>. HIDE DEF v, w, e, m
<1>2. m \in Nat /\ Candidate(x, v) /\ Noting(x, y, e)
    BY DEF v, e, m
<1>3. \A i \in 1..(m + 1) : i \in 1..m \/ i = m + 1
    BY <1>2
<1>4. 1..m \subseteq 1..(m + 1) /\ m + 1 \in 1..(m + 1) /\ m + 1 \notin 1..m
    BY <1>2
<1>. DEFINE D == 1..m
            k == m + 1
            C == 1..(m + 1)
<1>. HIDE DEF D, k, C
<1>5. /\ DOMAIN v = D /\ DOMAIN w = C /\ w[k] = e /\ \A i \in D : w[i] = v[i]
      /\ \A i \in C : i \in D \/ i = k
      /\ D \subseteq C /\ k \in C /\ k \notin D
    BY <1>1, <1>3, <1>4 DEF D, k, C
<1>6. y.candidateValid <=> \E i \in C : w[i].outcome = "available"
    BY <1>2, <1>5 DEF Candidate, Noting
<1>7. y.candidateInvalid <=>
         \/ \E i \in C : w[i].outcome = "malformed"
         \/ \E i, j \in C : i # j /\ w[i].outcome = "available" /\ w[j].outcome = "available"
    BY <1>2, <1>5 DEF Candidate, Noting
<1>8. y.candidateValid /\ ~y.candidateInvalid =>
         \E i \in C : w[i].outcome = "available" /\ w[i].usage = y.candidate
    BY <1>2, <1>5 DEF Candidate, Noting
<1>9. Candidate(y, w)
    BY <1>5, <1>6, <1>7, <1>8 DEF Candidate
<1>. QED  BY <1>9 DEF w

\* A verdict on an event is a piece of evidence.
LEMMA VerdictRecord ==
    ASSUME NEW ev, NEW format
    PROVE  LET e == Contract!EventVerdict(ev, format) IN e = Evidence(e.outcome, e.usage)
<1>1. \A b, f : LET e == decodeCompletionUsageEvidence(b, TRUE, f)
                IN e = Evidence(e.outcome, e.usage)
  <2>1. \A d, s : LET e == decodeResponsesUsageEvidence(d, s) IN e = Evidence(e.outcome, e.usage)
    BY DEF decodeResponsesUsageEvidence, Evidence, Malformed, Unavailable
  <2>2. \A d, s : LET e == decodeCompletionsUsageEvidence(d, s) IN e = Evidence(e.outcome, e.usage)
    BY DEF decodeCompletionsUsageEvidence, Evidence, Malformed, Unavailable
  <2>3. Malformed = Evidence(Malformed.outcome, Malformed.usage)
    BY DEF Malformed, Evidence
  <2>. QED  BY <2>1, <2>2, <2>3, Zenon DEF decodeCompletionUsageEvidence, decodeDocument
<1>2. Malformed = Evidence(Malformed.outcome, Malformed.usage)
    BY DEF Malformed, Evidence
<1>3. Unavailable = Evidence(Unavailable.outcome, Unavailable.usage)
    BY DEF Unavailable, Evidence
<1>4. LET e == Contract!EventVerdict(ev, format)
      IN \/ e = Malformed \/ e = Unavailable
         \/ \E b : e = decodeCompletionUsageEvidence(b, TRUE, format)
    BY SameDecode, Zenon DEF Contract!EventVerdict
<1>. QED  BY <1>1, <1>2, <1>3, <1>4, Zenon

\* What Finish finds in the candidate.
StreamFound(x) ==
    IF x.candidateInvalid THEN Malformed
    ELSE IF x.candidateValid THEN Evidence("available", x.candidate)
    ELSE Unavailable

\* It is the contract's summary of what the events say.
LEMMA CandidateSummary ==
    ASSUME NEW x, NEW v, Candidate(x, v),
           \A i \in DOMAIN v : v[i] = Evidence(v[i].outcome, v[i].usage)
    PROVE  Contract!Summary(v) = StreamFound(x)
<1>. DEFINE M == {i \in DOMAIN v : v[i].outcome = "malformed"}
            A == {i \in DOMAIN v : v[i].outcome = "available"}
<1>1. Contract!Summary(v) =
        IF M # {} \/ \E i, j \in A : i # j THEN Malformed
        ELSE IF A = {} THEN Unavailable
        ELSE v[CHOOSE i \in A : TRUE]
    BY SameDecode, Zenon DEF Contract!Summary
<1>2. /\ x.candidateInvalid <=> M # {} \/ \E i, j \in A : i # j
      /\ x.candidateValid <=> A # {}
    BY DEF Candidate
<1>3. ASSUME ~x.candidateInvalid, x.candidateValid
      PROVE  v[CHOOSE i \in A : TRUE] = Evidence("available", x.candidate)
  <2>. DEFINE k == CHOOSE i \in A : TRUE
  <2>1. k \in A
    BY <1>2, <1>3
  <2>. HIDE DEF k
  <2>2. PICK i \in DOMAIN v : v[i].outcome = "available" /\ v[i].usage = x.candidate
    BY <1>3 DEF Candidate
  <2>3. i = k
    BY <1>2, <1>3, <2>1, <2>2
  <2>4. v[i] = Evidence(v[i].outcome, v[i].usage)
    OBVIOUS
  <2>5. v[i] = Evidence("available", x.candidate)
    BY <2>2, <2>4, Zenon
  <2>. QED  BY <2>3, <2>5 DEF k
<1>. HIDE DEF M, A
<1>. QED  BY <1>1, <1>2, <1>3 DEF StreamFound

----------------------------------------------------------------------------
(* Streams: the observer's buffers and the end of an event *)

\* The observer in the middle of a line, ...
AtLine(x, line) == IF Len(line) <= SSELimit THEN x.line = line ELSE Len(x.line) = SSELimit

\* ... and in the middle of an event: what is kept is its data, unless it is past a
\* limit.
InEvent(x, ev, line) ==
    /\ x.eventLimited <=> Contract!TooLong(ev) \/ Len(line) > SSELimit
    /\ ~Contract!TooLong(ev) => /\ x.eventData = Contract!EventData(ev)
                                /\ x.eventHasData <=> HasData(ev, Len(ev))

\* An event without lines says nothing.
LEMMA EmptyEvent ==
    ASSUME NEW ev \in Seq(Line), ~HasData(ev, Len(ev))
    PROVE  Contract!EventData(ev) = <<>>
<1>. DEFINE f == DataFcn(ev)
            Bad == {i \in 0..Len(ev) : f[i] # <<>>}
<1>0. Len(ev) \in Nat
    OBVIOUS
<1>1. f[0] = <<>> /\ \A k \in 1..Len(ev) : f[k] = Joining(f[k - 1], ev, k)
    BY DataSteps, Zenon
<1>2. \A k \in 1..Len(ev) : ~IsData(ev[k])
    BY DEF HasData
<1>. HIDE DEF f
<1>3. \A k \in 1..Len(ev) : f[k] = f[k - 1]
    BY <1>1, <1>2, Zenon DEF Joining
<1>4. Bad = {}
  <2>. SUFFICES ASSUME Bad # {} PROVE FALSE
    OBVIOUS
  <2>0. Bad \subseteq Nat
    BY <1>0
  <2>1. PICK k \in Bad : \A j \in Bad : k <= j
    BY <2>0, LeastNat, Zenon
  <2>2. k # 0
    BY <1>1, <2>1
  <2>3. k \in 1..Len(ev) /\ k - 1 \in 0..Len(ev) /\ k - 1 \notin Bad
    BY <1>0, <2>1, <2>2
  <2>. QED  BY <1>3, <2>1, <2>3
<1>5. Len(ev) \in 0..Len(ev)
    BY <1>0
<1>. QED  BY <1>4, <1>5, DataLast DEF f

\* Nothing but white space, trimmed.
LEMMA TrimEmpty == TrimSpace(<<>>) = <<>> /\ ~MentionsUsage(<<>>)
<1>1. DOMAIN <<>> = {}
    OBVIOUS
<1>. QED  BY <1>1 DEF TrimSpace, MentionsUsage

\* finishSSEEvent: [DONE] is the end, and any other event is counted.
LEMMA EventEnds ==
    ASSUME NEW x, Buffers(x), NEW ev \in Seq(Line), InEvent(x, ev, <<>>)
    PROVE  LET y == finishSSEEvent(x)
           IN /\ y.format = x.format /\ y.line = x.line
              /\ IF Contract!IsDone(ev)
                   THEN /\ y.terminalSeen /\ y.terminalNotified
                        /\ ~x.terminalNotified =>
                             y.terminals = IF "terminal" \in x.hooks THEN x.terminals + 1
                                                                    ELSE x.terminals
                        /\ y.candidateInvalid <=> x.candidateInvalid
                        /\ y.candidateValid <=> x.candidateValid
                        /\ y.candidate = x.candidate
                   ELSE /\ y.terminalSeen = x.terminalSeen
                        /\ y.terminalNotified = x.terminalNotified
                        /\ y.terminals = x.terminals
                        /\ Noting(x, y, Contract!EventVerdict(ev, x.format))
                        /\ y.eventData = <<>> /\ ~y.eventLimited /\ ~y.eventHasData
<1>. DEFINE data == TrimSpace(x.eventData)
            y == finishSSEEvent(x)
            long == Contract!TooLong(ev)
            u == Noted(x, Unavailable)
            v == [u EXCEPT !.terminalSeen = TRUE]
<1>0. x = [f \in Fields |-> x[f]]
    BY DEF Buffers
<1>1. Len(<<>>) = 0 /\ ~(0 > SSELimit)
    BY SSELimitIsNumber
<1>2. x.eventLimited <=> long
    BY <1>1 DEF InEvent
<1>3. ASSUME ~long
      PROVE  /\ x.eventData = Contract!EventData(ev)
             /\ x.eventHasData <=> HasData(ev, Len(ev))
             /\ ~x.eventHasData => data = <<>> /\ ~MentionsUsage(data)
  <2>1. x.eventData = Contract!EventData(ev) /\ (x.eventHasData <=> HasData(ev, Len(ev)))
    BY <1>3 DEF InEvent
  <2>2. ASSUME ~x.eventHasData PROVE data = <<>> /\ ~MentionsUsage(data)
    <3>1. x.eventData = <<>>
      BY <2>1, <2>2, EmptyEvent
    <3>. QED  BY <3>1, TrimEmpty, Zenon
  <2>. QED  BY <2>1, <2>2
<1>4. <<>> # <<"done">>
    OBVIOUS
<1>5. Contract!IsDone(ev) <=> x.eventHasData /\ ~x.eventLimited /\ data = <<"done">>
  <2>1. Contract!IsDone(ev) <=> ~long /\ TrimSpace(Contract!EventData(ev)) = <<"done">>
    BY SameBytes, Zenon DEF Contract!IsDone
  <2>. HIDE DEF long
  <2>. QED  BY <1>2, <1>3, <1>4, <2>1, Zenon
<1>6. CASE Contract!IsDone(ev)
  <2>1. y = notifyTerminal(v) /\ ~x.eventLimited
    BY <1>5, <1>6 DEF finishSSEEvent, finishEvent
  <2>2. /\ u = [f \in Fields |-> u[f]]
        /\ u.format = x.format /\ u.line = x.line /\ u.hooks = x.hooks
        /\ u.terminals = x.terminals /\ u.terminalNotified = x.terminalNotified
        /\ u.candidate = x.candidate
        /\ u.candidateValid <=> x.candidateValid
        /\ u.candidateInvalid <=> x.candidateInvalid
    BY <1>0, <2>1 DEF Noted, Unavailable, Evidence, Fields
  <2>. HIDE DEF u
  <2>3. /\ v = [f \in Fields |-> v[f]]
        /\ v.format = x.format /\ v.line = x.line /\ v.hooks = x.hooks /\ v.terminalSeen
        /\ v.terminals = x.terminals /\ v.terminalNotified = x.terminalNotified
        /\ v.candidate = x.candidate
        /\ v.candidateValid <=> x.candidateValid
        /\ v.candidateInvalid <=> x.candidateInvalid
    BY <2>2 DEF Fields
  <2>. HIDE DEF v, y
  <2>4. /\ y.format = x.format /\ y.line = x.line /\ y.terminalSeen /\ y.terminalNotified
        /\ y.candidate = x.candidate
        /\ y.candidateValid <=> x.candidateValid
        /\ y.candidateInvalid <=> x.candidateInvalid
        /\ ~x.terminalNotified =>
             y.terminals = IF "terminal" \in x.hooks THEN x.terminals + 1 ELSE x.terminals
    BY <2>1, <2>3 DEF notifyTerminal, Fields
  <2>. QED  BY <1>6, <2>4 DEF y
<1>7. CASE ~Contract!IsDone(ev)
  <2>. DEFINE found == EventEvidence(x, data)
              e == Contract!EventVerdict(ev, x.format)
  <2>1. y = Noted(x, found)
    BY <1>5, <1>7 DEF finishSSEEvent, finishEvent
  <2>2. IF long THEN e = Malformed /\ found = Unavailable ELSE e = found
    <3>1. e = IF long THEN Malformed
              ELSE IF MentionsUsage(TrimSpace(Contract!EventData(ev)))
                THEN decodeCompletionUsageEvidence(TrimSpace(Contract!EventData(ev)), TRUE, x.format)
              ELSE Unavailable
      BY SameBytes, SameDecode, Zenon DEF Contract!EventVerdict
    <3>2. found = IF x.eventHasData /\ ~x.eventLimited /\ MentionsUsage(data)
                    THEN decodeCompletionUsageEvidence(data, TRUE, x.format) ELSE Unavailable
      BY DEF EventEvidence
    <3>. HIDE DEF long, found, e
    <3>3. CASE long
      BY <1>2, <3>1, <3>2, <3>3, Zenon
    <3>4. CASE ~long
      BY <1>2, <1>3, <3>1, <3>2, <3>4, Zenon
    <3>. QED  BY <3>3, <3>4
  <2>. HIDE DEF found, e, y
  <2>3. /\ y.format = x.format /\ y.line = x.line /\ y.terminalSeen = x.terminalSeen
        /\ y.terminalNotified = x.terminalNotified /\ y.terminals = x.terminals
        /\ y.eventData = <<>> /\ ~y.eventLimited /\ ~y.eventHasData
        /\ y.candidate = IF found.outcome = "available" /\ ~x.candidateValid
                           THEN found.usage ELSE x.candidate
        /\ y.candidateValid <=> x.candidateValid \/ found.outcome = "available"
        /\ y.candidateInvalid <=> x.candidateInvalid \/ x.eventLimited \/ found.outcome = "malformed"
                                   \/ (found.outcome = "available" /\ x.candidateValid)
    BY <1>0, <2>1 DEF Noted, Fields
  <2>4. Noting(x, y, e)
    <3>1. CASE long
      <4>1. /\ found.outcome = "unavailable" /\ e.outcome = "malformed"
        BY <2>2, <3>1 DEF Unavailable, Malformed, Evidence
      <4>2. x.eventLimited
        BY <1>2, <3>1
      <4>. QED  BY <2>3, <4>1, <4>2 DEF Noting
    <3>2. CASE ~long
      <4>1. e = found /\ ~x.eventLimited
        BY <1>2, <2>2, <3>2
      <4>. QED  BY <2>3, <4>1 DEF Noting
    <3>. QED  BY <3>1, <3>2
  <2>. QED  BY <1>7, <2>3, <2>4 DEF y, e
<1>. QED  BY <1>6, <1>7

----------------------------------------------------------------------------
(* Streams: the end of a line *)

\* A blank line is one that processSSELine finds empty.
LEMMA BlankLine ==
    ASSUME NEW line \in Line
    PROVE  /\ line \in Contract!Blank <=> TrimCR(line) = <<>>
           /\ line \in Contract!Blank => ~IsData(line) /\ Len(line) <= SSELimit
           /\ line = <<>> => line \in Contract!Blank
<1>0. line \in Seq(Symbols) /\ Len(line) \in Nat /\ SSELimit \in Nat /\ SSELimit >= 2
    BY SSELimitIsNumber DEF Line
<1>1. CASE line = <<>>
    BY <1>0, <1>1 DEF Contract!Blank, TrimCR, IsData
<1>2. CASE line = <<"cr">>
  <2>1. Len(line) = 1 /\ line[1] = "cr" /\ SubSeq(line, 1, 0) = <<>>
    BY <1>2
  <2>. QED  BY <1>0, <1>2, <2>1 DEF Contract!Blank, TrimCR, IsData
<1>3. CASE line # <<>> /\ line # <<"cr">>
  <2>1. line \notin Contract!Blank
    BY <1>3 DEF Contract!Blank
  <2>2. Len(line) >= 1
    BY <1>0, <1>3, EmptySeq
  <2>3. CASE line[Len(line)] = "cr"
    <3>1. Len(line) # 1
      <4>. SUFFICES ASSUME Len(line) = 1 PROVE FALSE
        OBVIOUS
      <4>1. line[1] = "cr"
        BY <2>3
      <4>2. line = <<"cr">>
        BY <1>0, <4>1
      <4>. QED  BY <1>3, <4>2
    <3>2. Len(SubSeq(line, 1, Len(line) - 1)) = Len(line) - 1
      <4>. DEFINE k == Len(line) - 1
      <4>1. k \in 0..Len(line)
        BY <1>0, <2>2
      <4>. HIDE DEF k
      <4>2. Len(SubSeq(line, 1, k)) = k
        BY <1>0, <4>1
      <4>. QED  BY <4>2 DEF k
    <3>3. SubSeq(line, 1, Len(line) - 1) # <<>>
      <4>1. Len(line) - 1 # 0
        BY <1>0, <3>1
      <4>. QED  BY <3>2, <4>1
    <3>. QED  BY <1>3, <2>1, <2>3, <3>3 DEF TrimCR
  <2>4. CASE line[Len(line)] # "cr"
    BY <1>3, <2>1, <2>4 DEF TrimCR
  <2>. QED  BY <2>3, <2>4
<1>. QED  BY <1>1, <1>2, <1>3

\* Trimming leaves the field name of a line that is not blank.
LEMMA TrimKeepsField ==
    ASSUME NEW line \in Line, line \notin Contract!Blank
    PROVE  IsData(TrimCR(line)) <=> IsData(line)
<1>0. line \in Seq(Symbols) /\ Len(line) \in Nat
    BY DEF Line
<1>1. TrimCR(line) # <<>> /\ line # <<>>
    BY BlankLine
<1>2. TrimCR(line)[1] = line[1]
  <2>1. CASE line[Len(line)] = "cr"
    <3>1. TrimCR(line) = SubSeq(line, 1, Len(line) - 1)
      BY <1>1, <2>1 DEF TrimCR
    <3>2. Len(line) >= 1
      BY <1>0, <1>1, EmptySeq
    <3>3. CASE Len(line) = 1
      <4>1. SubSeq(line, 1, 0) = <<>>
        BY <1>0
      <4>. QED  BY <1>1, <3>1, <3>3, <4>1
    <3>4. CASE Len(line) # 1
      <4>. DEFINE k == Len(line) - 1
      <4>1. k \in 1..Len(line)
        <5>. DEFINE m == Len(line)
        <5>. HIDE DEF m
        <5>1. m \in Nat /\ m >= 1 /\ m # 1
          BY <1>0, <3>2, <3>4 DEF m
        <5>2. m - 1 \in 1..m
          BY <5>1
        <5>. QED  BY <5>2 DEF m
      <4>. HIDE DEF k
      <4>2. SubSeq(line, 1, k)[1] = line[1]
        <5>1. \A i \in 1..k : line[i] \in Symbols
          BY <1>0, <4>1
        <5>2. k \in Int /\ 1 \in 1..(k - 1 + 1) /\ 1 + 1 - 1 = 1
          BY <1>0, <4>1
        <5>. QED  BY <5>1, <5>2, SubSeqProperties
      <4>. QED  BY <3>1, <4>2 DEF k
    <3>. QED  BY <3>3, <3>4
  <2>2. CASE line[Len(line)] # "cr"
    BY <2>2 DEF TrimCR
  <2>. QED  BY <2>1, <2>2
<1>. QED  BY <1>1, <1>2, Zenon DEF IsData

\* One more line of an event: what is past a limit stays past it.
LEMMA EventGrows ==
    ASSUME NEW ev \in Seq(Line), NEW line \in Line
    PROVE  LET w == Append(ev, line)
           IN /\ w \in Seq(Line)
              /\ Contract!TooLong(w) <=> \/ Contract!TooLong(ev) \/ Len(line) > SSELimit
                                         \/ Len(Contract!EventData(w)) > SSELimit
              /\ HasData(w, Len(w)) <=> HasData(ev, Len(ev)) \/ IsData(line)
<1>. DEFINE w == Append(ev, line)
            d == Contract!EventData(ev)
            g == Contract!EventData(w)
            a == IF HasData(ev, Len(ev)) THEN <<"nl">> ELSE <<>>
            b == DataOf(TrimCR(line))
<1>0. /\ w \in Seq(Line) /\ Len(ev) \in Nat /\ Len(w) = Len(ev) + 1 /\ w[Len(ev) + 1] = line
      /\ \A i \in 1..Len(ev) : w[i] = ev[i]
    OBVIOUS
<1>. HIDE DEF w
<1>1. DOMAIN w = 1..(Len(ev) + 1) /\ DOMAIN ev = 1..Len(ev)
    BY <1>0
<1>2. d \in Line /\ g \in Line
    BY <1>0, EventDataTypes
<1>3. g = IF ~IsData(line) THEN d ELSE d \o a \o b
    BY EventDataAppend DEF w
<1>4. Len(g) >= Len(d) /\ Len(d) \in Nat /\ Len(g) \in Nat /\ SSELimit \in Nat
  <2>. HIDE DEF d, g, a, b
  <2>1. Len(d) \in Nat /\ Len(g) \in Nat
    BY <1>2 DEF Line
  <2>2. CASE IsData(line)
    <3>1. b \in Line
      BY <2>2, DataTypes DEF b
    <3>2. a \in Line
      <4>1. "nl" \in Symbols
        BY DEF Symbols
      <4>. QED  BY <4>1 DEF a, Line
    <3>3. d \o a \in Line /\ Len(d \o a) = Len(d) + Len(a)
      BY <1>2, <3>2, ConcatProperties, Zenon DEF Line
    <3>4. Len(d \o a \o b) = Len(d \o a) + Len(b)
      BY <3>1, <3>3, ConcatProperties, Zenon DEF Line
    <3>5. Len(a) \in Nat /\ Len(b) \in Nat
      BY <3>1, <3>2 DEF Line
    <3>6. Len(g) = Len(d) + Len(a) + Len(b)
      BY <1>3, <2>2, <3>3, <3>4
    <3>. QED  BY <2>1, <3>5, <3>6, SSELimitIsNumber
  <2>3. CASE ~IsData(line)
    BY <1>3, <2>1, <2>3, SSELimitIsNumber
  <2>. QED  BY <2>2, <2>3
<1>5. 1..Len(ev) \subseteq 1..(Len(ev) + 1) /\ Len(ev) + 1 \in 1..(Len(ev) + 1)
      /\ \A i \in 1..(Len(ev) + 1) : i \in 1..Len(ev) \/ i = Len(ev) + 1
    BY <1>0
<1>6. (\E i \in DOMAIN w : Len(w[i]) > SSELimit) <=>
        (\E i \in DOMAIN ev : Len(ev[i]) > SSELimit) \/ Len(line) > SSELimit
    BY <1>0, <1>1, <1>5
<1>7. Contract!TooLong(w) <=> (\E i \in DOMAIN w : Len(w[i]) > SSELimit) \/ Len(g) > SSELimit
    BY DEF Contract!TooLong
<1>8. Contract!TooLong(ev) <=> (\E i \in DOMAIN ev : Len(ev[i]) > SSELimit) \/ Len(d) > SSELimit
    BY DEF Contract!TooLong
<1>9. Len(d) > SSELimit => Len(g) > SSELimit
    BY <1>4
<1>10. HasData(w, Len(w)) <=> HasData(ev, Len(ev)) \/ IsData(line)
    BY <1>0, <1>5 DEF HasData
<1>. QED  BY <1>0, <1>6, <1>7, <1>8, <1>9, <1>10 DEF w

\* The parts of the observer that a line inside an event leaves alone.
Unmoved(x, y) ==
    /\ y.format = x.format /\ y.hooks = x.hooks
    /\ y.terminalSeen = x.terminalSeen /\ y.terminalNotified = x.terminalNotified
    /\ y.terminals = x.terminals /\ y.candidate = x.candidate
    /\ y.candidateValid = x.candidateValid /\ y.candidateInvalid = x.candidateInvalid

\* The observer with an empty line.
Emptied(x) == [x EXCEPT !.line = <<>>]

\* processSSELine: a blank line ends the event, any other is added to it.
LEMMA LineEnds ==
    ASSUME NEW x, Buffers(x), NEW ev \in Seq(Line), NEW line \in Line,
           AtLine(x, line), InEvent(x, ev, line)
    PROVE  LET y == processSSELine(x)
           IN IF line \in Contract!Blank
                THEN /\ y = finishSSEEvent(Emptied(x))
                     /\ InEvent(Emptied(x), ev, <<>>) /\ Unmoved(x, Emptied(x))
                     /\ Buffers(Emptied(x)) /\ Emptied(x).line = <<>>
                ELSE /\ InEvent(y, Append(ev, line), <<>>) /\ Unmoved(x, y)
                     /\ y.line = <<>>
<1>. DEFINE u == Emptied(x)
            y == processSSELine(x)
            t == TrimCR(x.line)
            w == Append(ev, line)
            d == Contract!EventData(ev)
            g == Contract!EventData(w)
<1>0. x = [f \in Fields |-> x[f]] /\ x.line \in Line /\ Len(x.line) \in Nat
      /\ Len(line) \in Nat /\ SSELimit \in Nat /\ SSELimit >= 2 /\ Len(<<>>) = 0
    BY SSELimitIsNumber DEF Buffers, Line
<1>1. /\ u = [f \in Fields |-> u[f]] /\ u.line = <<>> /\ Unmoved(x, u)
      /\ u.eventData = x.eventData /\ u.eventLimited = x.eventLimited
      /\ u.eventHasData = x.eventHasData /\ u.jsonBody = x.jsonBody /\ u.capacity = x.capacity
    BY <1>0 DEF Emptied, Fields, Unmoved
<1>2. y = processLine(u, t)
    BY DEF processSSELine, Emptied
<1>. HIDE DEF u
<1>3. Buffers(u)
    BY <1>1, EmptyFits DEF Buffers
<1>4. CASE line \in Contract!Blank
  <2>1. Len(line) <= SSELimit /\ TrimCR(line) = <<>>
    BY <1>4, BlankLine
  <2>2. x.line = line
    BY <2>1 DEF AtLine
  <2>3. y = finishSSEEvent(u)
    BY <1>2, <2>1, <2>2 DEF processLine
  <2>4. ~(Len(line) > SSELimit) /\ ~(Len(<<>>) > SSELimit)
    BY <1>0, <2>1
  <2>5. InEvent(u, ev, <<>>)
    BY <1>1, <2>4 DEF InEvent
  <2>. QED  BY <1>1, <1>3, <1>4, <2>3, <2>5 DEF u
<1>5. CASE line \notin Contract!Blank
  <2>0. x.line \notin Contract!Blank
    <3>1. CASE Len(line) <= SSELimit
      BY <1>5, <3>1 DEF AtLine
    <3>2. CASE ~(Len(line) <= SSELimit)
      <4>1. Len(x.line) >= 2
        BY <1>0, <3>2 DEF AtLine
      <4>2. Len(<<>>) = 0 /\ Len(<<"cr">>) = 1
        OBVIOUS
      <4>3. ~(0 >= 2) /\ ~(1 >= 2)
        OBVIOUS
      <4>. QED  BY <4>1, <4>2, <4>3, Zenon DEF Contract!Blank
    <3>. QED  BY <3>1, <3>2
  <2>1. t # <<>> /\ (IsData(t) <=> IsData(x.line))
    BY <1>0, <2>0, BlankLine, TrimKeepsField
  <2>2. /\ w \in Seq(Line)
        /\ Contract!TooLong(w) <=> \/ Contract!TooLong(ev) \/ Len(line) > SSELimit
                                   \/ Len(g) > SSELimit
        /\ HasData(w, Len(w)) <=> HasData(ev, Len(ev)) \/ IsData(line)
    BY EventGrows
  <2>3. ~(Len(<<>>) > SSELimit)
    BY <1>0
  <2>4. y = IF x.eventLimited \/ ~IsData(x.line) THEN u ELSE addData(u, DataOf(t))
    BY <1>1, <1>2, <2>1 DEF processLine
  <2>5. CASE x.eventLimited
    <3>1. Contract!TooLong(w)
      BY <2>2, <2>5 DEF InEvent
    <3>2. y = u
      BY <2>4, <2>5
    <3>3. InEvent(u, w, <<>>)
      BY <1>1, <2>5, <3>1 DEF InEvent
    <3>. QED  BY <1>1, <1>5, <3>2, <3>3
  <2>6. CASE ~x.eventLimited
    <3>1. ~Contract!TooLong(ev) /\ ~(Len(line) > SSELimit)
      BY <2>6 DEF InEvent
    <3>2. x.line = line
      BY <1>0, <3>1 DEF AtLine
    <3>3. x.eventData = d /\ (x.eventHasData <=> HasData(ev, Len(ev)))
      BY <3>1 DEF InEvent
    <3>4. d \in Line /\ g \in Line
      BY <2>2, EventDataTypes
    <3>5. ~(Len(d) > SSELimit)
      BY <3>1 DEF Contract!TooLong
    <3>. DEFINE a == IF HasData(ev, Len(ev)) THEN <<"nl">> ELSE <<>>
                b == DataOf(t)
    <3>6. g = IF ~IsData(line) THEN d ELSE d \o a \o b
      BY <3>2, EventDataAppend
    <3>7. CASE ~IsData(line)
      <4>1. y = u /\ g = d
        BY <2>4, <2>6, <3>2, <3>6, <3>7
      <4>2. ~Contract!TooLong(w)
        BY <2>2, <3>1, <3>5, <4>1
      <4>3. InEvent(u, w, <<>>)
        BY <1>1, <2>2, <2>3, <2>6, <3>3, <3>7, <4>1, <4>2 DEF InEvent
      <4>. QED  BY <1>1, <1>5, <4>1, <4>3
    <3>8. CASE IsData(line)
      <4>. DEFINE j == a \o b
      <4>1. y = addData(u, b)
        BY <2>4, <2>6, <3>2, <3>8
      <4>2. b \in Line
        BY <3>2, <3>8, DataTypes
      <4>3. a \in Line
        <5>1. "nl" \in Symbols
          BY DEF Symbols
        <5>. QED  BY <5>1 DEF Line
      <4>4. a = IF u.eventHasData THEN <<"nl">> ELSE <<>>
        BY <1>1, <3>3
      <4>5. y = IF Len(d) + Len(j) > SSELimit
                  THEN [u EXCEPT !.eventData = <<>>, !.eventLimited = TRUE]
                  ELSE [u EXCEPT !.eventData = d \o j, !.eventHasData = TRUE]
        BY <1>1, <3>3, <4>1, <4>4, Zenon DEF addData
      <4>. HIDE DEF a, b
      <4>6. j \in Line
        BY <4>2, <4>3, ConcatProperties, Zenon DEF Line
      <4>7. g = d \o j
        <5>. HIDE DEF g, d
        <5>1. d \in Seq(Symbols) /\ a \in Seq(Symbols) /\ b \in Seq(Symbols)
          BY <3>4, <4>2, <4>3 DEF Line
        <5>2. (d \o a) \o b = d \o (a \o b)
          BY <5>1, ConcatAssociative
        <5>. QED  BY <3>6, <3>8, <5>2
      <4>. HIDE DEF j
      <4>8. Len(g) = Len(d) + Len(j)
        BY <3>4, <4>6, <4>7, ConcatProperties, Zenon DEF Line
      <4>9. Contract!TooLong(w) <=> Len(d) + Len(j) > SSELimit
        BY <2>2, <3>1, <4>8
      <4>. HIDE DEF y, g, d, w
      <4>10. CASE Len(d) + Len(j) > SSELimit
        <5>1. y = [u EXCEPT !.eventData = <<>>, !.eventLimited = TRUE]
          BY <4>5, <4>10
        <5>2. y.eventLimited /\ Unmoved(u, y) /\ y.line = <<>>
          BY <1>1, <5>1 DEF Fields, Unmoved
        <5>3. InEvent(y, w, <<>>)
          BY <4>9, <4>10, <5>2 DEF InEvent
        <5>. QED  BY <1>1, <1>5, <5>2, <5>3 DEF Unmoved, y, w
      <4>11. CASE ~(Len(d) + Len(j) > SSELimit)
        <5>1. y = [u EXCEPT !.eventData = g, !.eventHasData = TRUE]
          BY <4>5, <4>7, <4>11
        <5>2. /\ y.eventLimited = u.eventLimited /\ Unmoved(u, y) /\ y.line = <<>>
              /\ y.eventData = g /\ y.eventHasData
          BY <1>1, <5>1 DEF Fields, Unmoved
        <5>3. ~y.eventLimited
          BY <1>1, <2>6, <5>2
        <5>4. InEvent(y, w, <<>>)
          BY <2>2, <2>3, <3>8, <4>9, <4>11, <5>2, <5>3 DEF InEvent, g
        <5>. QED  BY <1>1, <1>5, <5>2, <5>4 DEF Unmoved, y, w
      <4>. QED  BY <4>10, <4>11
    <3>. QED  BY <3>7, <3>8
  <2>. QED  BY <2>5, <2>6
<1>. QED  BY <1>4, <1>5

----------------------------------------------------------------------------
(* Streams: the observer follows the stream *)

NoDone(evs) == \A i \in 1..Len(evs) : ~Contract!IsDone(evs[i])

\* ds are the events of evs before [DONE].
Reached(evs, ds) ==
    /\ Begins(evs, ds) /\ Len(ds) <= Len(evs) /\ NoDone(ds)
    /\ Len(ds) < Len(evs) => Contract!IsDone(evs[Len(ds) + 1])

\* The observer before [DONE]: the events of evs have ended, ev and line have not.
Follows(x, evs, ev, line) ==
    /\ ~x.terminalSeen /\ ~x.terminalNotified
    /\ AtLine(x, line) /\ InEvent(x, ev, line)
    /\ Candidate(x, Verdicts(evs, x.format)) /\ NoDone(evs)

\* The observer from [DONE] on.
Heard(x, evs) ==
    /\ x.terminalSeen /\ x.terminalNotified /\ x.terminals = Most(x, "terminal")
    /\ \E ds \in Seq(Seq(Line)) :
          Len(ds) < Len(evs) /\ Reached(evs, ds) /\ Candidate(x, Verdicts(ds, x.format))

Watches(x, evs, ev, line) ==
    IF x.terminalSeen THEN Heard(x, evs) ELSE Follows(x, evs, ev, line)

\* Nothing has been kept of an event without lines.
LEMMA NoLines ==
    ASSUME NEW x
    PROVE  /\ <<>> \in Seq(Line) /\ <<>> \in Line /\ ~Contract!TooLong(<<>>)
           /\ Contract!EventData(<<>>) = <<>> /\ ~HasData(<<>>, Len(<<>>))
           /\ InEvent(x, <<>>, <<>>) <=> ~x.eventLimited /\ ~x.eventHasData /\ x.eventData = <<>>
           /\ AtLine(x, <<>>) <=> x.line = <<>>
<1>1. <<>> \in Seq(Line) /\ <<>> \in Line /\ Len(<<>>) = 0 /\ DOMAIN <<>> = {}
    BY DEF Line
<1>2. ~(0 > SSELimit) /\ 0 <= SSELimit /\ 1..0 = {}
    BY SSELimitIsNumber
<1>3. Contract!EventData(<<>>) = <<>>
    BY <1>1, EventDataTypes
<1>4. ~Contract!TooLong(<<>>)
    BY <1>1, <1>2, <1>3 DEF Contract!TooLong
<1>5. ~HasData(<<>>, Len(<<>>))
    BY <1>1, <1>2 DEF HasData
<1>6. InEvent(x, <<>>, <<>>) <=> ~x.eventLimited /\ ~x.eventHasData /\ x.eventData = <<>>
    BY <1>1, <1>2, <1>3, <1>4, <1>5 DEF InEvent
<1>. QED  BY <1>1, <1>2, <1>3, <1>4, <1>5, <1>6 DEF AtLine

\* One more ended event.
LEMMA Appended ==
    ASSUME NEW evs \in Seq(Seq(Line)), NEW ev \in Seq(Line)
    PROVE  LET fs == Append(evs, ev)
           IN /\ fs \in Seq(Seq(Line)) /\ Len(fs) = Len(evs) + 1 /\ Len(evs) \in Nat
              /\ fs[Len(evs) + 1] = ev /\ \A i \in 1..Len(evs) : fs[i] = evs[i]
              /\ Begins(fs, evs)
              /\ NoDone(evs) => (NoDone(fs) <=> ~Contract!IsDone(ev))
<1>. DEFINE fs == Append(evs, ev)
<1>1. /\ fs \in Seq(Seq(Line)) /\ Len(fs) = Len(evs) + 1 /\ Len(evs) \in Nat
      /\ fs[Len(evs) + 1] = ev /\ \A i \in 1..Len(evs) : fs[i] = evs[i]
    OBVIOUS
<1>. HIDE DEF fs
<1>2. 1..Len(evs) \subseteq 1..(Len(evs) + 1) /\ Len(evs) + 1 \in 1..(Len(evs) + 1)
      /\ \A i \in 1..(Len(evs) + 1) : i \in 1..Len(evs) \/ i = Len(evs) + 1
    BY <1>1
<1>3. Begins(fs, evs)
    BY <1>1, <1>2 DEF Begins
<1>4. NoDone(evs) => (NoDone(fs) <=> ~Contract!IsDone(ev))
    BY <1>1, <1>2, Zenon DEF NoDone
<1>. QED  BY <1>1, <1>3, <1>4 DEF fs

\* The end of an event is the end of the stream, or the event is counted.
LEMMA EventCounted ==
    ASSUME NEW x, Buffers(x), TerminalOnce(x), NEW evs \in Seq(Seq(Line)),
           NEW ev \in Seq(Line), x.line = <<>>, Follows(x, evs, ev, <<>>)
    PROVE  LET y == finishSSEEvent(x)
           IN /\ Watches(y, Append(evs, ev), <<>>, <<>>) /\ y.format = x.format
              /\ Buffers(y) /\ TerminalOnce(y) /\ Quiet(x, y)
<1>. DEFINE y == finishSSEEvent(x)
            fs == Append(evs, ev)
<1>1. /\ y.format = x.format /\ y.line = x.line
      /\ IF Contract!IsDone(ev)
           THEN /\ y.terminalSeen /\ y.terminalNotified
                /\ ~x.terminalNotified =>
                     y.terminals = IF "terminal" \in x.hooks THEN x.terminals + 1 ELSE x.terminals
                /\ y.candidateInvalid <=> x.candidateInvalid
                /\ y.candidateValid <=> x.candidateValid
                /\ y.candidate = x.candidate
           ELSE /\ y.terminalSeen = x.terminalSeen
                /\ y.terminalNotified = x.terminalNotified
                /\ y.terminals = x.terminals
                /\ Noting(x, y, Contract!EventVerdict(ev, x.format))
                /\ y.eventData = <<>> /\ ~y.eventLimited /\ ~y.eventHasData
    BY EventEnds DEF Follows
<1>2. Buffers(y) /\ TerminalOnce(y) /\ Quiet(x, y)
    BY FinishSSEEvent
<1>3. /\ ~x.terminalSeen /\ ~x.terminalNotified /\ NoDone(evs)
      /\ Candidate(x, Verdicts(evs, x.format)) /\ x.terminals = 0
    BY DEF Follows, TerminalOnce
<1>4. /\ fs \in Seq(Seq(Line)) /\ Len(fs) = Len(evs) + 1 /\ Len(evs) \in Nat
      /\ fs[Len(evs) + 1] = ev /\ \A i \in 1..Len(evs) : fs[i] = evs[i]
      /\ Begins(fs, evs) /\ (NoDone(fs) <=> ~Contract!IsDone(ev))
    BY <1>3, Appended
<1>. HIDE DEF y, fs
<1>5. CASE Contract!IsDone(ev)
  <2>1. y.terminals = Most(y, "terminal")
    BY <1>1, <1>2, <1>3, <1>5 DEF Most, Quiet, Same
  <2>2. Candidate(y, Verdicts(evs, y.format))
    BY <1>1, <1>3, <1>5 DEF Candidate
  <2>3. Len(evs) < Len(fs) /\ Reached(fs, evs)
    BY <1>3, <1>4, <1>5 DEF Reached
  <2>4. Heard(y, fs)
    BY <1>1, <1>5, <2>1, <2>2, <2>3 DEF Heard
  <2>. QED  BY <1>1, <1>2, <1>5, <2>4 DEF Watches, y, fs
<1>6. CASE ~Contract!IsDone(ev)
  <2>1. Candidate(y, Verdicts(fs, x.format))
    BY <1>1, <1>3, <1>4, <1>6, CandidateAdd
  <2>2. InEvent(y, <<>>, <<>>) /\ AtLine(y, <<>>)
    BY <1>1, <1>6, NoLines
  <2>3. Follows(y, fs, <<>>, <<>>)
    BY <1>1, <1>3, <1>4, <1>6, <2>1, <2>2 DEF Follows
  <2>. QED  BY <1>1, <1>2, <1>3, <1>6, <2>3 DEF Watches, y, fs
<1>. QED  BY <1>5, <1>6

\* What the observer watches of b.
View(x, b) == Watches(x, EventsOf(b), EventOf(b), LineOf(b))

\* The observer knows whether the stream has said [DONE].
LEMMA KnowsDone ==
    ASSUME NEW x, NEW b \in Line, View(x, b)
    PROVE  Contract!SaysDone(b) <=> x.terminalSeen
<1>. DEFINE evs == EventsOf(b)
<1>0. evs \in Seq(Seq(Line))
    BY ViewTypes
<1>1. Len(evs) \in Nat /\ DOMAIN evs = 1..Len(evs)
    BY <1>0
<1>2. Contract!SaysDone(b) <=> \E i \in DOMAIN evs : Contract!IsDone(evs[i])
    BY Zenon DEF Contract!SaysDone, EventsOf
<1>. HIDE DEF evs
<1>3. CASE x.terminalSeen
  <2>1. Heard(x, evs)
    BY <1>3 DEF View, Watches, evs
  <2>2. PICK ds \in Seq(Seq(Line)) : Len(ds) < Len(evs) /\ Reached(evs, ds)
    BY <2>1 DEF Heard
  <2>3. Len(ds) \in Nat /\ Len(ds) + 1 \in 1..Len(evs)
    BY <1>1, <2>2
  <2>. QED  BY <1>1, <1>2, <1>3, <2>2, <2>3 DEF Reached
<1>4. CASE ~x.terminalSeen
  <2>1. NoDone(evs)
    BY <1>4 DEF View, Watches, Follows, evs
  <2>. QED  BY <1>1, <1>2, <1>4, <2>1, Zenon DEF NoDone
<1>. QED  BY <1>3, <1>4

\* What comes after [DONE] changes nothing.
LEMMA HeardMore ==
    ASSUME NEW x, NEW evs \in Seq(Seq(Line)), NEW fs \in Seq(Seq(Line)),
           Heard(x, evs), Begins(fs, evs)
    PROVE  Heard(x, fs)
<1>1. PICK ds \in Seq(Seq(Line)) : /\ Len(ds) < Len(evs) /\ Reached(evs, ds)
                                   /\ Candidate(x, Verdicts(ds, x.format))
    BY DEF Heard
<1>2. Len(ds) \in Nat /\ Len(evs) \in Nat /\ Len(fs) \in Nat
    OBVIOUS
<1>3. Len(ds) + 1 \in 1..Len(evs) /\ 1..Len(ds) \subseteq 1..Len(evs)
    BY <1>1, <1>2
<1>4. /\ \A i \in 1..Len(ds) : i \in 1..Len(fs) /\ fs[i] = ds[i]
      /\ Len(ds) + 1 \in 1..Len(fs) /\ fs[Len(ds) + 1] = evs[Len(ds) + 1]
    BY <1>1, <1>3 DEF Begins, Reached
<1>5. Len(ds) < Len(fs) /\ Len(ds) <= Len(fs)
    BY <1>2, <1>4
<1>6. Reached(fs, ds)
    BY <1>1, <1>4, <1>5 DEF Reached, Begins
<1>. QED  BY <1>1, <1>5, <1>6 DEF Heard

\* Follows in terms of the parts that Unmoved keeps.
LEMMA FollowsOn ==
    ASSUME NEW x, NEW y, NEW evs, NEW ev, NEW line, NEW fv, NEW rest,
           Follows(x, evs, ev, line), Unmoved(x, y), AtLine(y, rest), InEvent(y, fv, rest)
    PROVE  Follows(y, evs, fv, rest)
BY DEF Follows, Unmoved, Candidate

\* Observe, byte by byte, follows the stream up to the blank line after [DONE].
LEMMA ByteWatched ==
    ASSUME NEW x, Buffers(x), TerminalOnce(x), NEW b \in Line, NEW s \in Symbols,
           ~x.terminalSeen, View(x, b)
    PROVE  View(ObserveByte(x, s), Append(b, s)) /\ ObserveByte(x, s).format = x.format
<1>. DEFINE y == ObserveByte(x, s)
            c == Append(b, s)
            evs == EventsOf(b)
            ev == EventOf(b)
            line == LineOf(b)
<1>0. evs \in Seq(Seq(Line)) /\ ev \in Seq(Line) /\ line \in Line
    BY ViewTypes
<1>1. Follows(x, evs, ev, line)
    BY DEF View, Watches
<1>2. /\ x = [f \in Fields |-> x[f]] /\ Len(x.line) \in Nat /\ Len(x.line) <= SSELimit
      /\ Len(line) \in Nat /\ SSELimit \in Nat
    BY <1>0, SSELimitIsNumber DEF Buffers, Line
<1>. HIDE DEF evs, ev, line
<1>3. AtLine(x, line) /\ InEvent(x, ev, line)
    BY <1>1 DEF Follows
<1>4. CASE s = "nl"
  <2>1. y = processSSELine(x)
    BY <1>4 DEF ObserveByte
  <2>2. IF line \in Contract!Blank
          THEN /\ y = finishSSEEvent(Emptied(x))
               /\ InEvent(Emptied(x), ev, <<>>) /\ Unmoved(x, Emptied(x))
               /\ Buffers(Emptied(x)) /\ Emptied(x).line = <<>>
          ELSE /\ InEvent(y, Append(ev, line), <<>>) /\ Unmoved(x, y)
               /\ y.line = <<>>
    BY <1>0, <1>3, <2>1, LineEnds
  <2>3. /\ LineOf(c) = <<>>
        /\ IF line \in Contract!Blank
             THEN EventsOf(c) = Append(evs, ev) /\ EventOf(c) = <<>>
             ELSE EventsOf(c) = evs /\ EventOf(c) = Append(ev, line)
    BY <1>4, ViewLineFeed DEF evs, ev, line
  <2>. HIDE DEF y, c
  <2>4. CASE line \in Contract!Blank
    <3>. DEFINE u == Emptied(x)
    <3>1. /\ y = finishSSEEvent(u) /\ InEvent(u, ev, <<>>) /\ Unmoved(x, u)
          /\ Buffers(u) /\ u.line = <<>>
      BY <2>2, <2>4
    <3>. HIDE DEF u
    <3>2. TerminalOnce(u)
      BY <3>1 DEF TerminalOnce, Unmoved, Most
    <3>3. Follows(u, evs, ev, <<>>)
      BY <1>1, <3>1, FollowsOn, NoLines
    <3>4. Watches(y, Append(evs, ev), <<>>, <<>>) /\ y.format = u.format
      BY <1>0, <3>1, <3>2, <3>3, EventCounted
    <3>. QED  BY <2>3, <2>4, <3>1, <3>4 DEF View, Unmoved, y, c
  <2>5. CASE line \notin Contract!Blank
    <3>1. Follows(y, evs, Append(ev, line), <<>>)
      BY <1>1, <2>2, <2>5, FollowsOn, NoLines
    <3>2. ~y.terminalSeen /\ y.format = x.format
      BY <2>2, <2>5 DEF Unmoved
    <3>. QED  BY <2>3, <2>5, <3>1, <3>2 DEF View, Watches, y, c
  <2>. QED  BY <2>4, <2>5
<1>5. CASE s # "nl"
  <2>. DEFINE more == Append(line, s)
  <2>1. EventsOf(c) = evs /\ EventOf(c) = ev /\ LineOf(c) = more
    BY <1>5, ViewByte DEF evs, ev, line
  <2>2. Len(more) = Len(line) + 1
    BY <1>0 DEF Line
  <2>3. y = IF Len(x.line) < SSELimit THEN [x EXCEPT !.line = Append(x.line, s)]
            ELSE [x EXCEPT !.eventLimited = TRUE]
    BY <1>5 DEF ObserveByte
  <2>. HIDE DEF y, c, more
  <2>4. AtLine(y, more) /\ InEvent(y, ev, more) /\ Unmoved(x, y)
    <3>1. CASE Len(x.line) < SSELimit
      <4>1. Len(line) <= SSELimit /\ x.line = line
        BY <1>2, <1>3, <3>1 DEF AtLine
      <4>2. Len(more) <= SSELimit /\ ~(Len(line) > SSELimit) /\ ~(Len(more) > SSELimit)
        BY <1>2, <2>2, <3>1, <4>1
      <4>3. y = [x EXCEPT !.line = more]
        BY <2>3, <3>1, <4>1 DEF more
      <4>4. /\ y.line = more /\ Unmoved(x, y) /\ y.eventLimited = x.eventLimited
            /\ y.eventData = x.eventData /\ y.eventHasData = x.eventHasData
        BY <1>2, <4>3 DEF Fields, Unmoved
      <4>. QED  BY <1>3, <4>2, <4>4 DEF AtLine, InEvent
    <3>2. CASE ~(Len(x.line) < SSELimit)
      <4>1. Len(x.line) = SSELimit
        BY <1>2, <3>2
      <4>2. Len(line) >= SSELimit
        BY <1>2, <1>3, <4>1 DEF AtLine
      <4>3. Len(more) > SSELimit /\ ~(Len(more) <= SSELimit)
        BY <1>2, <2>2, <4>2
      <4>4. y = [x EXCEPT !.eventLimited = TRUE]
        BY <2>3, <3>2
      <4>5. /\ y.line = x.line /\ Unmoved(x, y) /\ y.eventLimited
            /\ y.eventData = x.eventData /\ y.eventHasData = x.eventHasData
        BY <1>2, <4>4 DEF Fields, Unmoved
      <4>. QED  BY <1>3, <4>1, <4>3, <4>5 DEF AtLine, InEvent
    <3>. QED  BY <3>1, <3>2
  <2>5. Follows(y, evs, ev, more)
    BY <1>1, <2>4, FollowsOn
  <2>6. ~y.terminalSeen /\ y.format = x.format
    BY <2>4 DEF Unmoved
  <2>. QED  BY <2>1, <2>5, <2>6 DEF View, Watches, y, c
<1>. QED  BY <1>4, <1>5

----------------------------------------------------------------------------
(* Streams: the end *)

\* The event that the end of a stream ends is counted, too; one of which nothing has
\* been kept would not change the candidate.
LEMMA LastEvent ==
    ASSUME NEW x, Buffers(x), TerminalOnce(x), NEW evs \in Seq(Seq(Line)),
           NEW ev \in Seq(Line), x.line = <<>>, Follows(x, evs, ev, <<>>)
    PROVE  LET z == lastEvent(x)
           IN /\ Watches(z, Append(evs, ev), <<>>, <<>>) /\ z.format = x.format
              /\ Buffers(z) /\ TerminalOnce(z) /\ Quiet(x, z)
              /\ ~z.terminalSeen => z.line = <<>>
<1>. DEFINE fs == Append(evs, ev)
<1>0. ~x.terminalSeen /\ InEvent(x, ev, <<>>) /\ NoDone(evs)
      /\ Candidate(x, Verdicts(evs, x.format)) /\ ~x.terminalNotified
    BY DEF Follows
<1>1. CASE x.eventHasData \/ x.eventLimited
  <2>. DEFINE z == finishSSEEvent(x)
  <2>1. lastEvent(x) = z
    BY <1>0, <1>1 DEF lastEvent
  <2>2. /\ Watches(z, fs, <<>>, <<>>) /\ z.format = x.format
        /\ Buffers(z) /\ TerminalOnce(z) /\ Quiet(x, z)
    BY EventCounted
  <2>. HIDE DEF z
  <2>3. ~z.terminalSeen => z.line = <<>>
    BY <2>2, NoLines DEF Watches, Follows
  <2>. QED  BY <2>1, <2>2, <2>3
<1>2. CASE ~(x.eventHasData \/ x.eventLimited)
  <2>1. lastEvent(x) = x
    BY <1>2 DEF lastEvent
  <2>2. ~Contract!TooLong(ev) /\ ~HasData(ev, Len(ev)) /\ x.eventData = Contract!EventData(ev)
    BY <1>0, <1>2 DEF InEvent
  <2>3. Contract!EventData(ev) = <<>>
    BY <2>2, EmptyEvent
  <2>4. <<>> # <<"done">>
    OBVIOUS
  <2>5. ~Contract!IsDone(ev)
    BY <2>3, <2>4, TrimEmpty, SameBytes, Zenon DEF Contract!IsDone
  <2>. DEFINE e == Contract!EventVerdict(ev, x.format)
  <2>6. e = Unavailable
    BY <2>2, <2>3, TrimEmpty, SameBytes, SameDecode, Zenon DEF Contract!EventVerdict
  <2>. HIDE DEF e
  <2>7. Noting(x, x, e)
    BY <2>6 DEF Noting, Unavailable, Evidence
  <2>8. /\ Len(fs) = Len(evs) + 1 /\ Len(evs) \in Nat
        /\ fs[Len(evs) + 1] = ev /\ \A i \in 1..Len(evs) : fs[i] = evs[i]
        /\ NoDone(fs)
    BY <1>0, <2>5, Appended
  <2>. HIDE DEF fs
  <2>9. Candidate(x, Verdicts(fs, x.format))
    BY <1>0, <2>7, <2>8, CandidateAdd DEF e
  <2>10. InEvent(x, <<>>, <<>>) /\ AtLine(x, <<>>)
    BY <1>2, <2>2, <2>3, NoLines
  <2>11. Follows(x, fs, <<>>, <<>>)
    BY <1>0, <2>8, <2>9, <2>10 DEF Follows
  <2>. QED  BY <1>0, <2>1, <2>11 DEF Watches, Quiet, Same, fs
<1>. QED  BY <1>1, <1>2

\* Once the event has been counted, the end changes nothing more.
LEMMA NothingLeft ==
    ASSUME NEW z, NEW evs, Watches(z, evs, <<>>, <<>>)
    PROVE  lastEvent(z) = z
BY NoLines DEF Watches, Follows, lastEvent

\* Of a stream that has ended, the events before [DONE] make the verdict.
LEMMA Counting ==
    ASSUME NEW all \in Seq(Seq(Line)), NEW ds \in Seq(Seq(Line)), Reached(all, ds), NEW format
    PROVE  Contract!EventsVerdict(all, format) = Contract!Summary(Verdicts(ds, format))
<1>. DEFINE m == Len(ds)
            C == Contract!Counted(all)
<1>0. m \in Nat /\ Len(all) \in Nat /\ DOMAIN all = 1..Len(all) /\ m <= Len(all)
    BY DEF Reached
<1>1. C = {i \in 1..Len(all) : \A j \in 1..i : ~Contract!IsDone(all[j])}
    BY <1>0 DEF Contract!Counted
<1>2. /\ \A i \in 1..m : all[i] = ds[i] /\ ~Contract!IsDone(all[i])
      /\ m < Len(all) => Contract!IsDone(all[m + 1])
    BY DEF Reached, Begins, NoDone
<1>. HIDE DEF m, C
<1>3. C = 1..m
  <2>1. ASSUME NEW i \in 1..m PROVE i \in C
    <3>1. i \in 1..Len(all) /\ 1..i \subseteq 1..m
      BY <1>0
    <3>. QED  BY <1>1, <1>2, <3>1
  <2>2. ASSUME NEW i \in C PROVE i \in 1..m
    <3>1. i \in 1..Len(all) /\ \A j \in 1..i : ~Contract!IsDone(all[j])
      BY <1>1
    <3>2. i > m => m < Len(all) /\ m + 1 \in 1..i
      BY <1>0, <3>1
    <3>3. ~(i > m)
      BY <1>2, <3>1, <3>2
    <3>. QED  BY <1>0, <3>1, <3>3
  <2>. QED  BY <2>1, <2>2
<1>4. [i \in C |-> Contract!EventVerdict(all[i], format)] = Verdicts(ds, format)
    BY <1>2, <1>3 DEF Verdicts, m
<1>. QED  BY <1>4, Zenon DEF Contract!EventsVerdict, C

\* The candidate is that verdict.
LEMMA CandidateVerdict ==
    ASSUME NEW z, NEW evs \in Seq(Seq(Line)), NEW all \in Seq(Seq(Line)),
           Watches(z, evs, <<>>, <<>>), Begins(all, evs), z.terminalSeen \/ all = evs
    PROVE  Contract!EventsVerdict(all, z.format) = StreamFound(z)
<1>1. PICK ds \in Seq(Seq(Line)) : Reached(all, ds) /\ Candidate(z, Verdicts(ds, z.format))
  <2>1. CASE z.terminalSeen
    <3>1. Heard(z, all)
      BY <2>1, HeardMore DEF Watches
    <3>. QED  BY <3>1 DEF Heard
  <2>2. CASE ~z.terminalSeen
    <3>1. Follows(z, all, <<>>, <<>>)
      BY <2>2 DEF Watches
    <3>2. Len(all) \in Nat
      OBVIOUS
    <3>3. Reached(all, all)
      BY <3>1, <3>2 DEF Reached, Begins, Follows
    <3>. QED  BY <3>1, <3>3 DEF Follows
  <2>. QED  BY <2>1, <2>2
<1>2. Contract!EventsVerdict(all, z.format) = Contract!Summary(Verdicts(ds, z.format))
    BY <1>1, Counting
<1>. DEFINE v == Verdicts(ds, z.format)
<1>3. \A i \in DOMAIN v : v[i] = Evidence(v[i].outcome, v[i].usage)
  <2>1. \A i \in DOMAIN v : v[i] = Contract!EventVerdict(ds[i], z.format)
    BY DEF Verdicts
  <2>. HIDE DEF v
  <2>. SUFFICES ASSUME NEW i \in DOMAIN v PROVE v[i] = Evidence(v[i].outcome, v[i].usage)
    OBVIOUS
  <2>. DEFINE e == Contract!EventVerdict(ds[i], z.format)
  <2>2. e = Evidence(e.outcome, e.usage)
    BY VerdictRecord, Zenon
  <2>. HIDE DEF e
  <2>3. v[i] = e
    BY <2>1 DEF e
  <2>. QED  BY <2>2, <2>3, Zenon
<1>. HIDE DEF v
<1>4. Contract!Summary(v) = StreamFound(z)
    BY <1>1, <1>3, CandidateSummary DEF v
<1>. QED  BY <1>2, <1>4 DEF v

\* What is left at the end of a stream is a line, and the lines that are left an event.
LEMMA LastOfStream ==
    ASSUME NEW x, Buffers(x), TerminalOnce(x), NEW b \in Line, View(x, b)
    PROVE  LET z == lastEvent(lastLine(x))
           IN /\ Buffers(z) /\ TerminalOnce(z) /\ Quiet(x, z) /\ z.format = x.format
              /\ z.terminalNotified => z.terminals = Most(z, "terminal")
              /\ Contract!StreamVerdict(b, x.format) = StreamFound(z)
<1>. DEFINE evs == EventsOf(b)
            ev == EventOf(b)
            line == LineOf(b)
            all == Contract!AllEvents(b)
            z == lastEvent(lastLine(x))
<1>0. evs \in Seq(Seq(Line)) /\ ev \in Seq(Line) /\ line \in Line
    BY ViewTypes
<1>1. all = IF line \in Contract!Blank THEN Append(Append(evs, ev), <<>>)
            ELSE Append(evs, Append(ev, line))
    BY ViewEnd
<1>2. Contract!StreamVerdict(b, x.format) = Contract!EventsVerdict(all, x.format)
    BY DEF Contract!StreamVerdict
<1>3. Quiet(x, x)
    BY DEF Quiet, Same
<1>. HIDE DEF evs, ev, line, all
<1>4. Append(ev, line) \in Seq(Line) /\ <<>> \in Seq(Line)
    BY <1>0
<1>5. all \in Seq(Seq(Line)) /\ Begins(all, evs)
  <2>1. CASE line \in Contract!Blank
    <3>. DEFINE fs == Append(evs, ev)
    <3>1. fs \in Seq(Seq(Line)) /\ Begins(fs, evs)
      BY <1>0, Appended
    <3>. HIDE DEF fs
    <3>2. all = Append(fs, <<>>)
      BY <1>1, <2>1 DEF fs
    <3>3. all \in Seq(Seq(Line)) /\ Begins(all, fs)
      BY <1>4, <3>1, <3>2, Appended
    <3>4. Begins(all, evs)
      BY <3>1, <3>3 DEF Begins
    <3>. QED  BY <3>3, <3>4
  <2>2. CASE line \notin Contract!Blank
    BY <1>0, <1>1, <1>4, <2>2, Appended
  <2>. QED  BY <2>1, <2>2
\* It is enough to find the ended events that z watches.
<1>6. ASSUME NEW fs \in Seq(Seq(Line)), Watches(z, fs, <<>>, <<>>), Begins(all, fs),
             z.terminalSeen \/ all = fs, z.format = x.format,
             Buffers(z), TerminalOnce(z), Quiet(x, z)
      PROVE  /\ Buffers(z) /\ TerminalOnce(z) /\ Quiet(x, z) /\ z.format = x.format
             /\ z.terminalNotified => z.terminals = Most(z, "terminal")
             /\ Contract!StreamVerdict(b, x.format) = StreamFound(z)
  <2>. HIDE DEF z
  <2>1. Contract!EventsVerdict(all, z.format) = StreamFound(z)
    BY <1>5, <1>6, CandidateVerdict
  <2>2. z.terminalNotified => z.terminals = Most(z, "terminal")
    BY <1>6 DEF Watches, Follows, Heard
  <2>. QED  BY <1>2, <1>6, <2>1, <2>2
<1>7. CASE x.terminalSeen
  <2>1. z = x
    BY <1>7 DEF lastEvent, lastLine
  <2>2. Watches(x, evs, <<>>, <<>>)
    BY <1>7 DEF View, Watches, evs
  <2>. HIDE DEF z
  <2>. QED  BY <1>0, <1>3, <1>5, <1>6, <1>7, <2>1, <2>2 DEF z
<1>8. CASE ~x.terminalSeen
  <2>1. Follows(x, evs, ev, line)
    BY <1>8 DEF View, Watches, evs, ev, line
  <2>2. AtLine(x, line) /\ InEvent(x, ev, line)
    BY <2>1 DEF Follows
  <2>. DEFINE fs == Append(evs, ev)
  <2>3. fs \in Seq(Seq(Line))
    BY <1>0
  <2>4. CASE line = <<>>
    <3>1. x.line = <<>> /\ line \in Contract!Blank
      BY <1>0, <2>2, <2>4, NoLines, BlankLine
    <3>2. lastLine(x) = x
      BY <3>1 DEF lastLine
    <3>3. Follows(x, evs, ev, <<>>)
      BY <2>1, <2>4
    <3>4. z = lastEvent(x)
      BY <3>2
    <3>5. /\ Watches(z, fs, <<>>, <<>>) /\ z.format = x.format
          /\ Buffers(z) /\ TerminalOnce(z) /\ Quiet(x, z) /\ (~z.terminalSeen => z.line = <<>>)
      BY <1>0, <3>1, <3>3, <3>4, LastEvent
    <3>6. all = Append(fs, <<>>)
      BY <1>1, <3>1
    <3>. HIDE DEF z, fs
    <3>7. CASE z.terminalSeen
      <4>1. Begins(all, fs)
        BY <1>4, <2>3, <3>6, Appended
      <4>. QED  BY <1>6, <2>3, <3>5, <3>7, <4>1 DEF z
    <3>8. CASE ~z.terminalSeen
      <4>1. Follows(z, fs, <<>>, <<>>) /\ z.line = <<>>
        BY <3>5, <3>8 DEF Watches
      <4>2. Watches(lastEvent(z), Append(fs, <<>>), <<>>, <<>>)
        BY <1>4, <2>3, <3>5, <4>1, LastEvent
      <4>3. lastEvent(z) = z
        BY <3>5, NothingLeft
      <4>4. Watches(z, all, <<>>, <<>>)
        BY <3>6, <4>2, <4>3
      <4>5. Begins(all, all)
        BY DEF Begins
      <4>. QED  BY <1>5, <1>6, <3>5, <4>4, <4>5 DEF z
    <3>. QED  BY <3>7, <3>8
  <2>5. CASE line # <<>>
    <3>1. x.line # <<>>
      <4>1. CASE Len(line) <= SSELimit
        BY <2>2, <2>5, <4>1 DEF AtLine
      <4>2. CASE ~(Len(line) <= SSELimit)
        <5>1. Len(x.line) = SSELimit /\ SSELimit # 0 /\ Len(<<>>) = 0
          BY <2>2, <4>2, SSELimitIsNumber DEF AtLine
        <5>. QED  BY <5>1
      <4>. QED  BY <4>1, <4>2
    <3>. DEFINE y == processSSELine(x)
    <3>2. lastLine(x) = y /\ z = lastEvent(y)
      BY <1>8, <3>1 DEF lastLine
    <3>3. Buffers(y) /\ TerminalOnce(y) /\ Quiet(x, y)
      BY ProcessSSELine
    <3>4. IF line \in Contract!Blank
            THEN /\ y = finishSSEEvent(Emptied(x))
                 /\ InEvent(Emptied(x), ev, <<>>) /\ Unmoved(x, Emptied(x))
                 /\ Buffers(Emptied(x)) /\ Emptied(x).line = <<>>
            ELSE /\ InEvent(y, Append(ev, line), <<>>) /\ Unmoved(x, y)
                 /\ y.line = <<>>
      BY <1>0, <2>2, LineEnds
    <3>. HIDE DEF y, z
    <3>5. CASE line \in Contract!Blank
      <4>. DEFINE u == Emptied(x)
      <4>1. /\ y = finishSSEEvent(u) /\ InEvent(u, ev, <<>>) /\ Unmoved(x, u)
            /\ Buffers(u) /\ u.line = <<>>
        BY <3>4, <3>5
      <4>. HIDE DEF u
      <4>2. TerminalOnce(u)
        BY <4>1 DEF TerminalOnce, Unmoved, Most
      <4>3. Follows(u, evs, ev, <<>>)
        BY <2>1, <4>1, FollowsOn, NoLines
      <4>4. Watches(y, fs, <<>>, <<>>) /\ y.format = u.format
        BY <1>0, <4>1, <4>2, <4>3, EventCounted
      <4>5. z = y /\ z.format = x.format
        BY <3>2, <4>1, <4>4, NothingLeft DEF Unmoved
      <4>6. all = Append(fs, <<>>)
        BY <1>1, <3>5
      <4>. HIDE DEF fs
      <4>7. CASE z.terminalSeen
        <5>1. Begins(all, fs)
          BY <1>4, <2>3, <4>6, Appended
        <5>. QED  BY <1>6, <2>3, <3>3, <4>4, <4>5, <4>7, <5>1 DEF z
      <4>8. CASE ~z.terminalSeen
        <5>1. Follows(z, fs, <<>>, <<>>) /\ z.line = <<>>
          BY <4>4, <4>5, <4>8, NoLines DEF Watches, Follows
        <5>2. Watches(lastEvent(z), Append(fs, <<>>), <<>>, <<>>)
          BY <1>4, <2>3, <3>3, <4>5, <5>1, LastEvent
        <5>3. Watches(z, all, <<>>, <<>>)
          BY <3>2, <4>5, <4>6, <5>2
        <5>4. Begins(all, all)
          BY DEF Begins
        <5>. QED  BY <1>5, <1>6, <3>3, <4>5, <5>3, <5>4 DEF z
      <4>. QED  BY <4>7, <4>8
    <3>6. CASE line \notin Contract!Blank
      <4>. DEFINE w == Append(ev, line)
      <4>1. InEvent(y, w, <<>>) /\ Unmoved(x, y) /\ y.line = <<>>
        BY <3>4, <3>6
      <4>2. all = Append(evs, w) /\ w \in Seq(Line)
        BY <1>1, <1>4, <3>6
      <4>. HIDE DEF w
      <4>3. Follows(y, evs, w, <<>>)
        BY <2>1, <4>1, FollowsOn, NoLines
      <4>4. /\ Watches(z, all, <<>>, <<>>) /\ z.format = y.format
            /\ Buffers(z) /\ TerminalOnce(z) /\ Quiet(y, z)
        BY <1>0, <3>2, <3>3, <4>1, <4>2, <4>3, LastEvent
      <4>5. Quiet(x, z) /\ z.format = x.format
        BY <3>3, <4>1, <4>4 DEF Quiet, Same, Unmoved
      <4>6. Begins(all, all)
        BY DEF Begins
      <4>. QED  BY <1>5, <1>6, <4>4, <4>5, <4>6 DEF z
    <3>. QED  BY <3>5, <3>6
  <2>. QED  BY <2>4, <2>5
<1>. QED  BY <1>7, <1>8

\* Finish on a stream reports what the whole stream says.
LEMMA FinishStream ==
    ASSUME NEW x, Good(x), x.streaming, ~x.finished, NEW b \in Line, View(x, b)
    PROVE  LET y == Finish(x)
               e == Contract!StreamVerdict(b, x.format)
           IN /\ y.usages = IF e.outcome = "available" /\ "usage" \in x.hooks
                              THEN <<e.usage>> ELSE <<>>
              /\ y.evidences = IF "evidence" \in x.hooks THEN <<e>> ELSE <<>>
              /\ y.terminals = IF "terminal" \in x.hooks THEN 1 ELSE 0
              /\ y.format = x.format
<1>. DEFINE z == lastEvent(lastLine(x))
            e == Contract!StreamVerdict(b, x.format)
            y == Finish(x)
<1>1. Buffers(x) /\ TerminalOnce(x) /\ Silent(x)
    BY DEF Good
<1>2. /\ Buffers(z) /\ TerminalOnce(z) /\ Quiet(x, z) /\ z.format = x.format
      /\ z.terminalNotified => z.terminals = Most(z, "terminal")
      /\ e = StreamFound(z)
    BY <1>1, LastOfStream
<1>3. y = report([z EXCEPT !.finished = TRUE], StreamFound(z))
    BY DEF Finish, finishStreaming, StreamFound
<1>. HIDE DEF z, y, e
<1>4. Silent(z) /\ z.hooks = x.hooks
    BY <1>1, <1>2 DEF Silent, Quiet, Same
<1>5. Reported(z, y, e)
    BY <1>2, <1>3, <1>4, ReportTells
<1>6. /\ y.usages = IF e.outcome = "available" /\ "usage" \in x.hooks
                      THEN <<e.usage>> ELSE <<>>
      /\ y.evidences = IF "evidence" \in x.hooks THEN <<e>> ELSE <<>>
      /\ y.terminals = IF "terminal" \in x.hooks THEN 1 ELSE 0
      /\ y.format = x.format
    BY <1>2, <1>4, <1>5, Zenon DEF Reported
<1>. QED  BY <1>6 DEF y, e

----------------------------------------------------------------------------
(* The refinement of UsageContract, for streams *)

\* Until it is reported, the observer has followed the stream; afterwards nothing
\* comes.
Followed ==
    config.streaming =>
        /\ o.format = config.format
        /\ IF o.finished THEN ended /\ chunk = <<>> ELSE View(o, given)

\* A new stream has been followed.
LEMMA InitFollowed == Init => Followed
<1>. SUFFICES ASSUME Init, config.streaming PROVE Followed
    BY DEF Followed
<1>. DEFINE k == IF ~config.streaming /\ config.length \in 1..MaxJSON THEN config.length ELSE 0
<1>1. o = newCompletionUsageObserver(config.streaming, config.format, config.hooks, k)
    BY DEF Init
<1>. HIDE DEF k
<1>2. /\ ~o.finished /\ ~o.terminalSeen /\ ~o.terminalNotified /\ o.format = config.format
      /\ o.line = <<>> /\ o.eventData = <<>> /\ ~o.eventLimited /\ ~o.eventHasData
      /\ ~o.candidateValid /\ ~o.candidateInvalid
    BY <1>1 DEF newCompletionUsageObserver
<1>3. given = <<>> /\ <<>> \in Line
    BY DEF Init, Line
<1>4. LineOf(given) = <<>> /\ EventsOf(given) = <<>> /\ EventOf(given) = <<>>
    BY <1>3, ViewTypes
<1>5. AtLine(o, <<>>) /\ InEvent(o, <<>>, <<>>)
    BY <1>2, NoLines
<1>6. 1..Len(<<>>) = {}
    OBVIOUS
<1>7. Candidate(o, Verdicts(<<>>, o.format)) /\ NoDone(<<>>)
  <2>1. DOMAIN Verdicts(<<>>, o.format) = {}
    BY <1>6 DEF Verdicts
  <2>. QED  BY <1>2, <1>6, <2>1, Zenon DEF Candidate, NoDone
<1>8. Follows(o, <<>>, <<>>, <<>>)
    BY <1>2, <1>5, <1>7 DEF Follows
<1>. QED  BY <1>2, <1>4, <1>8 DEF Followed, View, Watches

\* What the contract's Hand says of the terminal callback holds while the observer
\* follows the stream.
LEMMA TerminalAtDone ==
    ASSUME NEW x, NEW b \in Line, View(x, b), TerminalOnce(x)
    PROVE  IF Contract!SaysDone(b) THEN x.terminals = Most(x, "terminal") ELSE x.terminals = 0
<1>1. Contract!SaysDone(b) <=> x.terminalSeen
    BY KnowsDone
<1>. QED  BY <1>1 DEF View, Watches, Follows, Heard, TerminalOnce

\* More bytes after [DONE].
LEMMA ViewMore ==
    ASSUME NEW x, NEW b \in Line, NEW c \in Line, View(x, b), x.terminalSeen
    PROVE  View(x, b \o c)
<1>1. b \o c \in Line
    BY ConcatProperties, Zenon DEF Line
<1>2. EventsOf(b) \in Seq(Seq(Line)) /\ EventsOf(b \o c) \in Seq(Seq(Line))
    BY <1>1, ViewTypes
<1>3. Begins(EventsOf(b \o c), EventsOf(b))
    BY ViewGrows
<1>4. Heard(x, EventsOf(b))
    BY DEF View, Watches
<1>5. Heard(x, EventsOf(b \o c))
    BY <1>2, <1>3, <1>4, HeardMore
<1>. QED  BY <1>5 DEF View, Watches

\* Every step of a stream follows it, and is a step of the contract or none.
LEMMA StreamContract ==
    ASSUME IInv, Accounted, Followed, config.streaming, [Next]_vars
    PROVE  Followed' /\ config' = config /\ (Contract!Next \/ UNCHANGED Contract!vars)
<1>0. /\ Good(o) /\ o.hooks = config.hooks /\ o.streaming /\ ~hasExpectedLength /\ ~lookahead
      /\ given \in Seq(Symbols) /\ chunk \in Seq(Symbols) /\ ended \in BOOLEAN
      /\ HandedOver \in BOOLEAN /\ (chunk # <<>> => ~HandedOver)
    BY EndStands DEF IInv, Wrapped, TypeOK, hasExpectedLength, lookahead
<1>1. /\ o.format = config.format
      /\ IF o.finished THEN ended /\ chunk = <<>> ELSE View(o, given)
    BY DEF Followed
<1>2. given \in Line /\ chunk \in Line
    BY <1>0 DEF Line
<1>3. TerminalOnce(o) /\ Buffers(o) /\ (~o.finished => o.usages = <<>> /\ o.evidences = <<>>)
    BY <1>0 DEF Good, Silent
<1>4. CASE ReadSource
  <2>1. UNCHANGED <<config, o, given>>
    BY <1>4 DEF ReadSource, Got
  <2>2. ended' \in BOOLEAN /\ (ended => ended')
    BY <1>0, <1>4 DEF ReadSource, SourceRead
  <2>3. o.finished => chunk' = <<>>
    BY <1>1, <1>4 DEF ReadSource, SourceRead, Got, IInv, Reads
  <2>4. Followed'
    BY <1>1, <2>1, <2>2, <2>3 DEF Followed, View
  <2>5. CASE HandedOver' = HandedOver
    BY <2>1, <2>4, <2>5 DEF Contract!vars
  <2>6. CASE HandedOver' # HandedOver
    <3>0. (HandedOver => HandedOver') /\ HandedOver' \in BOOLEAN
      BY <1>4, <2>1, SourceStands DEF ReadSource, HandedOver
    <3>1. ~HandedOver /\ HandedOver' = TRUE
      BY <1>0, <2>6, <3>0
    <3>2. Contract!End
      BY <2>1, <3>1 DEF Contract!End
    <3>. QED  BY <2>1, <2>4, <3>2 DEF Contract!Next
  <2>. QED  BY <2>5, <2>6
<1>5. CASE ReadAhead \/ ReadThrough \/ observeExpectedLength \/ Peek
    BY <1>0, <1>5 DEF ReadAhead, ReadThrough, observeExpectedLength, Peek
<1>6. CASE ObserveSSE
  <2>. DEFINE s == Head(chunk)
  <2>1. /\ chunk # <<>> /\ ~o.finished /\ ~o.terminalSeen /\ o' = ObserveByte(o, s)
        /\ given' = Append(given, s) /\ UNCHANGED <<config, ended>>
    BY <1>6 DEF ObserveSSE, Deaf
  <2>2. s \in Symbols
    BY <1>0, <2>1
  <2>. HIDE DEF s
  <2>3. View(o', given') /\ o'.format = o.format
    BY <1>1, <1>2, <1>3, <2>1, <2>2, ByteWatched
  <2>4. Good(o') /\ Same(o, o') /\ o'.finished = o.finished
    BY <1>0, <2>1, <2>2, ObserveByteKeeps
  <2>5. Followed'
    BY <1>1, <2>1, <2>3, <2>4 DEF Followed, View
  <2>6. TerminalOnce(o') /\ o'.usages = o.usages /\ o'.evidences = o.evidences
    BY <1>3, <2>1, <2>4 DEF Good, Silent
  <2>7. given' = given \o <<s>> /\ <<s>> \in Seq(Symbols) /\ <<s>> # <<>>
    BY <1>0, <2>1, <2>2
  <2>8. Len(given) < Len(given') /\ SubSeq(given', 1, Len(given)) = given
    BY <1>0, <2>7, Longer
  <2>9. given' \in Line
    BY <1>0, <2>1, <2>2 DEF Line
  <2>10. IF Contract!SaysDone(given') THEN o'.terminals = Most(o', "terminal")
                                      ELSE o'.terminals = 0
    BY <2>3, <2>6, <2>9, TerminalAtDone
  <2>11. o.terminals = 0
    BY <1>1, <1>3, <2>1 DEF View, Watches, Follows, TerminalOnce
  <2>12. o'.terminals = IF config.streaming /\ Contract!SaysDone(given')
                          THEN Contract!Once ELSE o.terminals
    BY <1>0, <2>4, <2>10, <2>11 DEF Most, Contract!Once, Same
  <2>0. ~HandedOver /\ HandedOver' \in BOOLEAN
    BY <1>0, <2>1 DEF HandedOver
  <2>13. Contract!Hand
    BY <2>0, <2>1, <2>4, <2>6, <2>8, <2>12 DEF Contract!Hand
  <2>. QED  BY <2>1, <2>5, <2>13 DEF Contract!Next
<1>7. CASE Observed
  <2>1. /\ UNCHANGED <<config, o, ended, produced>> /\ (chunk = <<>> \/ o.finished \/ o.terminalSeen)
        /\ given' = given \o chunk /\ chunk' = <<>>
    BY <1>7 DEF Observed, Deaf
  <2>2. CASE chunk = <<>>
    <3>1. given' = given
      BY <1>0, <2>1, <2>2
    <3>2. HandedOver' = HandedOver
      BY <2>1, <3>1 DEF HandedOver
    <3>. QED  BY <1>1, <2>1, <3>1, <3>2 DEF Followed, View, Contract!vars
  <2>3. CASE chunk # <<>>
    <3>1. ~o.finished /\ o.terminalSeen /\ View(o, given)
      BY <1>1, <2>1, <2>3
    <3>2. View(o, given \o chunk)
      BY <1>2, <3>1, ViewMore
    <3>3. Followed'
      BY <1>1, <2>1, <3>1, <3>2 DEF Followed, View
    <3>4. Len(given) < Len(given') /\ SubSeq(given', 1, Len(given)) = given
      BY <1>0, <2>1, <2>3, Longer
    <3>5. given \o chunk \in Line
      BY <1>2, ConcatProperties, Zenon DEF Line
    <3>6. Contract!SaysDone(given \o chunk) /\ o.terminals = Most(o, "terminal")
      <4>1. Contract!SaysDone(given \o chunk)
        BY <3>1, <3>2, <3>5, KnowsDone
      <4>. QED  BY <1>3, <3>2, <3>5, <4>1, TerminalAtDone
    <3>7. o'.terminals = IF config.streaming /\ Contract!SaysDone(given')
                           THEN Contract!Once ELSE o.terminals
      BY <1>0, <2>1, <3>6 DEF Most, Contract!Once
    <3>0. ~HandedOver /\ HandedOver' \in BOOLEAN
      BY <1>0, <2>3 DEF HandedOver
    <3>8. Contract!Hand
      BY <2>1, <3>0, <3>4, <3>7 DEF Contract!Hand
    <3>. QED  BY <2>1, <3>3, <3>8 DEF Contract!Next
  <2>. QED  BY <2>2, <2>3
<1>8. CASE Settle
  <2>0. UNCHANGED <<given, ended, produced>>
    BY <1>8 DEF Settle
  <2>1. /\ UNCHANGED <<config, given, ended, chunk>> /\ pc = "settle"
        /\ HandedOver' = HandedOver
    BY <1>8, <2>0 DEF Settle, HandedOver
  <2>2. CASE o' = o
    BY <1>1, <2>1, <2>2 DEF Followed, View, Contract!vars
  <2>3. CASE err = "eof" /\ o' = Finish(o) /\ o.finished
    <3>1. o' = o
      BY <2>3 DEF Finish
    <3>. QED  BY <2>2, <3>1
  <2>4. CASE err = "eof" /\ o' = Finish(o) /\ ~o.finished
    <3>. DEFINE e == Contract!StreamVerdict(given, config.format)
    <3>0. ended /\ chunk = <<>> /\ ahead = <<>>
      BY <1>0, <2>1, <2>4 DEF IInv, Reads, Accounted
    <3>1. ended /\ chunk = <<>> /\ HandedOver
      BY <3>0, EndStands
    <3>2. /\ o'.usages = IF e.outcome = "available" /\ "usage" \in o.hooks
                           THEN <<e.usage>> ELSE <<>>
          /\ o'.evidences = IF "evidence" \in o.hooks THEN <<e>> ELSE <<>>
          /\ o'.terminals = IF "terminal" \in o.hooks THEN 1 ELSE 0
          /\ o'.format = o.format
      BY <1>0, <1>1, <1>2, <2>4, FinishStream
    <3>3. o'.finished
      BY <1>0, <2>4, FinishKeeps
    <3>4. Followed'
      BY <1>1, <2>1, <3>1, <3>2, <3>3 DEF Followed
    <3>5. Contract!Verdict = e
      BY DEF Contract!Verdict
    <3>. HIDE DEF e
    <3>6. Contract!Told(e)
      BY <1>0, <3>2, Zenon DEF Contract!Told, Contract!Asked, Contract!Once
    <3>7. Contract!Complete'
      BY <2>1, <3>1 DEF Contract!Complete
    <3>8. Contract!Report
      BY <2>1, <2>4, <3>3, <3>5, <3>6, <3>7 DEF Contract!Report
    <3>. QED  BY <2>1, <3>4, <3>8 DEF Contract!Next
  <2>. QED  BY <1>8, <2>2, <2>3, <2>4 DEF Settle
<1>9. CASE Close \/ UNCHANGED vars
  <2>1. UNCHANGED <<config, o, given, ended, chunk, produced>>
    BY <1>9 DEF Close, vars
  <2>2. HandedOver' = HandedOver
    BY <2>1 DEF HandedOver
  <2>. QED  BY <1>1, <2>1, <2>2 DEF Followed, View, Contract!vars
<1>. QED  BY <1>4, <1>5, <1>6, <1>7, <1>8, <1>9 DEF Next

\* Reader and observer implement UsageContract: one report, when every byte up to EOF
\* or up to the declared length is handed over, of what all of them say, however it was cut, and for a stream the terminal
\* callback at the blank line after [DONE] (Read, Observe, Finish).
THEOREM ReportsWhole == Spec => ReportsWholeBody
<1>1. Init => Contract!Init
  <2>. SUFFICES ASSUME Init PROVE Contract!Init
    OBVIOUS
  <2>. DEFINE k == IF ~config.streaming /\ config.length \in 1..MaxJSON THEN config.length ELSE 0
  <2>1. o = newCompletionUsageObserver(config.streaming, config.format, config.hooks, k)
    BY DEF Init
  <2>. HIDE DEF k
  <2>2. /\ o.finished = FALSE /\ o.usages = <<>> /\ o.evidences = <<>> /\ o.terminals = 0
    BY <2>1 DEF newCompletionUsageObserver
  <2>3. HandedOver = FALSE
    BY DEF Init, HandedOver
  <2>. QED  BY <2>2, <2>3 DEF Init, Contract!Init
<1>2. IInv /\ Accounted /\ Whole /\ Followed /\ [Next]_vars
        => (Whole /\ Followed)' /\ [Contract!Next]_(Contract!vars)
  <2>. SUFFICES ASSUME IInv, Accounted, Whole, Followed, [Next]_vars
                PROVE  (Whole /\ Followed)' /\ [Contract!Next]_(Contract!vars)
    OBVIOUS
  <2>1. CASE config.streaming
    <3>1. Followed' /\ config' = config /\ (Contract!Next \/ UNCHANGED Contract!vars)
      BY <2>1, StreamContract
    <3>2. Whole'
      BY <2>1, <3>1 DEF Whole
    <3>. QED  BY <3>1, <3>2
  <2>2. CASE ~config.streaming
    <3>1. Whole' /\ (Contract!Next \/ UNCHANGED Contract!vars)
      BY <2>2, PlainContract
    <3>2. config' = config
      BY <2>2, PlainSteps DEF QuietStep, HandStep, FinishStep
    <3>3. Followed'
      BY <2>2, <3>2 DEF Followed
    <3>. QED  BY <3>1, <3>3
  <2>. QED  BY <2>1, <2>2
<1>. QED  BY <1>1, <1>2, Inductive, Accounts, InitWhole, InitFollowed, PTL
          DEF Spec, ReportsWholeBody, Contract!Spec
============================================================================
