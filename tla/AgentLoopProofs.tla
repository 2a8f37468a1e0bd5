--------------------------- MODULE AgentLoopProofs ---------------------------
(***************************************************************************)
(* Theorems about AgentLoop, for any number of turns, of calls in a turn   *)
(* and of fragments of a call, in any interleaving: the types, that the    *)
(* turn executes the calls the upstream meant, that the model never sees a *)
(* call left open, that a search fails only when every provider did, that  *)
(* the reply and the row of a run tell the same, and that every step of the*)
(* handler brings the run nearer to its end.                               *)
(***************************************************************************)
EXTENDS AgentLoop, FiniteSetTheorems, SequenceTheorems, WellFoundedInduction, TLAPS

Sent == [name : Names, args : Nat, index : Nat \cup {NoIndex}]
Turns == [indexed : BOOLEAN, calls : Seq(Sent), usage : 0..1, whole : BOOLEAN]
Providers == {"tavily", "serper", "ddg"}

(* The types the proofs need: the flags, the stage of the run, ...         *)
Flags ==
  /\ request \in Requests /\ client \in {"there", "stalled", "left"}
  /\ hasSearched \in BOOLEAN /\ streamError \in BOOLEAN

(* ... where a turn is counted in iter when its calls are executed, and in *)
(* the tokens when it ends, ...                                            *)
Before == {"routing", "resolving", "proxied", "admission"}
InRun == {"turn", "reading", "executing", "searching"}
Stage ==
  /\ pc \in Before \cup InRun \cup {"finishing", "saved", "ended"}
  /\ iter \in 0..MaxIterations /\ tokens \in 0..MaxIterations
  /\ pc \in Before \cup InRun => iter < MaxIterations
  /\ pc \in Before \cup {"turn", "reading"} => tokens <= iter
  /\ pc \in {"executing", "searching"} => tokens <= iter + 1

(* ... the calls of the round and the providers, the row and the events.   *)
RoundType ==
  /\ todo \in Seq(Nat) /\ answered \in Seq(Nat)
  /\ Len(asked) \in Nat /\ DOMAIN asked = 1..Len(asked)
  /\ left \subseteq Providers
RowType == [status : {"ok", "refused", "cancelled", "failed"}, tokens : Nat]
Events == {"refusal", "error", "sources", "limit", "meta", "done"}
ReplyType == rows \in Seq(RowType) /\ frames \in Seq(Events)

Typed == Flags /\ Stage /\ turn \in Turns /\ RoundType /\ ReplyType

(* The buffers of the accumulator are the calls begun so far, in order,    *)
(* each with the name and the pieces that were sent of it.  A call the     *)
(* upstream numbers is kept under its number, another under its position.  *)
Numbered ==
  /\ \A i \in 1..Len(turn.calls) :
       turn.calls[i].index # NoIndex /\ accum.order[i] = turn.calls[i].index
  /\ \A i, j \in 1..Len(turn.calls) : turn.calls[i].index = turn.calls[j].index => i = j
Unnumbered ==
  /\ accum.next = Len(turn.calls)
  /\ \A i \in 1..Len(turn.calls) : turn.calls[i].index = NoIndex /\ accum.order[i] = i - 1
Gathered ==
  pc = "reading" =>
    /\ accum.order \in Seq(Nat) /\ Len(accum.order) = Len(turn.calls)
    /\ accum.next \in Nat
    /\ DOMAIN accum.bufs = {accum.order[i] : i \in 1..Len(accum.order)}
    /\ \A i \in 1..Len(turn.calls) :
         accum.bufs[accum.order[i]] = [name |-> turn.calls[i].name, args |-> turn.calls[i].args]
    /\ turn.indexed => Numbered
    /\ ~turn.indexed => Unnumbered

Blank == pc # "reading" => accum = NoCalls

(* The calls of the round up to some position are answered, the others are *)
(* to do.                                                                  *)
Round ==
  /\ pc \in {"executing", "searching"} =>
       /\ Len(answered) + Len(todo) = Len(asked)
       /\ \A i \in 1..Len(answered) : answered[i] = i
       /\ \A i \in 1..Len(todo) : todo[i] = Len(answered) + i
       /\ asked = Meant
  /\ pc = "searching" => todo # <<>>
  /\ pc \in {"routing", "resolving", "admission", "reading"} => asked = <<>> /\ answered = <<>>
  /\ EveryCallIsAnswered

(* What was tried and what is left of the providers.                       *)
Searching == pc = "searching" => tried \cup left = Chain(request)

(* The row and the events, by the stage of the run.                        *)
Told ==
  /\ streamError <=> Contains(frames, "error")
  /\ pc \in {"routing", "resolving", "proxied", "admission", "turn", "reading", "executing",
             "searching"} => rows = <<>> /\ ~streamError
  /\ pc = "finishing" => rows = <<>>
  /\ pc = "saved" => Len(rows) = 1 /\ ((rows[1].status = "ok") = ~streamError)
  /\ pc # "ended" => ~Contains(frames, "done")
  /\ pc = "ended" /\ frames # <<"refusal">> =>
       /\ Len(rows) = 1 /\ ((rows[1].status = "ok") = ~streamError)
       /\ Last(frames) = "done"

IInv == Typed /\ Gathered /\ Blank /\ Round /\ Searching /\ Told

-----------------------------------------------------------------------------
LEMMA Constants ==
  /\ MaxIterations \in Nat \ {0} /\ MaxCalls \in Nat \ {0} /\ PromptTokens \in Nat \ {0}
  /\ NoIndex \notin Nat /\ NoName \in Names
  /\ \A r \in Requests : Chain(r) \subseteq Providers
BY AgentAssumption DEF Chain, Providers

LEMMA NamedIsSequence ==
  ASSUME NEW calls, NEW n \in Nat, DOMAIN calls = 1..n
  PROVE  Len(Named(calls)) \in Nat /\ DOMAIN Named(calls) = 1..Len(Named(calls))
<1> DEFINE K == {i \in DOMAIN calls : calls[i].name # NoName}
           m == Cardinality(K)
           s == [k \in 1..m |-> calls[InOrder(K)[k]]]
<1>1. IsFiniteSet(K)
  BY FS_Interval, FS_Subset
<1>2. m \in Nat
  BY <1>1, FS_CardinalityType
<1>3. DOMAIN InOrder(K) = 1..m
  BY DEF InOrder
<1>4. Named(calls) = s
  BY <1>3 DEF Named
<1> DEFINE T == {calls[InOrder(K)[k]] : k \in 1..m}
<1>5. s \in [1..m -> T]
  OBVIOUS
<1> HIDE DEF s, m, T
<1>6. s \in Seq(T)
  BY <1>2, <1>5, SeqDef
<1>7. Len(s) \in Nat /\ DOMAIN s = 1..Len(s)
  BY <1>6
<1> QED
  BY <1>4, <1>7

LEMMA NamedEmpty == Named(<<>>) = <<>>
<1> DEFINE K == {i \in DOMAIN <<>> : <<>>[i].name # NoName}
<1>1. K = {}
  OBVIOUS
<1>2. Cardinality(K) = 0
  BY <1>1, FS_EmptySet
<1>3. DOMAIN InOrder(K) = {}
  BY <1>2 DEF InOrder
<1> QED
  BY <1>3 DEF Named

LEMMA Appended ==
  ASSUME NEW S, NEW s \in Seq(S), NEW e \in S
  PROVE  /\ Append(s, e) \in Seq(S)
         /\ \A x : Contains(Append(s, e), x) <=> Contains(s, x) \/ x = e
         /\ Last(Append(s, e)) = e
BY DEF Contains, Last

LEMMA FirstIsLeft ==
  ASSUME NEW P, P \subseteq Providers, P # {}
  PROVE  First(P) \in P
BY DEF First, Providers

LEMMA InitIInv == Init => IInv
<1> SUFFICES ASSUME Init PROVE IInv
  OBVIOUS
<1> USE DEF Init, NoTurn
<1>1. Typed
  <2>1. Flags
    BY Zenon DEF Flags
  <2>2. Stage
    BY Constants DEF Stage, Before, InRun
  <2>3. turn \in Turns
    BY DEF Turns
  <2>4. RoundType /\ ReplyType
    BY DEF RoundType, ReplyType
  <2> QED
    BY <2>1, <2>2, <2>3, <2>4 DEF Typed
<1>2. Gathered /\ Blank /\ Searching
  BY DEF Gathered, Blank, Searching
<1>3. Round
  BY DEF Round, EveryCallIsAnswered
<1>4. Told
  BY DEF Told, Contains
<1> QED
  BY <1>1, <1>2, <1>3, <1>4 DEF IInv

-----------------------------------------------------------------------------
(* The steps of the run *)

(* The call at the head of todo gets its message.                          *)
LEMMA AnswerKeepsRound ==
  ASSUME Typed, Round, pc \in {"executing", "searching"}, todo # <<>>, Answer
  PROVE  /\ answered' \in Seq(Nat) /\ todo' \in Seq(Nat) /\ asked' = asked
         /\ Len(answered') + Len(todo') = Len(asked')
         /\ \A i \in 1..Len(answered') : answered'[i] = i
         /\ \A i \in 1..Len(todo') : todo'[i] = Len(answered') + i
<1>1. /\ todo \in Seq(Nat) /\ answered \in Seq(Nat) /\ Len(asked) \in Nat
      /\ Len(answered) + Len(todo) = Len(asked)
      /\ \A i \in 1..Len(answered) : answered[i] = i
      /\ \A i \in 1..Len(todo) : todo[i] = Len(answered) + i
  BY DEF Typed, RoundType, Round
<1>2. answered' = Append(answered, Head(todo)) /\ todo' = Tail(todo) /\ asked' = asked
  BY DEF Answer
<1>3. Head(todo) = Len(answered) + 1 /\ Head(todo) \in Nat /\ Len(todo) > 0
  BY <1>1
<1>4. /\ answered' \in Seq(Nat) /\ Len(answered') = Len(answered) + 1
      /\ \A i \in 1..Len(answered) : answered'[i] = answered[i]
      /\ answered'[Len(answered) + 1] = Head(todo)
  BY <1>1, <1>2, <1>3
<1>5. /\ todo' \in Seq(Nat) /\ Len(todo') = Len(todo) - 1
      /\ \A i \in 1..Len(todo') : todo'[i] = todo[i + 1]
  BY <1>1, <1>2, <1>3
<1>6. ASSUME NEW i \in 1..Len(answered') PROVE answered'[i] = i
  <2>1. i \in 1..Len(answered) \/ i = Len(answered) + 1
    BY <1>1, <1>4
  <2> QED
    BY <1>1, <1>3, <1>4, <2>1
<1>7. \A i \in 1..Len(todo') : todo'[i] = Len(answered') + i
  BY <1>1, <1>4, <1>5
<1> QED
  BY <1>1, <1>2, <1>4, <1>5, <1>6, <1>7

LEMMA NextFlags ==
  ASSUME Flags, [Next]_vars
  PROVE  Flags'
<1>1. request' = request
  BY DEF Next, Attempt, Receive, Act, Route, Resolve, Refuse, Admit, TurnFails, Connect, BeginCall,
     ContinueCall, ReportUsage, TurnEnds, DeclineSearch, OtherTool, StartSearch, TryProvider,
     SearchFails, NextTurn, Save, Return, ClientChanges, vars
<1>2. client' = client \/ client' \in {"there", "stalled", "left"}
  BY DEF Next, Attempt, Receive, Act, Route, Resolve, Refuse, Admit, TurnFails, Connect, BeginCall,
     ContinueCall, ReportUsage, TurnEnds, DeclineSearch, OtherTool, StartSearch, TryProvider,
     SearchFails, NextTurn, Save, Return, ClientChanges, vars
<1>3. hasSearched' = hasSearched \/ hasSearched' = TRUE
  BY DEF Next, Attempt, Receive, Act, Route, Resolve, Refuse, Admit, TurnFails, Connect, BeginCall,
     ContinueCall, ReportUsage, TurnEnds, DeclineSearch, OtherTool, StartSearch, TryProvider,
     SearchFails, NextTurn, Save, Return, ClientChanges, vars, search
<1>4. streamError' = streamError \/ streamError' = TRUE
  BY DEF Next, Attempt, Receive, Act, Route, Resolve, Refuse, Admit, TurnFails, Connect, BeginCall,
     ContinueCall, ReportUsage, TurnEnds, DeclineSearch, OtherTool, StartSearch, TryProvider,
     SearchFails, NextTurn, Save, Return, ClientChanges, vars
<1> QED
  BY <1>1, <1>2, <1>3, <1>4, Zenon DEF Flags

LEMMA NextStage ==
  ASSUME Stage, turn \in Turns, [Next]_vars
  PROVE  Stage'
<1> USE Constants DEF Stage, Before, InRun
<1>1. CASE Route \/ Resolve \/ Refuse \/ Admit
  <2>1. UNCHANGED <<iter, tokens>> /\ pc \in Before
    BY <1>1 DEF Route, Resolve, Refuse, Admit
  <2>2. pc' \in Before \cup {"turn", "ended"}
    BY <1>1 DEF Route, Resolve, Refuse, Admit
  <2> QED
    BY <2>1, <2>2
<1>2. CASE TurnFails \/ Connect
  BY <1>2 DEF TurnFails, Connect
<1>3. CASE Receive \/ ClientChanges \/ UNCHANGED vars
  BY <1>3 DEF Receive, BeginCall, ContinueCall, ReportUsage, ClientChanges, vars
<1>4. CASE TurnEnds
  <2>1. turn.usage \in 0..1
    BY DEF Turns
  <2>2. /\ pc = "reading" /\ pc' \in {"finishing", "executing"}
        /\ tokens' = tokens + turn.usage /\ iter' = iter
    BY <1>4 DEF TurnEnds
  <2> QED
    BY <2>1, <2>2
<1>5. CASE DeclineSearch \/ OtherTool \/ StartSearch \/ SearchFails
  <2>1. /\ pc \in {"executing", "searching"} /\ pc' \in {"executing", "searching"}
        /\ UNCHANGED <<iter, tokens>>
    BY <1>5 DEF DeclineSearch, OtherTool, StartSearch, SearchFails
  <2> QED
    BY <2>1
<1>6. ASSUME NEW a \in 0..1, NEW h \in 0..MaxHits, NEW f \in BOOLEAN, TryProvider(a, h, f)
      PROVE  Stage'
  <2>1. /\ pc = "searching" /\ pc' \in {"executing", "searching"} /\ UNCHANGED <<iter, tokens>>
    BY <1>6 DEF TryProvider
  <2> QED
    BY <2>1
<1>7. CASE NextTurn
  BY <1>7 DEF NextTurn
<1>8. CASE Save \/ Return
  BY <1>8 DEF Save, Return
<1> QED
  BY <1>1, <1>2, <1>3, <1>4, <1>5, <1>6, <1>7, <1>8 DEF Next, Attempt, Act

LEMMA NextTurnType ==
  ASSUME turn \in Turns, [Next]_vars
  PROVE  turn' \in Turns
<1>1. CASE Connect \/ NextTurn
  <2>1. NoTurn \in Turns
    BY DEF NoTurn, Turns
  <2>2. ASSUME NEW b \in BOOLEAN, turn' = [NoTurn EXCEPT !.indexed = b] PROVE turn' \in Turns
    <3>1. turn' = [indexed |-> b, calls |-> <<>>, usage |-> 0, whole |-> FALSE]
      BY <2>2 DEF NoTurn
    <3>2. <<>> \in Seq(Sent)
      OBVIOUS
    <3> QED
      BY <3>1, <3>2 DEF Turns
  <2> QED
    BY <1>1, <2>1, <2>2 DEF Connect, NextTurn
<1>2. ASSUME NEW n \in Names, NEW i \in 0..MaxCalls \cup {NoIndex}, BeginCall(n, i)
      PROVE  turn' \in Turns
  <2> DEFINE call == [name |-> n, args |-> 1, index |-> i]
  <2>1. call \in Sent
    BY Constants DEF Sent
  <2>2. turn' = [turn EXCEPT !.calls = Append(@, call)]
    BY <1>2 DEF BeginCall
  <2> HIDE DEF call
  <2>3. Append(turn.calls, call) \in Seq(Sent)
    BY <2>1 DEF Turns
  <2> QED
    BY <2>2, <2>3 DEF Turns
<1>3. ASSUME NEW k \in 1..MaxCalls, ContinueCall(k) PROVE turn' \in Turns
  <2> DEFINE calls == turn.calls
             call == [calls[k] EXCEPT !.args = @ + 1]
             more == [calls EXCEPT ![k] = call]
  <2>1. k \in DOMAIN calls /\ turn' = [turn EXCEPT !.calls = more]
    BY <1>3 DEF ContinueCall
  <2>2. calls \in Seq(Sent)
    BY DEF Turns
  <2> HIDE DEF calls
  <2>3. k \in 1..Len(calls) /\ calls[k] \in Sent
    BY <2>1, <2>2
  <2>4. call \in Sent
    BY <2>3 DEF Sent
  <2> HIDE DEF call
  <2>5. more \in Seq(Sent)
    BY <2>2, <2>3, <2>4
  <2> HIDE DEF more
  <2> QED
    BY <2>1, <2>5 DEF Turns
<1>4. CASE ReportUsage
  BY <1>4 DEF ReportUsage, Turns
<1>5. CASE TurnEnds
  <2>1. PICK whole \in BOOLEAN : turn' = [turn EXCEPT !.whole = whole]
    BY <1>5 DEF TurnEnds
  <2> QED
    BY <2>1 DEF Turns
<1>6. ASSUME ~Connect, ~NextTurn, ~Receive, ~TurnEnds PROVE turn' = turn
  BY <1>6 DEF Next, Attempt, Act, Route, Resolve, Refuse, Admit, TurnFails,
     DeclineSearch, OtherTool, StartSearch, TryProvider, SearchFails, Save, Return, ClientChanges, vars
<1> QED
  BY <1>1, <1>2, <1>3, <1>4, <1>5, <1>6 DEF Receive

LEMMA NextReplyType ==
  ASSUME ReplyType, Stage, [Next]_vars
  PROVE  ReplyType'
<1> USE DEF ReplyType, reply
<1>1. CASE Resolve \/ Refuse
  <2>1. /\ rows' \in {rows, <<>>, <<Row("refused", PromptTokens)>>}
        /\ frames' \in {frames, <<"refusal">>}
    BY <1>1 DEF Resolve, Refuse
  <2>2. Row("refused", PromptTokens) \in RowType
    BY Constants DEF Row, RowType
  <2>3. rows' \in Seq(RowType)
    <3> HIDE DEF RowType
    <3> DEFINE refused == Row("refused", PromptTokens)
    <3>1. refused \in RowType
      BY <2>2
    <3> HIDE DEF refused
    <3>2. <<>> \in Seq(RowType) /\ <<refused>> \in Seq(RowType)
      BY <3>1
    <3> QED
      BY <2>1, <3>2 DEF refused
  <2>4. <<"refusal">> \in Seq(Events)
    BY DEF Events
  <2> QED
    BY <2>1, <2>3, <2>4
<1>2. CASE TurnFails \/ NextTurn
  <2>1. frames' \in {frames, Append(frames, "error"), Append(frames, "limit")} /\ rows' = rows
    BY <1>2 DEF TurnFails, NextTurn
  <2>2. "error" \in Events /\ "limit" \in Events
    BY DEF Events
  <2> QED
    BY <2>1, <2>2
<1>3. ASSUME NEW a \in 0..1, NEW h \in 0..MaxHits, NEW f \in BOOLEAN, TryProvider(a, h, f)
      PROVE  ReplyType'
  <2>1. rows' = rows /\ (frames' = frames \/ frames' = Append(frames, "sources"))
    BY <1>3 DEF TryProvider
  <2>2. "sources" \in Events
    BY DEF Events
  <2> QED
    BY <2>1, <2>2
<1>4. CASE Save
  <2> DEFINE n == IF tokens = 0 THEN PromptTokens ELSE tokens
  <2>1. Outcome \in {"ok", "cancelled", "failed"} /\ n \in Nat
    BY Constants DEF Outcome, Stage
  <2>2. rows' = Append(rows, Row(Outcome, n)) /\ frames' = frames
    BY <1>4 DEF Save
  <2> HIDE DEF n
  <2>3. Row(Outcome, n) \in RowType
    BY <2>1 DEF Row, RowType
  <2> QED
    BY <2>2, <2>3
<1>5. CASE Return
  <2>1. frames' = frames \o <<"meta", "done">> /\ rows' = rows
    BY <1>5 DEF Return
  <2>2. <<"meta", "done">> \in Seq(Events)
    BY DEF Events
  <2> QED
    BY <2>1, <2>2
<1>6. ASSUME ~Resolve, ~Refuse, ~TurnFails, ~NextTurn, ~Save, ~Return,
             \A a \in 0..1, h \in 0..MaxHits, f \in BOOLEAN : ~TryProvider(a, h, f)
      PROVE  UNCHANGED <<rows, frames>>
  BY <1>6 DEF Next, Attempt, Receive, Act, Route, Admit, Connect, BeginCall, ContinueCall,
     ReportUsage, TurnEnds, DeclineSearch, OtherTool, StartSearch, SearchFails, ClientChanges, vars
<1> QED
  BY <1>1, <1>2, <1>3, <1>4, <1>5, <1>6

-----------------------------------------------------------------------------
(* The calls of a turn *)

LEMMA AddOpens ==
  ASSUME NEW a, NEW f, NEW idx, idx = Slot(a, f), idx \notin DOMAIN a.bufs
  PROVE  /\ Add(a, f).order = Append(a.order, idx)
         /\ DOMAIN Add(a, f).bufs = DOMAIN a.bufs \cup {idx}
         /\ Add(a, f).bufs[idx] = [name |-> f.name, args |-> 1]
         /\ \A x \in DOMAIN a.bufs : Add(a, f).bufs[x] = a.bufs[x]
         /\ Add(a, f).next = IF idx >= a.next THEN idx + 1 ELSE a.next
<1> DEFINE buf == [name |-> NoName, args |-> 0]
           added == [name |-> IF f.name # NoName THEN f.name ELSE buf.name, args |-> buf.args + 1]
<1>1. added = [name |-> f.name, args |-> 1]
  OBVIOUS
<1>2. Add(a, f) =
        [order |-> Append(a.order, idx),
         bufs |-> [x \in DOMAIN a.bufs \cup {idx} |-> IF x = idx THEN added ELSE a.bufs[x]],
         next |-> IF idx >= a.next THEN idx + 1 ELSE a.next]
  BY Zenon DEF Add
<1> HIDE DEF added
<1> QED
  BY <1>1, <1>2

LEMMA AddContinues ==
  ASSUME NEW a, NEW f, NEW idx, idx = Slot(a, f), idx \in DOMAIN a.bufs, f.name = NoName
  PROVE  Add(a, f) =
           [order |-> a.order,
            bufs |-> [x \in DOMAIN a.bufs |->
                        IF x = idx THEN [name |-> a.bufs[idx].name, args |-> a.bufs[idx].args + 1]
                        ELSE a.bufs[x]],
            next |-> a.next]
<1>1. DOMAIN a.bufs \cup {idx} = DOMAIN a.bufs
  OBVIOUS
<1> QED
  BY <1>1, Zenon DEF Add

(* A call keeps its buffer whatever fragments of other calls come between: *)
(* it is a new one that is opened, ...                                     *)
LEMMA CallIsOpened ==
  ASSUME Typed, Gathered, NEW n \in Names, NEW i \in 0..MaxCalls \cup {NoIndex}, BeginCall(n, i)
  PROVE  Gathered'
<1> DEFINE calls == turn.calls
           len == Len(calls)
           call == [name |-> n, args |-> 1, index |-> i]
           idx == IF turn.indexed THEN i ELSE len
           old == accum.order
           kept == accum.bufs
<1>1. calls \in Seq(Sent) /\ turn.indexed \in BOOLEAN /\ len \in Nat /\ DOMAIN calls = 1..len
  BY DEF Typed, Turns
<1>2. /\ old \in Seq(Nat) /\ Len(old) = len /\ accum.next \in Nat
      /\ DOMAIN kept = {old[j] : j \in 1..len}
      /\ \A j \in 1..len : kept[old[j]] = [name |-> calls[j].name, args |-> calls[j].args]
  BY DEF Gathered, BeginCall
<1>3. turn.indexed =>
        /\ i \in 0..MaxCalls /\ \A j \in 1..len : calls[j].index # i
        /\ \A j \in 1..len : calls[j].index # NoIndex /\ old[j] = calls[j].index
        /\ \A j, k \in 1..len : calls[j].index = calls[k].index => j = k
  BY <1>1 DEF BeginCall, Range, Gathered, Numbered
<1>4. ~turn.indexed =>
        /\ i = NoIndex /\ accum.next = len
        /\ \A j \in 1..len : calls[j].index = NoIndex /\ old[j] = j - 1
  BY <1>1 DEF BeginCall, Gathered, Unnumbered
<1>5. /\ pc' = pc /\ turn' = [turn EXCEPT !.calls = Append(@, call)]
      /\ accum' = Add(accum, Fragment(i, TRUE, n))
  BY DEF BeginCall
<1>6. turn'.calls = Append(calls, call) /\ turn'.indexed = turn.indexed
  BY <1>5 DEF Typed, Turns
<1>7. call \in Sent
  BY Constants DEF Sent
<1>8. call.name = n /\ call.args = 1 /\ call.index = i
  OBVIOUS
<1> HIDE DEF call
<1>9. /\ Len(turn'.calls) = len + 1 /\ turn'.calls[len + 1] = call
      /\ \A j \in 1..len : turn'.calls[j] = calls[j]
  BY <1>1, <1>6, <1>7
<1>10. (turn.indexed => idx = i) /\ (~turn.indexed => idx = len)
  OBVIOUS
<1>11. Slot(accum, Fragment(i, TRUE, n)) = idx
  BY <1>3, <1>4, Constants DEF Slot, Fragment
<1> HIDE DEF calls, len, idx, old
<1>12. idx \in Nat
  BY <1>1, <1>3, <1>10
<1>13. ASSUME NEW j \in 1..len PROVE old[j] # idx
  <2>1. CASE turn.indexed
    BY <2>1, <1>3, <1>10
  <2>2. CASE ~turn.indexed
    BY <2>2, <1>1, <1>4, <1>10
  <2> QED
    BY <2>1, <2>2
<1>14. idx \notin DOMAIN kept
  BY <1>2, <1>13
<1> DEFINE bufs == accum'.bufs
           order == Append(old, idx)
           next == IF idx >= accum.next THEN idx + 1 ELSE accum.next
<1>16. /\ accum'.order = order /\ accum'.next = next
       /\ DOMAIN bufs = DOMAIN kept \cup {idx} /\ bufs[idx] = [name |-> n, args |-> 1]
       /\ \A x \in DOMAIN kept : bufs[x] = kept[x]
  <2> DEFINE f == Fragment(i, TRUE, n)
  <2>1. f.name = n
    BY DEF Fragment
  <2>2. accum' = Add(accum, f) /\ idx = Slot(accum, f)
    BY <1>5, <1>11
  <2> HIDE DEF f
  <2>3. /\ Add(accum, f).order = Append(accum.order, idx)
        /\ Add(accum, f).next = IF idx >= accum.next THEN idx + 1 ELSE accum.next
        /\ DOMAIN Add(accum, f).bufs = DOMAIN accum.bufs \cup {idx}
        /\ Add(accum, f).bufs[idx] = [name |-> f.name, args |-> 1]
        /\ \A x \in DOMAIN accum.bufs : Add(accum, f).bufs[x] = accum.bufs[x]
    <3>1. idx \notin DOMAIN accum.bufs
      BY <1>14
    <3> QED
      BY <2>2, <3>1, AddOpens
  <2> QED
    BY <2>1, <2>2, <2>3 DEF old
<1>17. /\ order \in Seq(Nat) /\ Len(order) = len + 1 /\ order[len + 1] = idx
       /\ \A j \in 1..len : order[j] = old[j]
  BY <1>1, <1>2, <1>12
<1>18. /\ DOMAIN bufs = DOMAIN kept \cup {idx}
       /\ bufs[idx] = [name |-> n, args |-> 1]
       /\ \A j \in 1..len : bufs[old[j]] = kept[old[j]]
  BY <1>2, <1>16
<1>19. next \in Nat /\ (~turn.indexed => next = len + 1)
  BY <1>1, <1>2, <1>4, <1>10, <1>12
<1>20. \A j \in 1..len + 1 : j \in 1..len \/ j = len + 1
  BY <1>1
<1>21. 1..len \subseteq 1..len + 1 /\ len + 1 \in 1..len + 1
  BY <1>1
<1> HIDE DEF order, next, kept
<1>22. DOMAIN bufs = {order[j] : j \in 1..len + 1}
  <2>1. DOMAIN bufs = {old[j] : j \in 1..len} \cup {order[len + 1]}
    BY <1>2, <1>17, <1>18
  <2>2. ASSUME NEW j \in 1..len + 1 PROVE order[j] \in DOMAIN bufs
    BY <2>1, <1>17, <1>20
  <2>3. ASSUME NEW x \in DOMAIN bufs PROVE \E j \in 1..len + 1 : x = order[j]
    BY <2>1, <1>17, <1>21
  <2> QED
    BY <2>2, <2>3
<1>23. \A j \in 1..len + 1 :
         bufs[order[j]] = [name |-> turn'.calls[j].name, args |-> turn'.calls[j].args]
  <2>1. ASSUME NEW j \in 1..len
        PROVE  bufs[order[j]] = [name |-> turn'.calls[j].name, args |-> turn'.calls[j].args]
    <3>1. order[j] = old[j] /\ bufs[old[j]] = kept[old[j]] /\ turn'.calls[j] = calls[j]
      BY <1>9, <1>17, <1>18
    <3>2. kept[old[j]] = [name |-> calls[j].name, args |-> calls[j].args]
      BY <1>2
    <3> QED
      BY <3>1, <3>2
  <2>2. bufs[order[len + 1]] = [name |-> turn'.calls[len + 1].name, args |-> turn'.calls[len + 1].args]
    BY <1>8, <1>9, <1>17, <1>18
  <2> QED
    BY <2>1, <2>2, <1>20
<1>24. turn.indexed => Numbered'
  <2> SUFFICES ASSUME turn.indexed PROVE Numbered'
    OBVIOUS
  <2>1. \A j \in 1..len + 1 :
          turn'.calls[j].index # NoIndex /\ order[j] = turn'.calls[j].index
    BY <1>3, <1>8, <1>9, <1>10, <1>17, <1>20, Constants
  <2>2. \A j, k \in 1..len + 1 : turn'.calls[j].index = turn'.calls[k].index => j = k
    BY <1>3, <1>8, <1>9, <1>20
  <2> QED
    BY <2>1, <2>2, <1>9, <1>16 DEF Numbered
<1>25. ~turn.indexed => Unnumbered'
  <2> SUFFICES ASSUME ~turn.indexed PROVE Unnumbered'
    OBVIOUS
  <2>1. \A j \in 1..len + 1 : turn'.calls[j].index = NoIndex
    BY <1>4, <1>8, <1>9, <1>20
  <2>2. \A j \in 1..len + 1 : order[j] = j - 1
    BY <1>1, <1>4, <1>10, <1>17, <1>20
  <2> QED
    BY <2>1, <2>2, <1>9, <1>16, <1>19 DEF Unnumbered
<1> QED
  BY <1>6, <1>9, <1>16, <1>17, <1>19, <1>22, <1>23, <1>24, <1>25 DEF Gathered

(* ... and it is the call a later fragment continues.                      *)
LEMMA CallIsContinued ==
  ASSUME Typed, Gathered, NEW k \in 1..MaxCalls, ContinueCall(k)
  PROVE  Gathered'
<1> DEFINE calls == turn.calls
           len == Len(calls)
           more == [calls EXCEPT ![k].args = @ + 1]
           f == Fragment(calls[k].index, FALSE, NoName)
           order == accum.order
           kept == accum.bufs
           idx == order[k]
<1>1. calls \in Seq(Sent) /\ turn.indexed \in BOOLEAN /\ len \in Nat /\ DOMAIN calls = 1..len
  BY DEF Typed, Turns
<1>2. /\ order \in Seq(Nat) /\ Len(order) = len /\ accum.next \in Nat
      /\ DOMAIN kept = {order[j] : j \in 1..len}
      /\ \A j \in 1..len : kept[order[j]] = [name |-> calls[j].name, args |-> calls[j].args]
  BY DEF Gathered, ContinueCall
<1>3. turn.indexed =>
        /\ \A j \in 1..len : calls[j].index # NoIndex /\ order[j] = calls[j].index
        /\ \A j, l \in 1..len : calls[j].index = calls[l].index => j = l
  BY DEF Gathered, ContinueCall, Numbered
<1>4. ~turn.indexed =>
        /\ k = len /\ accum.next = len
        /\ \A j \in 1..len : calls[j].index = NoIndex /\ order[j] = j - 1
  BY DEF Gathered, ContinueCall, Unnumbered
<1>5. /\ k \in 1..len /\ pc' = pc
      /\ turn' = [turn EXCEPT !.calls = more] /\ accum' = Add(accum, f)
  BY <1>1 DEF ContinueCall
<1>6. turn'.calls = more /\ turn'.indexed = turn.indexed
  BY <1>5 DEF Typed, Turns
<1>7. /\ Len(more) = len /\ more[k].name = calls[k].name /\ more[k].args = calls[k].args + 1
      /\ more[k].index = calls[k].index
      /\ \A j \in 1..len : j # k => more[j] = calls[j]
  <2>1. calls[k] \in Sent
    BY <1>1, <1>5
  <2>2. more[k] = [calls[k] EXCEPT !.args = @ + 1]
    BY <1>1, <1>5
  <2>3. \A j \in 1..len : j # k => more[j] = calls[j]
    BY <1>1, <1>5
  <2>4. Len(more) = len
    BY <1>1, <1>5
  <2> HIDE DEF more, calls, len
  <2> QED
    BY <2>1, <2>2, <2>3, <2>4 DEF Sent
<1> HIDE DEF calls, len, more, order
<1>8. Slot(accum, f) = idx
  <2>1. CASE turn.indexed
    BY <2>1, <1>3, <1>5 DEF Slot, Fragment
  <2>2. CASE ~turn.indexed
    <3>1. calls[k].index = NoIndex
      BY <2>2, <1>4, <1>5
    <3>2. order # <<>> /\ Last(order) = order[k]
      BY <2>2, <1>1, <1>2, <1>4, <1>5 DEF Last
    <3> QED
      BY <3>1, <3>2 DEF Slot, Fragment, order
  <2> QED
    BY <2>1, <2>2
<1>9. idx \in DOMAIN kept
  BY <1>2, <1>5
<1> DEFINE added == [name |-> calls[k].name, args |-> calls[k].args + 1]
           bufs == [x \in DOMAIN kept |-> IF x = idx THEN added ELSE kept[x]]
<1>10. kept[idx].name = calls[k].name /\ kept[idx].args = calls[k].args
  <2>1. kept[idx] = [name |-> calls[k].name, args |-> calls[k].args]
    BY <1>2, <1>5
  <2> QED
    BY <2>1
<1>11. accum' = [order |-> order, bufs |-> bufs, next |-> accum.next]
  <2>1. f.name = NoName
    BY DEF Fragment
  <2>2. accum' = Add(accum, f)
    BY <1>5
  <2> HIDE DEF f, idx
  <2>3. Add(accum, f) =
          [order |-> accum.order,
           bufs |-> [x \in DOMAIN kept |->
                       IF x = idx THEN [name |-> kept[idx].name, args |-> kept[idx].args + 1]
                       ELSE kept[x]],
           next |-> accum.next]
    BY <2>1, <1>8, <1>9, AddContinues
  <2> QED
    BY <2>2, <2>3, <1>10, Zenon DEF order
<1>12. accum'.order = order /\ accum'.bufs = bufs /\ accum'.next = accum.next
  BY <1>11
<1>13. ASSUME NEW j \in 1..len, j # k PROVE order[j] # idx
  <2>1. CASE turn.indexed
    BY <2>1, <1>3, <1>5, <1>13
  <2>2. CASE ~turn.indexed
    BY <2>2, <1>1, <1>4, <1>5, <1>13
  <2> QED
    BY <2>1, <2>2
<1>14. /\ DOMAIN bufs = DOMAIN kept /\ bufs[idx] = added
       /\ \A j \in 1..len : j # k => bufs[order[j]] = kept[order[j]]
  BY <1>2, <1>9, <1>13
<1> HIDE DEF bufs
<1>15. ASSUME NEW j \in 1..len
       PROVE  /\ bufs[order[j]] = [name |-> more[j].name, args |-> more[j].args]
              /\ more[j].index = calls[j].index
  <2>1. CASE j = k
    BY <2>1, <1>7, <1>14
  <2>2. CASE j # k
    BY <2>2, <1>2, <1>7, <1>14
  <2> QED
    BY <2>1, <2>2
<1>16. turn.indexed => Numbered'
  BY <1>3, <1>6, <1>7, <1>12, <1>15 DEF Numbered
<1>17. ~turn.indexed => Unnumbered'
  BY <1>4, <1>6, <1>7, <1>12, <1>15 DEF Unnumbered
<1>18. /\ accum'.order \in Seq(Nat) /\ Len(accum'.order) = Len(turn'.calls) /\ accum'.next \in Nat
       /\ DOMAIN accum'.bufs = {accum'.order[j] : j \in 1..len}
       /\ Len(turn'.calls) = len
  BY <1>2, <1>6, <1>7, <1>12, <1>14
<1> QED
  BY <1>6, <1>12, <1>15, <1>16, <1>17, <1>18 DEF Gathered

LEMMA NextGathered ==
  ASSUME Typed, Gathered, Blank, [Next]_vars
  PROVE  Gathered' /\ Blank'
<1>1. ASSUME NEW n \in Names, NEW i \in 0..MaxCalls \cup {NoIndex}, BeginCall(n, i)
      PROVE  Gathered' /\ Blank'
  BY <1>1, CallIsOpened DEF Blank, BeginCall
<1>2. ASSUME NEW k \in 1..MaxCalls, ContinueCall(k) PROVE Gathered' /\ Blank'
  BY <1>2, CallIsContinued DEF Blank, ContinueCall
<1>3. CASE ReportUsage \/ ClientChanges \/ UNCHANGED vars
  <2>1. turn'.calls = turn.calls /\ turn'.indexed = turn.indexed /\ pc' = pc /\ accum' = accum
    BY <1>3 DEF ReportUsage, ClientChanges, vars, Typed, Turns
  <2> QED
    BY <2>1 DEF Gathered, Blank, Numbered, Unnumbered
<1>4. CASE Connect
  <2>1. pc # "reading" /\ pc' = "reading" /\ accum' = accum /\ turn'.calls = <<>>
    BY <1>4 DEF Connect, NoTurn
  <2>2. accum' = NoCalls
    BY <2>1 DEF Blank
  <2>3. accum'.order = <<>> /\ accum'.bufs = <<>> /\ accum'.next = 0
    BY <2>2 DEF NoCalls
  <2> QED
    BY <2>1, <2>3 DEF Gathered, Blank, Numbered, Unnumbered
<1>5. CASE TurnEnds
  BY <1>5 DEF TurnEnds, Gathered, Blank
<1>6. CASE TurnFails \/ Act
  <2>1. pc # "reading" /\ pc' # "reading" /\ accum' = accum
    BY <1>6 DEF TurnFails, Act, Route, Resolve, Refuse, Admit, DeclineSearch, OtherTool, StartSearch,
       TryProvider, SearchFails, NextTurn, Save, Return
  <2> QED
    BY <2>1 DEF Gathered, Blank
<1> QED
  BY <1>1, <1>2, <1>3, <1>4, <1>5, <1>6 DEF Next, Attempt, Receive

-----------------------------------------------------------------------------
(* The round *)

LEMMA TurnIsAsked ==
  ASSUME Typed, Gathered, TurnEnds
  PROVE  /\ Finalize(accum) = Meant'
         /\ Len(Finalize(accum)) \in Nat
         /\ DOMAIN Finalize(accum) = 1..Len(Finalize(accum))
         /\ Finalize(accum) = <<>> => Len(Finalize(accum)) = 0
<1> DEFINE calls == turn.calls
           bufs == [i \in DOMAIN accum.order |-> accum.bufs[accum.order[i]]]
           sent == [i \in DOMAIN calls |-> [name |-> calls[i].name, args |-> calls[i].args]]
           final == Finalize(accum)
<1>1. calls \in Seq(Sent) /\ turn'.calls = calls
  BY DEF TurnEnds, Typed, Turns
<1>2. /\ accum.order \in Seq(Nat) /\ Len(accum.order) = Len(calls)
      /\ \A i \in 1..Len(calls) :
           accum.bufs[accum.order[i]] = [name |-> calls[i].name, args |-> calls[i].args]
  BY DEF TurnEnds, Gathered
<1>3. DOMAIN accum.order = 1..Len(calls) /\ DOMAIN calls = 1..Len(calls) /\ Len(calls) \in Nat
  BY <1>1, <1>2
<1> HIDE DEF calls
<1>4. bufs = sent
  BY <1>2, <1>3
<1>5. DOMAIN bufs = 1..Len(calls)
  BY <1>3
<1>6. final = Named(bufs)
  BY DEF Finalize
<1>7. Meant' = Named(sent)
  BY <1>1, Zenon DEF Meant
<1> HIDE DEF bufs, sent
<1>8. Len(Named(bufs)) \in Nat /\ DOMAIN Named(bufs) = 1..Len(Named(bufs))
  BY <1>3, <1>5, NamedIsSequence
<1>9. final = Meant'
  BY <1>4, <1>6, <1>7
<1>10. Len(final) \in Nat /\ DOMAIN final = 1..Len(final)
  BY <1>6, <1>8
<1> HIDE DEF final
<1>11. final = <<>> => Len(final) = 0
  OBVIOUS
<1> QED
  BY <1>9, <1>10, <1>11 DEF final

(* The calls that are executed after a turn, and those that have to be.    *)
LEMMA TurnStartsRound ==
  ASSUME Typed, Gathered, TurnEnds, pc' = "executing"
  PROVE  /\ answered' = <<>> /\ asked' = Meant' /\ todo' \in Seq(Nat)
         /\ Len(asked') \in Nat /\ DOMAIN asked' = 1..Len(asked')
         /\ Len(todo') = Len(asked') /\ \A i \in 1..Len(todo') : todo'[i] = i
<1> DEFINE calls == Finalize(accum)
           order == [i \in DOMAIN calls |-> i]
<1>1. asked' = calls /\ todo' = order /\ answered' = <<>>
  BY DEF TurnEnds
<1>2. calls = Meant' /\ Len(calls) \in Nat /\ DOMAIN calls = 1..Len(calls)
  BY TurnIsAsked
<1> HIDE DEF calls
<1>3. order = [i \in 1..Len(calls) |-> i]
  BY <1>2
<1>4. order \in Seq(Nat) /\ Len(order) = Len(calls) /\ \A i \in 1..Len(calls) : order[i] = i
  BY <1>2, <1>3
<1> HIDE DEF order
<1> QED
  BY <1>1, <1>2, <1>4

(* The steps that give a call its message.                                 *)
Answers ==
  /\ pc' = "executing"
  /\ \/ DeclineSearch \/ OtherTool \/ StartSearch \/ SearchFails
     \/ \E a \in 0..1, h \in 0..MaxHits, f \in BOOLEAN : TryProvider(a, h, f)

LEMMA AnswersInRound ==
  ASSUME Round, Answers
  PROVE  /\ pc \in {"executing", "searching"} /\ todo # <<>> /\ turn' = turn
         /\ Answer \/ UNCHANGED round
<1>1. CASE DeclineSearch \/ OtherTool \/ StartSearch
  BY <1>1 DEF DeclineSearch, OtherTool, StartSearch, Answers
<1>2. CASE SearchFails
  BY <1>2 DEF SearchFails, Round
<1>3. ASSUME NEW a \in 0..1, NEW h \in 0..MaxHits, NEW f \in BOOLEAN, TryProvider(a, h, f)
      PROVE  pc \in {"executing", "searching"} /\ todo # <<>> /\ turn' = turn
             /\ (Answer \/ UNCHANGED round)
  BY <1>3 DEF TryProvider, Round
<1> QED
  BY <1>1, <1>2, <1>3 DEF Answers

(* A round with a call that is being answered.                             *)
Open ==
  /\ Len(answered) + Len(todo) = Len(asked)
  /\ \A i \in 1..Len(answered) : answered[i] = i
  /\ \A i \in 1..Len(todo) : todo[i] = Len(answered) + i
  /\ asked = Meant

LEMMA AnsweringKeepsOpen ==
  ASSUME Typed, Round, Answers
  PROVE  RoundType' /\ Open'
<1>1. /\ pc \in {"executing", "searching"} /\ todo # <<>> /\ turn' = turn
      /\ Answer \/ UNCHANGED round
  BY AnswersInRound
<1>2. Open /\ RoundType
  BY <1>1 DEF Round, Open, Typed
<1>3. Meant' = Meant
  BY <1>1, Zenon DEF Meant
<1>4. CASE Answer
  <2>1. /\ answered' \in Seq(Nat) /\ todo' \in Seq(Nat) /\ asked' = asked
        /\ Len(answered') + Len(todo') = Len(asked')
        /\ \A i \in 1..Len(answered') : answered'[i] = i
        /\ \A i \in 1..Len(todo') : todo'[i] = Len(answered') + i
    BY <1>1, <1>4, AnswerKeepsRound
  <2>2. left' \subseteq Providers
    <3>1. request \in Requests /\ left \subseteq Providers
      BY <1>2 DEF Typed, Flags, RoundType
    <3>2. left' \in {left, {}, Chain(request)} \/ left' = left \ {First(left)}
      BY DEF Answers, DeclineSearch, OtherTool, StartSearch, SearchFails, TryProvider, search
    <3> QED
      BY <3>1, <3>2, Constants
  <2> QED
    BY <1>2, <1>3, <2>1, <2>2 DEF Open, RoundType
<1>5. CASE UNCHANGED round
  <2>1. asked' = asked /\ todo' = todo /\ answered' = answered
    BY <1>5 DEF round
  <2>2. left' \subseteq Providers
    <3>1. request \in Requests /\ left \subseteq Providers
      BY <1>2 DEF Typed, Flags, RoundType
    <3>2. left' \in {left, {}, Chain(request)} \/ left' = left \ {First(left)}
      BY DEF Answers, DeclineSearch, OtherTool, StartSearch, SearchFails, TryProvider, search
    <3> QED
      BY <3>1, <3>2, Constants
  <2> QED
    BY <1>2, <1>3, <2>1, <2>2 DEF Open, RoundType
<1> QED
  BY <1>1, <1>4, <1>5

LEMMA SearchingKeepsOpen ==
  ASSUME Typed, Round, pc' = "searching",
         \/ StartSearch
         \/ \E a \in 0..1, h \in 0..MaxHits, f \in BOOLEAN : TryProvider(a, h, f)
  PROVE  RoundType' /\ Open' /\ todo' # <<>>
<1>1. /\ pc \in {"executing", "searching"} /\ todo # <<>> /\ turn' = turn
      /\ asked' = asked /\ todo' = todo /\ answered' = answered
      /\ left' = Chain(request) \/ left' \subseteq left
  <2>1. CASE StartSearch
    BY <2>1 DEF StartSearch, round
  <2>2. ASSUME NEW a \in 0..1, NEW h \in 0..MaxHits, NEW f \in BOOLEAN, TryProvider(a, h, f)
        PROVE  /\ pc \in {"executing", "searching"} /\ todo # <<>> /\ turn' = turn
               /\ asked' = asked /\ todo' = todo /\ answered' = answered
               /\ left' = Chain(request) \/ left' \subseteq left
    BY <2>2 DEF TryProvider, round, Round
  <2> QED
    BY <2>1, <2>2
<1>2. Open /\ RoundType /\ request \in Requests
  BY <1>1 DEF Round, Open, Typed, Flags
<1>3. Meant' = Meant
  BY <1>1, Zenon DEF Meant
<1> QED
  BY <1>1, <1>2, <1>3, Constants DEF Open, RoundType

LEMMA NextRound ==
  ASSUME Typed, Gathered, Round, [Next]_vars
  PROVE  RoundType' /\ Round'
<1>0. RoundType /\ Stage
  BY DEF Typed
<1>1. CASE Answers
  BY <1>1, AnsweringKeepsOpen DEF Round, Open, Answers, EveryCallIsAnswered
<1>2. CASE ~Answers /\ (StartSearch \/
             \E a \in 0..1, h \in 0..MaxHits, f \in BOOLEAN : TryProvider(a, h, f))
  <2>1. pc' = "searching"
    BY <1>2 DEF Answers, StartSearch, TryProvider
  <2>2. RoundType' /\ Open' /\ todo' # <<>>
    BY <1>2, <2>1, SearchingKeepsOpen
  <2> QED
    BY <2>1, <2>2 DEF Round, Open, EveryCallIsAnswered
<1>3. CASE TurnEnds
  <2>1. pc' = "executing" \/ (pc' = "finishing" /\ UNCHANGED round)
    BY <1>3 DEF TurnEnds
  <2>2. left' = left
    BY <1>3 DEF TurnEnds, search
  <2>3. CASE pc' = "executing"
    <3>1. /\ answered' = <<>> /\ asked' = Meant' /\ todo' \in Seq(Nat)
          /\ Len(asked') \in Nat /\ DOMAIN asked' = 1..Len(asked')
          /\ Len(todo') = Len(asked') /\ \A i \in 1..Len(todo') : todo'[i] = i
      BY <1>3, <2>3, TurnStartsRound
    <3>2. Len(answered') = 0 /\ answered' \in Seq(Nat)
      BY <3>1
    <3>3. Len(todo') \in Nat
      BY <3>1
    <3>4. Open'
      BY <3>1, <3>2, <3>3 DEF Open
    <3>5. RoundType'
      BY <1>0, <2>2, <3>1, <3>2 DEF RoundType
    <3> QED
      BY <2>3, <3>4, <3>5 DEF Round, Open, EveryCallIsAnswered
  <2>4. CASE pc' = "finishing" /\ UNCHANGED round
    BY <1>0, <2>2, <2>4 DEF Round, RoundType, EveryCallIsAnswered, round
  <2> QED
    BY <2>1, <2>3, <2>4
<1>4. CASE Connect
  <2>1. pc' = "reading" /\ asked' = <<>> /\ answered' = <<>> /\ todo' = todo /\ left' = left
    BY <1>4 DEF Connect, search
  <2>2. Len(asked') = 0 /\ DOMAIN asked' = 1..0 /\ answered' \in Seq(Nat)
    BY <2>1
  <2> QED
    BY <1>0, <2>1, <2>2 DEF Round, RoundType, EveryCallIsAnswered
<1>5. CASE NextTurn
  <2>1. /\ pc = "executing" /\ todo = <<>> /\ pc' \in {"turn", "finishing"}
        /\ UNCHANGED round /\ left' = left
    BY <1>5 DEF NextTurn, search
  <2>2. Len(answered) = Len(asked) /\ \A i \in 1..Len(answered) : answered[i] = i
    BY <1>0, <2>1 DEF Round, RoundType
  <2>3. answered = [i \in DOMAIN asked |-> i]
    BY <1>0, <2>2 DEF RoundType
  <2> QED
    BY <1>0, <2>1, <2>3 DEF Round, RoundType, EveryCallIsAnswered, round
<1>6. CASE Admit
  <2>1. asked = <<>> /\ answered = <<>> /\ pc' = "turn" /\ UNCHANGED round /\ left' = left
    BY <1>6 DEF Admit, Round, search
  <2>2. answered = [i \in DOMAIN asked |-> i]
    BY <2>1
  <2> QED
    BY <1>0, <2>1, <2>2 DEF Round, RoundType, EveryCallIsAnswered, round
<1>7. CASE Route \/ Resolve \/ Refuse \/ TurnFails \/ Save \/ Return
  <2>1. /\ pc' \in {"resolving", "proxied", "admission", "ended", "finishing", "saved"}
        /\ pc' \in {"resolving", "admission"} => pc \in {"routing", "resolving"}
        /\ UNCHANGED round /\ left' = left
    BY <1>7 DEF Route, Resolve, Refuse, TurnFails, Save, Return, search
  <2> QED
    BY <1>0, <2>1 DEF Round, RoundType, EveryCallIsAnswered, round
<1>8. CASE Receive
  <2>1. pc = "reading" /\ pc' = pc /\ UNCHANGED round /\ left' = left
    BY <1>8 DEF Receive, BeginCall, ContinueCall, ReportUsage, search
  <2> QED
    BY <1>0, <2>1 DEF Round, RoundType, EveryCallIsAnswered, round
<1>9. CASE ClientChanges \/ UNCHANGED vars
  <2>1. pc' = pc /\ UNCHANGED round /\ left' = left /\ turn' = turn
    BY <1>9 DEF ClientChanges, vars, round, search
  <2>2. Meant' = Meant
    BY <2>1, Zenon DEF Meant
  <2> QED
    BY <1>0, <2>1, <2>2 DEF Round, RoundType, EveryCallIsAnswered, round
<1>10. DeclineSearch \/ OtherTool \/ SearchFails => Answers
  BY <1>0 DEF DeclineSearch, OtherTool, SearchFails, Answers
<1> QED
  BY <1>1, <1>2, <1>3, <1>4, <1>5, <1>6, <1>7, <1>8, <1>9, <1>10 DEF Next, Attempt, Act

LEMMA NextSearching ==
  ASSUME Typed, Searching, [Next]_vars
  PROVE  Searching'
<1>1. request' = request
  BY DEF Next, Attempt, Receive, Act, Route, Resolve, Refuse, Admit, TurnFails, Connect, BeginCall,
     ContinueCall, ReportUsage, TurnEnds, DeclineSearch, OtherTool, StartSearch, TryProvider,
     SearchFails, NextTurn, Save, Return, ClientChanges, vars
<1>2. Chain(request') = Chain(request)
  BY <1>1
<1>3. CASE StartSearch
  BY <1>1, <1>3 DEF StartSearch, Searching
<1>4. ASSUME NEW a \in 0..1, NEW h \in 0..MaxHits, NEW f \in BOOLEAN, TryProvider(a, h, f)
      PROVE  Searching'
  <2> SUFFICES ASSUME pc' = "searching" PROVE tried' \cup left' = Chain(request)
    BY <1>1 DEF Searching
  <2>1. tried \cup left = Chain(request) /\ left \subseteq Providers /\ left # {}
    BY <1>4 DEF TryProvider, Searching, Typed, RoundType
  <2>2. tried' = tried \cup {First(left)} /\ left' = left \ {First(left)}
    BY <1>4 DEF TryProvider, GivesUp
  <2>3. First(left) \in left
    BY <2>1, FirstIsLeft
  <2> QED
    BY <2>1, <2>2, <2>3
<1>5. CASE ClientChanges \/ UNCHANGED vars
  BY <1>1, <1>5 DEF ClientChanges, vars, Searching, search
<1>6. ASSUME ~StartSearch, ~ClientChanges, ~UNCHANGED vars,
             \A a \in 0..1, h \in 0..MaxHits, f \in BOOLEAN : ~TryProvider(a, h, f)
      PROVE  pc' # "searching"
  BY <1>6 DEF Next, Attempt, Receive, Act, Route, Resolve, Refuse, Admit, TurnFails, Connect, BeginCall,
     ContinueCall, ReportUsage, TurnEnds, DeclineSearch, OtherTool, SearchFails, NextTurn, Save,
     Return
<1> QED
  BY <1>3, <1>4, <1>5, <1>6 DEF Searching

LEMMA Concatenated ==
  ASSUME NEW S, NEW s \in Seq(S), NEW a \in S, NEW b \in S
  PROVE  /\ \A x : Contains(s \o <<a, b>>, x) <=> Contains(s, x) \/ x = a \/ x = b
         /\ Last(s \o <<a, b>>) = b
<1> DEFINE t == s \o <<a, b>>
           n == Len(s)
<1>1. /\ n \in Nat /\ Len(t) = n + 2 /\ t[n + 1] = a /\ t[n + 2] = b
      /\ \A i \in 1..n : t[i] = s[i]
  OBVIOUS
<1>2. 1..n + 2 = 1..n \cup {n + 1, n + 2}
  BY <1>1
<1> HIDE DEF t
<1>3. Last(t) = b
  BY <1>1 DEF Last
<1>4. \A x : (\E i \in 1..Len(t) : t[i] = x) <=> (\E i \in 1..n : s[i] = x) \/ x = a \/ x = b
  BY <1>1, <1>2
<1> QED
  BY <1>3, <1>4 DEF t, Contains

LEMMA NextTold ==
  ASSUME Typed, Told, [Next]_vars
  PROVE  Told'
<1>0. Stage /\ rows \in Seq(RowType) /\ frames \in Seq(Events) /\ streamError \in BOOLEAN
  BY DEF Typed, ReplyType, Flags
<1> DEFINE Alone == <<"refusal">>
<1>1. \A x : Contains(Alone, x) => x = "refusal"
  BY DEF Contains
<1>2. CASE Resolve \/ Refuse
  <2>1. /\ pc \in {"resolving", "admission"} /\ streamError' = streamError
        /\ \/ pc' = "ended" /\ frames' = Alone
           \/ pc' \in {"proxied", "admission"} /\ frames' = frames /\ rows' = rows
    BY <1>2 DEF Resolve, Refuse
  <2>2. ~streamError /\ rows = <<>> /\ ~Contains(frames, "error") /\ ~Contains(frames, "done")
    BY <2>1 DEF Told
  <2>3. CASE pc' = "ended" /\ frames' = Alone
    <3>1. ~Contains(frames', "error") /\ ~Contains(frames', "done")
      BY <2>3, <1>1
    <3> QED
      BY <2>1, <2>2, <2>3, <3>1 DEF Told
  <2>4. CASE pc' \in {"proxied", "admission"} /\ frames' = frames /\ rows' = rows
    BY <2>1, <2>2, <2>4 DEF Told
  <2> QED
    BY <2>1, <2>3, <2>4
<1>3. CASE TurnFails
  <2>1. /\ pc = "turn" /\ pc' = "finishing" /\ streamError' /\ rows' = rows
        /\ frames' = Append(frames, "error")
    BY <1>3 DEF TurnFails
  <2>2. Contains(frames', "error") /\ ~Contains(frames', "done")
    BY <1>0, <2>1, Appended DEF Told, Events
  <2> QED
    BY <2>1, <2>2 DEF Told
<1>4. CASE NextTurn
  <2>1. /\ pc = "executing" /\ pc' \in {"turn", "finishing"} /\ streamError' = streamError
        /\ rows' = rows /\ frames' \in {frames, Append(frames, "limit")}
    BY <1>4 DEF NextTurn
  <2>2. \A x : Contains(Append(frames, "limit"), x) <=> Contains(frames, x) \/ x = "limit"
    <3>1. "limit" \in Events
      BY DEF Events
    <3> QED
      BY <1>0, <3>1, Appended
  <2>3. /\ Contains(frames', "error") <=> Contains(frames, "error")
        /\ Contains(frames', "done") <=> Contains(frames, "done")
    BY <2>1, <2>2
  <2> QED
    BY <2>1, <2>2, <2>3 DEF Told
<1>5. ASSUME NEW a \in 0..1, NEW h \in 0..MaxHits, NEW f \in BOOLEAN, TryProvider(a, h, f)
      PROVE  Told'
  <2>1. /\ pc = "searching" /\ pc' \in {"executing", "searching"} /\ streamError' = streamError
        /\ rows' = rows /\ frames' \in {frames, Append(frames, "sources")}
    BY <1>5 DEF TryProvider
  <2>2. \A x : Contains(Append(frames, "sources"), x) <=> Contains(frames, x) \/ x = "sources"
    <3>1. "sources" \in Events
      BY DEF Events
    <3> QED
      BY <1>0, <3>1, Appended
  <2>3. /\ Contains(frames', "error") <=> Contains(frames, "error")
        /\ Contains(frames', "done") <=> Contains(frames, "done")
    BY <2>1, <2>2
  <2> QED
    BY <2>1, <2>2, <2>3 DEF Told
<1>6. CASE Save
  <2> DEFINE n == IF tokens = 0 THEN PromptTokens ELSE tokens
             row == Row(Outcome, n)
  <2>1. /\ pc = "finishing" /\ pc' = "saved" /\ streamError' = streamError
        /\ rows' = Append(rows, row) /\ frames' = frames
    BY <1>6 DEF Save
  <2>2. (row.status = "ok") = ~streamError
    BY <1>0 DEF Row, Outcome
  <2> HIDE DEF row
  <2>3. rows = <<>>
    BY <2>1 DEF Told
  <2>4. Len(rows') = 1 /\ rows'[1] = row
    BY <2>1, <2>3
  <2> QED
    BY <2>1, <2>2, <2>4 DEF Told
<1>7. CASE Return
  <2>1. /\ pc = "saved" /\ pc' = "ended" /\ streamError' = streamError
        /\ rows' = rows /\ frames' = frames \o <<"meta", "done">>
    BY <1>7 DEF Return
  <2>2. /\ \A x : Contains(frames', x) <=> Contains(frames, x) \/ x = "meta" \/ x = "done"
        /\ Last(frames') = "done"
    <3>1. "meta" \in Events /\ "done" \in Events
      BY DEF Events
    <3>2. frames \in Seq(Events)
      BY <1>0
    <3>3. /\ \A x : Contains(frames \o <<"meta", "done">>, x) <=>
                     Contains(frames, x) \/ x = "meta" \/ x = "done"
          /\ Last(frames \o <<"meta", "done">>) = "done"
      BY ONLY <3>1, <3>2, Concatenated
    <3> QED
      BY <2>1, <3>3, Zenon
  <2> QED
    BY <2>1, <2>2 DEF Told
<1>8. CASE Route \/ Admit \/ Connect \/ Receive \/ TurnEnds \/ ClientChanges \/ UNCHANGED vars
           \/ DeclineSearch \/ OtherTool \/ StartSearch \/ SearchFails
  <2> DEFINE Early == Before \cup InRun
  <2>1. /\ UNCHANGED <<rows, frames, streamError>>
        /\ \/ pc \in Early /\ pc' \in Early \cup {"finishing"}
           \/ pc' = pc
    BY <1>8 DEF Before, InRun, Route, Admit, Connect, Receive, BeginCall, ContinueCall, ReportUsage,
       TurnEnds, ClientChanges, vars, DeclineSearch, OtherTool, StartSearch, SearchFails, reply
  <2> QED
    BY <2>1 DEF Told, Before, InRun
<1> QED
  BY <1>2, <1>3, <1>4, <1>5, <1>6, <1>7, <1>8 DEF Next, Attempt, Act

-----------------------------------------------------------------------------
(* The theorems *)

LEMMA NextIInv == IInv /\ [Next]_vars => IInv'
<1> SUFFICES ASSUME IInv, [Next]_vars PROVE IInv'
  OBVIOUS
<1>1. Typed /\ Gathered /\ Blank /\ Round /\ Searching /\ Told
  BY DEF IInv
<1>2. RoundType' /\ Round'
  BY <1>1, NextRound
<1>3. Typed'
  BY <1>1, <1>2, NextFlags, NextStage, NextTurnType, NextReplyType DEF Typed
<1> QED
  BY <1>1, <1>2, <1>3, NextGathered, NextSearching, NextTold DEF IInv

THEOREM Invariance == Spec => []IInv
  BY InitIInv, NextIInv, PTL DEF Spec

(* The types: no run has more turns than maxAgentIterations, and none adds *)
(* up more tokens than its turns reported.                                 *)
THEOREM AgentTypes == Spec => []TypeOK
<1>1. IInv => TypeOK
  <2> SUFFICES ASSUME IInv PROVE TypeOK
    OBVIOUS
  <2>1. Flags /\ Stage
    BY DEF IInv, Typed
  <2>2. /\ pc \in {"routing", "resolving", "proxied", "admission", "turn", "reading", "executing",
                   "searching", "finishing", "saved", "ended"}
        /\ iter \in 0..MaxIterations /\ tokens \in 0..MaxIterations
    BY <2>1 DEF Stage, Before, InRun
  <2> QED
    BY <2>1, <2>2, Zenon DEF TypeOK, Flags
<1> QED
  BY <1>1, Invariance, PTL

(* However the fragments of several calls interleave, the turn executes    *)
(* the calls the upstream meant, each with its own arguments: the          *)
(* accumulator of streamOpenAITurn keeps one buffer per call.              *)
THEOREM TheCallsMeantAreExecuted == Spec => []CallsAreReassembled
<1>1. IInv => CallsAreReassembled
  BY DEF IInv, Round, CallsAreReassembled
<1> QED
  BY <1>1, Invariance, PTL

(* A model that is asked again finds every call of its last message        *)
(* answered, once and in order: serveMuhiyaAgent answers each before it    *)
(* asks again.                                                             *)
THEOREM NoCallIsLeftOpen == Spec => []EveryCallIsAnswered
<1>1. IInv => EveryCallIsAnswered
  BY DEF IInv, Round
<1> QED
  BY <1>1, Invariance, PTL

(* RunWebSearch reports a failure only when every configured provider was  *)
(* asked.                                                                  *)
THEOREM SearchesTryEveryProvider == Spec => SearchExhaustsProviders
<1>1. IInv /\ [Next]_vars => [SearchFails => tried = Chain(request)]_vars
  BY DEF IInv, Searching, SearchFails
<1> QED
  BY <1>1, Invariance, PTL DEF Spec, SearchExhaustsProviders

(* The one row of a run says what its client was told: a success exactly   *)
(* if no error was shown, and saved before [DONE].                         *)
THEOREM TheRowSaysWhatTheClientSaw == Spec => []ReplyMatchesRow
<1>1. IInv => ReplyMatchesRow
  <2> SUFFICES ASSUME IInv PROVE ReplyMatchesRow
    OBVIOUS
  <2>1. Told
    BY DEF IInv
  <2> QED
    BY <2>1 DEF Told, ReplyMatchesRow
<1> QED
  BY <1>1, Invariance, PTL

-----------------------------------------------------------------------------
(* The run comes to an end.                                                *)

(* What a run has before it: turns, the rest of the turn, calls without a  *)
(* message, and what the handler does about the first of them.             *)
ToGo == [stage \in Before \cup InRun \cup {"finishing", "saved", "ended"} |->
  CASE stage = "routing" -> 8 [] stage = "resolving" -> 7 [] stage = "admission" -> 6
    [] stage = "turn" -> 5 [] stage = "reading" -> 4
    [] stage \in {"executing", "searching"} -> 3
    [] stage = "finishing" -> 2 [] stage = "saved" -> 1 [] OTHER -> 0]
ToTry == IF pc = "searching" THEN Cardinality(left) ELSE Cardinality(Providers) + 1
Rank == <<MaxIterations - iter, ToGo[pc], Len(todo), ToTry>>

NatLess == {ss \in Nat \X Nat : ss[1] < ss[2]}
Ranks == [1..4 -> Nat]
RunOrder == LexProductOrdering(NatLess, Nat, 4)

LEMMA RunOrderIsWellFounded == IsWellFoundedOn(RunOrder, Ranks)
<1>1. NatLess = OpToRel(<, Nat)
  BY DEF NatLess, OpToRel
<1>2. IsWellFoundedOn(NatLess, Nat)
  BY <1>1, NatLessThanWellFounded
<1> QED
  BY <1>2, WFLexProductOrdering DEF RunOrder, Ranks

LEMMA Lower ==
  ASSUME NEW r \in Ranks, NEW s \in Ranks, NEW j \in 1..4,
         \A i \in 1..(j - 1) : r[i] = s[i], r[j] < s[j]
  PROVE  <<r, s>> \in RunOrder
<1>1. r[j] \in Nat /\ s[j] \in Nat
  BY DEF Ranks
<1>2. <<r[j], s[j]>> \in NatLess
  BY <1>1 DEF NatLess
<1> QED
  BY <1>2 DEF RunOrder, LexProductOrdering, Ranks

LEMMA ProvidersAreFinite ==
  /\ IsFiniteSet(Providers) /\ Cardinality(Providers) \in Nat
  /\ \A S \in SUBSET Providers : /\ IsFiniteSet(S) /\ Cardinality(S) \in Nat
                                 /\ Cardinality(S) <= Cardinality(Providers)
  /\ \A S \in SUBSET Providers : \A p \in S : Cardinality(S \ {p}) = Cardinality(S) - 1
<1>1. IsFiniteSet(Providers)
  <2>1. IsFiniteSet({"tavily"}) /\ IsFiniteSet({"serper"}) /\ IsFiniteSet({"ddg"})
    BY FS_Singleton
  <2>2. Providers = ({"tavily"} \cup {"serper"}) \cup {"ddg"}
    BY DEF Providers
  <2> QED
    BY <2>1, <2>2, FS_Union
<1>2. ASSUME NEW S \in SUBSET Providers
      PROVE  IsFiniteSet(S) /\ Cardinality(S) \in Nat /\ Cardinality(S) <= Cardinality(Providers)
  BY <1>1, <1>2, FS_Subset, FS_CardinalityType
<1>3. ASSUME NEW S \in SUBSET Providers, NEW p \in S
      PROVE  Cardinality(S \ {p}) = Cardinality(S) - 1
  BY <1>2, FS_RemoveElement
<1> QED
  BY <1>1, <1>2, <1>3, FS_CardinalityType

LEMMA RankIsRanked == IInv => Rank \in Ranks
<1> SUFFICES ASSUME IInv PROVE Rank \in Ranks
  OBVIOUS
<1>1. Stage /\ RoundType
  BY DEF IInv, Typed
<1>2. MaxIterations - iter \in Nat /\ ToGo[pc] \in Nat /\ Len(todo) \in Nat
  BY <1>1, Constants DEF Stage, ToGo, RoundType
<1>3. ToTry \in Nat
  BY <1>1, ProvidersAreFinite DEF ToTry, RoundType
<1> QED
  BY <1>2, <1>3 DEF Rank, Ranks

(* The steps of the handler, by what they take away.                       *)
LEMMA HandlerAdvances ==
  ASSUME IInv, IInv', Rank \in Ranks, Rank' \in Ranks, Attempt \/ TurnEnds \/ Act
  PROVE  <<Rank', Rank>> \in RunOrder
<1> DEFINE r == Rank'
           s == Rank
<1>1. r \in Ranks /\ s \in Ranks
  OBVIOUS
<1>2. /\ s[1] = MaxIterations - iter /\ s[2] = ToGo[pc] /\ s[3] = Len(todo) /\ s[4] = ToTry
      /\ r[1] = MaxIterations - iter' /\ r[2] = ToGo[pc'] /\ r[3] = Len(todo') /\ r[4] = ToTry'
  BY DEF Rank
<1>3. /\ Stage /\ Stage' /\ RoundType /\ Round /\ request \in Requests
      /\ MaxIterations \in Nat /\ iter \in Nat /\ iter' \in Nat
      /\ left \subseteq Providers /\ todo \in Seq(Nat)
  <2>1. Flags /\ Stage /\ Stage' /\ RoundType /\ Round
    BY DEF IInv, Typed
  <2>2. MaxIterations \in Nat
    BY Constants
  <2>3. iter \in 0..MaxIterations /\ iter' \in 0..MaxIterations
    BY <2>1 DEF Stage
  <2> QED
    BY <2>1, <2>2, <2>3 DEF Flags, RoundType
<1> HIDE DEF r, s
<1>4. ASSUME iter' = iter + 1 PROVE <<r, s>> \in RunOrder
  <2>1. r[1] < s[1] /\ 1 \in 1..4 /\ \A i \in 1..(1 - 1) : r[i] = s[i]
    BY <1>2, <1>3, <1>4
  <2> QED
    BY <1>1, <2>1, Lower
<1>5. ASSUME iter' = iter, ToGo[pc'] < ToGo[pc] PROVE <<r, s>> \in RunOrder
  <2>1. r[2] < s[2] /\ 2 \in 1..4 /\ \A i \in 1..(2 - 1) : r[i] = s[i]
    BY <1>2, <1>5
  <2> QED
    BY <1>1, <2>1, Lower
<1>6. ASSUME iter' = iter, ToGo[pc'] = ToGo[pc], todo # <<>>, Answer PROVE <<r, s>> \in RunOrder
  <2>1. Len(todo') = Len(todo) - 1 /\ Len(todo) \in Nat
    BY <1>3, <1>6 DEF Answer
  <2>2. r[3] < s[3] /\ 3 \in 1..4 /\ \A i \in 1..(3 - 1) : r[i] = s[i]
    BY <1>2, <1>6, <2>1
  <2> QED
    BY <1>1, <2>2, Lower
<1>7. ASSUME iter' = iter, ToGo[pc'] = ToGo[pc], todo' = todo, ToTry' < ToTry
      PROVE  <<r, s>> \in RunOrder
  <2>1. r[4] < s[4] /\ 4 \in 1..4 /\ \A i \in 1..(4 - 1) : r[i] = s[i]
    BY <1>2, <1>7
  <2> QED
    BY <1>1, <2>1, Lower
<1>8. CASE Route \/ Resolve \/ Refuse \/ Admit \/ TurnFails \/ Connect \/ Save \/ Return
  <2>1. iter' = iter /\ ToGo[pc'] < ToGo[pc]
    BY <1>8, <1>3 DEF Route, Resolve, Refuse, Admit, TurnFails, Connect, Save, Return,
                      ToGo, Stage, Before, InRun
  <2> QED
    BY <1>5, <2>1 DEF r, s
<1>9. CASE TurnEnds
  <2>1. iter' = iter /\ pc = "reading" /\ pc' \in {"finishing", "executing"}
    BY <1>9 DEF TurnEnds
  <2>2. ToGo[pc'] < ToGo[pc]
    BY <2>1 DEF ToGo, Before, InRun
  <2> QED
    BY <1>5, <2>1, <2>2 DEF r, s
<1>10. CASE NextTurn
  BY <1>4, <1>10 DEF NextTurn, r, s
<1>11. ToGo["executing"] = 3 /\ ToGo["searching"] = 3
  BY DEF ToGo, InRun
<1>12. CASE DeclineSearch \/ OtherTool \/ SearchFails
  <2>1. /\ iter' = iter /\ todo # <<>> /\ Answer
        /\ pc \in {"executing", "searching"} /\ pc' \in {"executing", "searching"}
    BY <1>3, <1>12 DEF DeclineSearch, OtherTool, SearchFails, Round
  <2> QED
    BY <1>6, <1>11, <2>1 DEF r, s
<1>13. CASE StartSearch
  <2>1. iter' = iter /\ todo # <<>> /\ pc = "executing"
    BY <1>13 DEF StartSearch
  <2>2. CASE Answer /\ pc' = pc
    BY <1>6, <2>1, <2>2 DEF r, s
  <2>3. CASE pc' = "searching" /\ left' = Chain(request) /\ UNCHANGED round
    <3>1. Chain(request) \subseteq Providers
      BY <1>3, Constants
    <3>2. ToTry' < ToTry
      BY <2>1, <2>3, <3>1, ProvidersAreFinite DEF ToTry
    <3>3. todo' = todo
      BY <2>3 DEF round
    <3> QED
      BY <1>7, <1>11, <2>1, <2>3, <3>2, <3>3 DEF r, s
  <2> QED
    BY <1>13, <2>2, <2>3 DEF StartSearch
<1>14. ASSUME NEW a \in 0..1, NEW h \in 0..MaxHits, NEW f \in BOOLEAN, TryProvider(a, h, f)
       PROVE  <<r, s>> \in RunOrder
  <2>1. iter' = iter /\ pc = "searching" /\ left # {} /\ todo # <<>>
    BY <1>3, <1>14 DEF TryProvider, Round
  <2>2. CASE pc' = "executing" /\ Answer
    BY <1>6, <1>11, <2>1, <2>2 DEF r, s
  <2>3. CASE pc' = pc /\ UNCHANGED round /\ left' = left \ {First(left)}
    <3>1. First(left) \in left
      BY <1>3, <2>1, FirstIsLeft
    <3>2. Cardinality(left') = Cardinality(left) - 1 /\ Cardinality(left) \in Nat
      BY <1>3, <2>3, <3>1, ProvidersAreFinite
    <3>3. ToTry' < ToTry /\ todo' = todo
      BY <2>1, <2>3, <3>2 DEF ToTry, round
    <3> QED
      BY <1>7, <2>1, <2>3, <3>3 DEF r, s
  <2> QED
    BY <1>14, <2>2, <2>3 DEF TryProvider, GivesUp
<1> QED
  BY <1>8, <1>9, <1>10, <1>12, <1>13, <1>14 DEF Attempt, Act, r, s

(* What RunsEnd needs besides fairness: whatever the model asks for, every *)
(* step of the handler (agent.go 182-289) lowers a rank in a well-founded  *)
(* order, and what the upstream sends meanwhile does not raise it.         *)
THEOREM TheRunAdvances ==
  /\ IsWellFoundedOn(RunOrder, Ranks)
  /\ Spec => /\ [](Rank \in Ranks)
             /\ [][/\ Attempt \/ TurnEnds \/ Act => <<Rank', Rank>> \in RunOrder
                   /\ Receive \/ ClientChanges => Rank' = Rank]_vars
<1> DEFINE A == /\ Attempt \/ TurnEnds \/ Act => <<Rank', Rank>> \in RunOrder
                /\ Receive \/ ClientChanges => Rank' = Rank
<1>1. ASSUME Receive \/ ClientChanges PROVE Rank' = Rank
  <2>1. UNCHANGED <<iter, pc, todo, left>>
    BY <1>1 DEF Receive, BeginCall, ContinueCall, ReportUsage, ClientChanges, round, search
  <2> QED
    BY <2>1, Zenon DEF Rank, ToTry
<1>0. IInv' => (Rank \in Ranks)'
  BY RankIsRanked, PTL
<1>2. IInv /\ [Next]_vars => [A]_vars
  BY <1>0, <1>1, NextIInv, RankIsRanked, HandlerAdvances
<1>3. Spec => [](Rank \in Ranks) /\ [][A]_vars
  BY <1>2, RankIsRanked, Invariance, PTL DEF Spec
<1> QED
  BY <1>3, RunOrderIsWellFounded

(* RunsEnd itself, one rank at a time: under FairSpec a run whose client   *)
(* does not stop reading for good leaves every rank it stands at for a     *)
(* lower one, until it has ended or was left to the proxy.  Since no rank descends for ever, it ends; that last step is *)
(* an induction over temporal formulas, which the provers do not have.     *)
(* Nor can they expand ENABLED: that the guards leave the handler a step   *)
(* is assumed.  (A turn may always fail or end, and of the other places    *)
(* each has a step for either outcome of what it tests.)                   *)
Going == pc \notin {"ended", "proxied"}
HandlerHasAStep ==
  Reads =>
    /\ pc = "turn" => ENABLED <<Attempt /\ Reads>>_vars
    /\ pc = "reading" => ENABLED <<TurnEnds /\ Reads>>_vars
    /\ Going /\ pc \notin {"turn", "reading"} => ENABLED <<Act /\ Reads>>_vars

THEOREM EveryRankIsLeft ==
  ASSUME NEW r \in Ranks
  PROVE  FairSpec /\ []HandlerHasAStep /\ <>[]Reads
         => (Going /\ Rank = r ~> <<Rank, r>> \in RunOrder)
<1> DEFINE Stays == Going /\ Rank = r
           Turning == Stays /\ pc = "turn"
           Reading == Stays /\ pc = "reading"
           Acting == Stays /\ pc \notin {"turn", "reading"}
           Lowered == <<Rank, r>> \in RunOrder
<1>1. Stays => Turning \/ Reading \/ Acting
  OBVIOUS
<1>2. HandlerHasAStep /\ Reads => /\ Turning => ENABLED <<Attempt /\ Reads>>_vars
                                  /\ Reading => ENABLED <<TurnEnds /\ Reads>>_vars
                                  /\ Acting => ENABLED <<Act /\ Reads>>_vars
  BY DEF HandlerHasAStep
<1>3. ASSUME IInv, IInv', Stays, Attempt \/ TurnEnds \/ Act PROVE Lowered'
  <2>1. IInv' => (Rank \in Ranks)'
    BY RankIsRanked, PTL
  <2>2. <<Rank', Rank>> \in RunOrder
    BY <1>3, <2>1, RankIsRanked, HandlerAdvances
  <2>3. Rank = r
    BY <1>3
  <2>4. <<Rank', r>> \in RunOrder
    BY <2>2, <2>3, Zenon
  <2> QED
    BY <2>4
<1>4. ASSUME IInv, Stays, Receive \/ ClientChanges \/ UNCHANGED vars
      PROVE  Stays' /\ pc' = pc
  <2>1. UNCHANGED <<iter, pc, todo, left>>
    BY <1>4 DEF Receive, BeginCall, ContinueCall, ReportUsage, ClientChanges, round, search, vars
  <2> QED
    BY <1>4, <2>1 DEF Rank, ToTry, Going
<1>5. IInv /\ IInv' /\ Turning /\ [Next]_vars => Lowered' \/ (Turning' /\ ~<<Attempt /\ Reads>>_vars)
  BY <1>3, <1>4 DEF Next
<1>6. IInv /\ IInv' /\ Reading /\ [Next]_vars => Lowered' \/ (Reading' /\ ~<<TurnEnds /\ Reads>>_vars)
  BY <1>3, <1>4 DEF Next
<1>7. IInv /\ IInv' /\ Acting /\ [Next]_vars => Lowered' \/ (Acting' /\ ~<<Act /\ Reads>>_vars)
  BY <1>3, <1>4 DEF Next
<1> HIDE DEF Stays, Turning, Reading, Acting, Lowered
<1>8. FairSpec /\ []HandlerHasAStep /\ <>[]Reads => (Stays ~> Lowered)
  BY <1>1, <1>2, <1>5, <1>6, <1>7, Invariance, PTL DEF FairSpec, Spec
<1> QED
  BY <1>8 DEF Stays, Lowered

=============================================================================
