------------------------- MODULE StreamRelayProofs -------------------------
(***************************************************************************)
(* For every set of calls, whatever the upstream replies and wherever the  *)
(* reply breaks: a request leaves one row (RowInv).  For upstreams that    *)
(* keep to the order of their protocol (RepliesEndOnce): what the client   *)
(* hears of the end comes once, in order, and is what the row says, and    *)
(* the row charges a whole reply for what it used (RelayInv).  Every step  *)
(* of the handler and of its clocks brings the request nearer to its end.  *)
(***************************************************************************)
EXTENDS StreamRelay, FiniteSetTheorems, SequenceTheorems, WellFoundedInduction, TLAPS

(* Where the row is: before the read loop there is none; inside it, and    *)
(* until finish, there is one if and only if a forwarded reply has been    *)
(* seen to end; afterwards there is one.                                   *)
RowSoFar ==
  /\ pc \in {"pinned", "connecting", "collecting"} => rows = << >> /\ ~complete
  /\ pc \in {"reading", "writing", "closing"} =>
       Len(rows) = IF Forwards /\ complete THEN 1 ELSE 0
  /\ pc \in {"leaving", "done"} => Len(rows) = 1

RowInv == TypeOK /\ RowSoFar

Outcomes == {"ok", "failed", "timedOut", "cancelled", "refused"}
Rows == [outcome : Outcomes, charged : SUBSET (Counts \cup {"estimate"})]

LEMMA CallType ==
  ASSUME call \in Calls
  PROVE  /\ call.dialect \in Dialects /\ call.streams \in BOOLEAN
         /\ call.pinned \in BOOLEAN /\ call.reply \in Seq(Line)
  BY CallsAssumption

LEMMA LineType ==
  ASSUME TypeOK, NEW i \in 1 .. sent
  PROVE  call.reply[i] \in Line /\ call.reply[i].counts \subseteq Counts
<1>1. call.reply \in Seq(Line) /\ i \in 1 .. Len(call.reply)
  BY CallType DEF TypeOK, Whole
<1>2. call.reply[i] \in Line
  BY <1>1
<1> QED
  BY <1>2 DEF Line

LEMMA RowType ==
  ASSUME NEW whole \in BOOLEAN, NEW counts \in SUBSET Counts
  PROVE  Row(whole, counts) \in Rows
<1>1. Outcome(whole) \in Outcomes
  BY DEF Outcome, Outcomes
<1>2. Charged(whole, counts) \in SUBSET (Counts \cup {"estimate"})
  BY DEF Charged
<1> QED
  BY <1>1, <1>2 DEF Row, Rows

LEMMA FailureType ==
  ASSUME NEW o \in Outcomes
  PROVE  Failure(o) \in Rows
  BY DEF Failure, Rows

(* One more row on none is one row.                                        *)
LEMMA OneRow ==
  ASSUME NEW s \in Seq(Rows), NEW r \in Rows
  PROVE  /\ Append(s, r) \in Seq(Rows)
         /\ Len(Append(s, r)) = Len(s) + 1
         /\ s = << >> <=> Len(s) = 0
  OBVIOUS

LEMMA FirstRow ==
  ASSUME NEW s, s = << >>, NEW r \in Rows
  PROVE  Append(s, r) \in Seq(Rows) /\ Len(Append(s, r)) = 1
  OBVIOUS

LEMMA InitRowInv == Init => RowInv
<1> SUFFICES ASSUME Init PROVE RowInv
  OBVIOUS
<1>1. TypeOK
  <2>1. Whole \in Nat
    BY CallType DEF Init, Whole
  <2>2. rows \in Seq(Rows)
    BY DEF Init
  <2>3. sent \in 0 .. Whole /\ buffered \in 0 .. sent /\ read \in 0 .. buffered
    BY <2>1 DEF Init
  <2> QED
    BY <2>2, <2>3 DEF Init, TypeOK, Rows, Outcomes
<1>2. RowSoFar
  BY DEF Init, RowSoFar
<1> QED
  BY <1>1, <1>2 DEF RowInv

(* A step that leaves the row, the place and the request alone.            *)
LEMMA RowStays ==
  ASSUME RowSoFar, UNCHANGED <<call, pc, complete, rows>>
  PROVE  RowSoFar'
  BY DEF RowSoFar, Forwards

LEMMA ConnectKeepsRowInv ==
  ASSUME RowInv, Connect
  PROVE  RowInv'
<1> USE DEF network, answer
<1>0. rows \in Seq(Rows) /\ rows = << >> /\ ~complete
  BY DEF RowInv, RowSoFar, TypeOK, Rows, Outcomes, Connect, Accepted, Unreachable,
         Rebind, Refused, Asking
<1>1. CASE Accepted
  <2>1. TypeOK'
    BY <1>1 DEF Accepted, RowInv, TypeOK, Whole
  <2>2. RowSoFar'
    BY <1>0, <1>1 DEF Accepted, RowSoFar
  <2> QED
    BY <2>1, <2>2 DEF RowInv
<1>2. CASE Rebind
  <2>1. TypeOK'
    BY <1>2 DEF Rebind, RowInv, TypeOK, Whole
  <2>2. RowSoFar'
    BY <1>0, <1>2 DEF Rebind, RowSoFar
  <2> QED
    BY <2>1, <2>2 DEF RowInv
<1>3. CASE Unreachable \/ Refused
  <2>1. PICK o \in Outcomes : rows' = Append(rows, Failure(o))
    BY <1>3 DEF Unreachable, Refused, Outcomes
  <2>2. rows' \in Seq(Rows) /\ Len(rows') = 1
    BY <1>0, <2>1, FailureType, OneRow
  <2>3. TypeOK'
    BY <1>3, <2>2 DEF Unreachable, Refused, RowInv, TypeOK, Whole, Rows, Outcomes
  <2>4. RowSoFar'
    BY <1>3, <2>2 DEF Unreachable, Refused, RowSoFar
  <2> QED
    BY <2>3, <2>4 DEF RowInv
<1> QED
  BY <1>1, <1>2, <1>3 DEF Connect

LEMMA LoopKeepsRowInv ==
  ASSUME RowInv, Relay
  PROVE  RowInv'
<1> USE DEF network, answer
<1>0. /\ TypeOK /\ RowSoFar /\ rows \in Seq(Rows)
      /\ Whole \in Nat /\ sent \in Nat /\ buffered \in Nat /\ read \in Nat
  <2>1. Whole \in Nat
    BY CallType DEF RowInv, TypeOK, Whole
  <2> QED
    BY <2>1 DEF RowInv, TypeOK, Rows, Outcomes
<1>1. CASE Fill
  <2>1. TypeOK'
    BY <1>0, <1>1 DEF Fill, TypeOK, Whole
  <2>2. RowSoFar'
    BY <1>0, <1>1, RowStays DEF Fill
  <2> QED
    BY <2>1, <2>2 DEF RowInv
<1>2. CASE ReadFails
  <2>1. TypeOK'
    BY <1>0, <1>2 DEF ReadFails, TypeOK, Whole
  <2>2. RowSoFar'
    BY <1>0, <1>2 DEF ReadFails, RowSoFar, Forwards
  <2> QED
    BY <2>1, <2>2 DEF RowInv
<1>3. CASE Forward
  <2> DEFINE line == call.reply[read + 1]
             counts == usage \cup Tracked(call.dialect, line)
             ends == EndsReply(call.dialect, line)
  <2>1. read + 1 \in 1 .. sent
    BY <1>0, <1>3 DEF Forward, TypeOK
  <2>2. line.counts \subseteq Counts
    BY <1>0, <2>1, LineType
  <2>3. counts \in SUBSET Counts
    BY <1>0, <2>2 DEF Tracked, TypeOK
  <2>4. ends \in BOOLEAN /\ complete \in BOOLEAN
    BY <1>0 DEF EndsReply, TypeOK
  <2>5. Row(TRUE, counts) \in Rows
    BY <2>3, RowType
  <2>6. /\ usage' = counts /\ complete' = (complete \/ ends)
        /\ rows' = IF ends /\ ~Logged THEN Append(rows, Row(TRUE, counts)) ELSE rows
        /\ pc = "reading" /\ pc' = "writing" /\ Forwards /\ read' = read + 1
        /\ read < buffered
        /\ UNCHANGED <<call, conn, sent, buffered, watchdog, client>>
    BY <1>3 DEF Forward
  <2> HIDE DEF line, counts, ends
  <2>7. Len(rows) = IF complete THEN 1 ELSE 0
    BY <1>0, <2>6 DEF RowSoFar
  <2>8. rows' \in Seq(Rows) /\ Len(rows') = IF complete' THEN 1 ELSE 0
    <3>1. CASE ends /\ ~Logged
      <4>1. complete'
        BY <2>6, <3>1
      <4>2. rows' = Append(rows, Row(TRUE, counts)) /\ rows = << >>
        BY <2>6, <3>1 DEF Logged
      <4>3. rows' \in Seq(Rows) /\ Len(rows') = 1
        BY <2>5, <4>2, FirstRow
      <4> QED
        BY <4>1, <4>3
    <3>2. CASE Logged
      <4>1. rows' = rows /\ Len(rows) # 0
        BY <1>0, <2>6, <3>2 DEF Logged
      <4>2. complete /\ complete'
        BY <2>4, <2>6, <2>7, <4>1
      <4> QED
        BY <1>0, <2>7, <4>1, <4>2
    <3>3. CASE ~ends
      <4>1. rows' = rows /\ complete' = complete
        BY <2>4, <2>6, <3>3
      <4> QED
        BY <1>0, <2>7, <4>1
    <3> QED
      BY <3>1, <3>2, <3>3
  <2>9. complete' \in BOOLEAN
    BY <2>4, <2>6
  <2>10. read' \in 0 .. buffered
    BY <1>0, <2>6
  <2>11. usage' \subseteq Counts
    BY <2>3, <2>6
  <2>12. TypeOK'
    <3>1. UNCHANGED <<call, conn, sent, buffered, watchdog, client>> /\ pc' = "writing"
      BY <2>6
    <3> QED
      BY <1>0, <2>8, <2>9, <2>10, <2>11, <3>1 DEF TypeOK, Whole, Rows, Outcomes
  <2>13. RowSoFar'
    BY <2>6, <2>8 DEF RowSoFar, Forwards
  <2> QED
    BY <2>12, <2>13 DEF RowInv
<1>4. CASE Translate
  <2> DEFINE line == call.reply[read + 1]
             counts == usage \cup Tracked(call.dialect, line)
             ends == EndsReply(call.dialect, line)
  <2>1. read + 1 \in 1 .. sent
    BY <1>0, <1>4 DEF Translate, TypeOK
  <2>2. line \in Line /\ line.counts \subseteq Counts
    BY <1>0, <2>1, LineType
  <2>3. counts \in SUBSET Counts
    BY <1>0, <2>2 DEF Tracked, TypeOK
  <2>4. ends \in BOOLEAN
    BY <2>2 DEF EndsReply, Line
  <2>5. /\ usage' = counts /\ complete' = ends
        /\ pc = "reading" /\ pc' = "writing" /\ ~Forwards /\ read' = read + 1
        /\ read < buffered
        /\ UNCHANGED <<call, conn, sent, buffered, watchdog, client, rows>>
    BY <1>4 DEF Translate
  <2> HIDE DEF line, counts, ends
  <2>6. TypeOK'
    BY <1>0, <2>3, <2>4, <2>5 DEF TypeOK, Whole
  <2>7. RowSoFar'
    BY <1>0, <2>5 DEF RowSoFar, Forwards
  <2> QED
    BY <2>6, <2>7 DEF RowInv
<1>5. CASE NextLine
  <2>1. TypeOK'
    BY <1>0, <1>5 DEF NextLine, TypeOK, Whole
  <2>2. RowSoFar'
    BY <1>0, <1>5 DEF NextLine, RowSoFar, Forwards
  <2> QED
    BY <2>1, <2>2 DEF RowInv
<1>6. CASE Finish
  <2>1. Row(complete, usage) \in Rows
    BY <1>0, RowType DEF TypeOK
  <2>2. /\ rows' = IF Logged THEN rows ELSE Append(rows, Row(complete, usage))
        /\ pc = "closing" /\ pc' = "leaving"
        /\ UNCHANGED <<call, conn, sent, buffered, read, watchdog, client, complete, usage>>
    BY <1>6 DEF Finish
  <2>3. Len(rows) \in {0, 1}
    BY <1>0, <2>2 DEF RowSoFar
  <2>4. rows' \in Seq(Rows) /\ Len(rows') = 1
    <3>1. CASE Logged
      BY <1>0, <2>2, <2>3, <3>1 DEF Logged
    <3>2. CASE ~Logged
      BY <1>0, <2>1, <2>2, <3>2, OneRow DEF Logged
    <3> QED
      BY <3>1, <3>2
  <2>5. TypeOK'
    BY <1>0, <2>2, <2>4 DEF TypeOK, Whole, Rows, Outcomes
  <2>6. RowSoFar'
    BY <2>2, <2>4 DEF RowSoFar
  <2> QED
    BY <2>5, <2>6 DEF RowInv
<1> QED
  BY <1>1, <1>2, <1>3, <1>4, <1>5, <1>6 DEF Relay

LEMMA CollectKeepsRowInv ==
  ASSUME RowInv, Collect
  PROVE  RowInv'
<1> USE DEF network, answer
<1>0. /\ TypeOK /\ rows \in Seq(Rows) /\ Whole \in Nat /\ sent \in Nat
  <2>1. Whole \in Nat
    BY CallType DEF RowInv, TypeOK, Whole
  <2> QED
    BY <2>1 DEF RowInv, TypeOK, Rows, Outcomes
<1>1. rows = << >> /\ ~complete
  BY DEF RowInv, RowSoFar, Collect, ReadAll, ReadAllFails
<1>2. CASE ReadAll
  <2> DEFINE counts == UNION {call.reply[i].counts : i \in 1 .. sent}
  <2>1. counts \in SUBSET Counts
    BY <1>0, LineType
  <2>2. Row(TRUE, counts) \in Rows
    BY <2>1, RowType
  <2>3. /\ rows' = Append(rows, Row(TRUE, counts)) /\ usage' = counts
        /\ pc' = "leaving" /\ complete' = TRUE /\ read' = sent /\ buffered' = sent
        /\ UNCHANGED <<call, conn, sent, watchdog, client>>
    BY <1>2 DEF ReadAll
  <2> HIDE DEF counts
  <2>4. rows' \in Seq(Rows) /\ Len(rows') = 1
    BY <1>1, <2>2, <2>3, FirstRow
  <2>5. TypeOK'
    <3>1. sent \in 0 .. Whole /\ sent \in 0 .. sent
      BY <1>0 DEF TypeOK
    <3>2. usage' \subseteq Counts /\ complete' \in BOOLEAN
      BY <2>1, <2>3
    <3> QED
      BY <1>0, <2>3, <2>4, <3>1, <3>2 DEF TypeOK, Whole, Rows, Outcomes
  <2>6. RowSoFar'
    BY <2>3, <2>4 DEF RowSoFar
  <2> QED
    BY <2>5, <2>6 DEF RowInv
<1>3. CASE ReadAllFails
  <2>1. PICK r \in Rows : rows' = Append(rows, r)
    <3>1. /\ Failure("cancelled") \in Rows /\ Failure("failed") \in Rows
          /\ Row(TRUE, {}) \in Rows
      BY FailureType, RowType DEF Outcomes
    <3> QED
      BY <1>3, <3>1 DEF ReadAllFails
  <2>2. /\ pc' = "leaving"
        /\ UNCHANGED <<call, conn, sent, buffered, read, watchdog, client, complete, usage>>
    BY <1>3 DEF ReadAllFails
  <2>3. rows' \in Seq(Rows) /\ Len(rows') = 1
    BY <1>1, <2>1, FirstRow
  <2>4. TypeOK'
    BY <1>0, <2>2, <2>3 DEF TypeOK, Whole, Rows, Outcomes
  <2>5. RowSoFar'
    BY <2>2, <2>3 DEF RowSoFar
  <2> QED
    BY <2>4, <2>5 DEF RowInv
<1> QED
  BY <1>2, <1>3 DEF Collect

(* The writes, the return, the network and the clocks.                     *)
LEMMA OthersKeepRowInv ==
  ASSUME RowInv, Write \/ Return \/ Environment \/ Fire \/ TotalTimeout
  PROVE  RowInv'
<1> USE DEF network, answer
<1>0. /\ TypeOK /\ RowSoFar
      /\ Whole \in Nat /\ sent \in Nat /\ buffered \in Nat /\ read \in Nat
  <2>1. Whole \in Nat
    BY CallType DEF RowInv, TypeOK, Whole
  <2> QED
    BY <2>1 DEF RowInv, TypeOK
<1>1. CASE Return
  <2>1. TypeOK'
    BY <1>0, <1>1 DEF Return, TypeOK, Whole
  <2>2. RowSoFar'
    BY <1>0, <1>1 DEF Return, RowSoFar
  <2> QED
    BY <2>1, <2>2 DEF RowInv
<1>2. CASE Write \/ Environment \/ Fire \/ TotalTimeout
  <2>1. UNCHANGED <<call, pc, complete, rows, usage, buffered, read>>
    BY <1>2 DEF Write, Environment, Fire, TotalTimeout, Send, End, Cut, Stall, Resume, Leave
  <2>2. RowSoFar'
    BY <1>0, <2>1, RowStays
  <2>3. CASE Write
    BY <1>0, <2>2, <2>3 DEF Write, RowInv, TypeOK, Whole
  <2>4. CASE Environment
    BY <1>0, <2>2, <2>4 DEF Environment, Send, End, Cut, Stall, Resume, Leave, RowInv, TypeOK, Whole
  <2>5. CASE Fire \/ TotalTimeout
    BY <1>0, <2>2, <2>5 DEF Fire, TotalTimeout, RowInv, TypeOK, Whole
  <2> QED
    BY <1>2, <2>3, <2>4, <2>5
<1> QED
  BY <1>1, <1>2

LEMMA NextRowInv == RowInv /\ [Next]_vars => RowInv'
<1> SUFFICES ASSUME RowInv, [Next]_vars PROVE RowInv'
  OBVIOUS
<1>1. CASE Handler
  BY <1>1, ConnectKeepsRowInv, LoopKeepsRowInv, CollectKeepsRowInv, OthersKeepRowInv
     DEF Handler
<1>2. CASE Environment \/ Fire \/ TotalTimeout
  BY <1>2, OthersKeepRowInv
<1>3. CASE UNCHANGED vars
  BY <1>3 DEF vars, RowInv, RowSoFar, TypeOK, Whole, Forwards
<1> QED
  BY <1>1, <1>2, <1>3 DEF Next

(* The variables keep their types (StreamRelay!TypeOK).                    *)
THEOREM RelayTypeOK == Spec => []TypeOK
<1>1. RowInv => TypeOK
  BY DEF RowInv
<1> QED
  BY <1>1, InitRowInv, NextRowInv, PTL DEF Spec

(* A request leaves one row, however its reply goes (finish,               *)
(* logAndWriteError, logFailedUpstream): handler.go:1345-1354.             *)
THEOREM EveryRequestIsBilledOnce == Spec => []BilledOnce
<1>1. RowInv => BilledOnce
  <2> SUFFICES ASSUME RowInv PROVE BilledOnce
    OBVIOUS
  <2>1. pc = "done" => Len(rows) = 1
    BY DEF RowInv, RowSoFar
  <2>2. Len(rows) <= 1
    <3>1. CASE pc \in {"pinned", "connecting", "collecting"}
      <4>1. rows = << >>
        BY <3>1 DEF RowInv, RowSoFar
      <4> QED
        BY <4>1
    <3>2. CASE pc \in {"reading", "writing", "closing"}
      <4>1. CASE Forwards /\ complete
        <5>1. Len(rows) = 1
          BY <3>2, <4>1 DEF RowInv, RowSoFar
        <5> QED
          BY <5>1
      <4>2. CASE ~(Forwards /\ complete)
        <5>1. Len(rows) = 0
          BY <3>2, <4>2 DEF RowInv, RowSoFar
        <5> QED
          BY <5>1
      <4> QED
        BY <4>1, <4>2
    <3>3. CASE pc \in {"leaving", "done"}
      <4>1. Len(rows) = 1
        BY <3>3 DEF RowInv, RowSoFar
      <4> QED
        BY <4>1
    <3> QED
      BY <3>1, <3>2, <3>3 DEF RowInv, TypeOK
  <2> QED
    BY <2>1, <2>2 DEF BilledOnce, Done
<1> QED
  BY <1>1, InitRowInv, NextRowInv, PTL DEF Spec

-----------------------------------------------------------------------------
(* What the client hears.  Out is what it has been sent together with what *)
(* is about to be written: Write moves a frame from one to the other.      *)

Words == {"role", "text", "finish", "totals", "terminal", "meta", "error",
          "refusal", "reply"}
Good == {"terminal", "reply"}
Bad == {"error", "refusal"}
Out == frames \o todo

At(s, W) == {i \in DOMAIN s : s[i] \in W}
Tally(s, W) == Cardinality(At(s, W))
Is(e, W) == IF e \in W THEN 1 ELSE 0

(* One more frame, one more in the tally of its words.                     *)
LEMMA TallyAppend ==
  ASSUME NEW s \in Seq(Words), NEW e \in Words, NEW W
  PROVE  /\ Append(s, e) \in Seq(Words)
         /\ At(Append(s, e), W) = At(s, W) \cup (IF e \in W THEN {Len(s) + 1} ELSE {})
         /\ Tally(s, W) \in Nat
         /\ Tally(Append(s, e), W) = Tally(s, W) + Is(e, W)
<1>1. /\ Append(s, e) \in Seq(Words) /\ DOMAIN s = 1 .. Len(s) /\ Len(s) \in Nat
      /\ DOMAIN Append(s, e) = 1 .. Len(s) + 1
      /\ \A i \in 1 .. Len(s) : Append(s, e)[i] = s[i]
      /\ Append(s, e)[Len(s) + 1] = e
  BY AppendProperties, LenProperties
<1>2. At(Append(s, e), W) = At(s, W) \cup (IF e \in W THEN {Len(s) + 1} ELSE {})
  BY <1>1 DEF At
<1>3. IsFiniteSet(At(s, W)) /\ Len(s) + 1 \notin At(s, W)
  <2>1. At(s, W) \in SUBSET (1 .. Len(s)) /\ IsFiniteSet(1 .. Len(s))
    BY <1>1, FS_Interval DEF At
  <2> QED
    BY <1>1, <2>1, FS_Subset
<1>4. Tally(s, W) \in Nat
  BY <1>3, FS_CardinalityType DEF Tally
<1>5. Tally(Append(s, e), W) = Tally(s, W) + Is(e, W)
  <2>1. CASE e \in W
    BY <1>2, <1>3, <2>1, FS_AddElement DEF Tally, Is
  <2>2. CASE e \notin W
    <3>1. At(Append(s, e), W) = At(s, W)
      BY <1>2, <2>2
    <3> QED
      BY <1>4, <2>2, <3>1 DEF Tally, Is
  <2> QED
    BY <2>1, <2>2
<1> QED
  BY <1>1, <1>2, <1>4, <1>5

(* What has been said of the end, and of the row; a terminal frame only as *)
(* the last.                                                               *)
Told(s, good, bad, meta) ==
  /\ Tally(s, Good) = good
  /\ Tally(s, Bad) = bad
  /\ Tally(s, {"meta"}) = meta
  /\ At(s, {"terminal"}) \subseteq {Len(s)}

LEMMA TallyNothing ==
  ASSUME NEW W
  PROVE  At(<< >>, W) = {} /\ Tally(<< >>, W) = 0
  BY FS_EmptySet DEF At, Tally

LEMMA ToldNothing == Told(<< >>, 0, 0, 0)
  BY TallyNothing DEF Told

(* Before the end, each frame is counted.                                  *)
LEMMA ToldMore ==
  ASSUME NEW s \in Seq(Words), NEW e \in Words, NEW bad, NEW meta,
         Told(s, 0, bad, meta)
  PROVE  Told(Append(s, e), Is(e, Good), bad + Is(e, Bad), meta + Is(e, {"meta"}))
<1>1. At(s, Good) = {} /\ Len(Append(s, e)) = Len(s) + 1 /\ Len(s) \in Nat
  <2>0. DOMAIN s = 1 .. Len(s) /\ Len(s) \in Nat
    BY LenProperties
  <2>1. At(s, Good) \in SUBSET (1 .. Len(s)) /\ IsFiniteSet(1 .. Len(s))
    BY <2>0, FS_Interval DEF At
  <2>2. IsFiniteSet(At(s, Good))
    BY <2>1, FS_Subset
  <2>3. Cardinality(At(s, Good)) = 0
    BY DEF Told, Tally
  <2> QED
    BY <2>2, <2>3, FS_EmptySet, AppendProperties, LenProperties
<1>2. At(s, {"terminal"}) = {}
  BY <1>1 DEF At, Good
<1>3. At(Append(s, e), {"terminal"}) \subseteq {Len(s) + 1}
  BY <1>2, TallyAppend
<1>4. /\ Tally(Append(s, e), Good) = Tally(s, Good) + Is(e, Good)
      /\ Tally(Append(s, e), Bad) = Tally(s, Bad) + Is(e, Bad)
      /\ Tally(Append(s, e), {"meta"}) = Tally(s, {"meta"}) + Is(e, {"meta"})
  BY TallyAppend
<1>5. Tally(s, Good) = 0 /\ Tally(s, Bad) = bad /\ Tally(s, {"meta"}) = meta
  BY DEF Told
<1>6. Is(e, Good) \in Nat
  BY DEF Is
<1> QED
  BY <1>1, <1>3, <1>4, <1>5, <1>6 DEF Told, Is

-----------------------------------------------------------------------------
(* The invariant behind what the client hears and what the row charges.    *)

Early == {"pinned", "connecting", "collecting"}
Loop == {"reading", "writing", "closing"}
Late == {"leaving", "done"}

(* What each place of the handler implies of the rest.                     *)
Places ==
  /\ frames \in Seq(Words) /\ todo \in Seq(Words)
  /\ pc = "collecting" => ~call.streams
  /\ pc \in Loop => call.streams
  /\ pc \in {"pinned", "connecting"} => conn = "none" /\ sent = 0
  /\ pc \in Early => read = 0 /\ usage = {} /\ frames = << >>
  /\ pc \in Early \cup {"reading", "done"} => todo = << >>
  /\ conn = "ended" => sent = Whole

TextUpTo(n) == {i \in 1 .. n : call.reply[i].says = "text"}
Seen(n) == UNION {call.reply[i].counts : i \in 1 .. n}

(* A reply that has ended for the handler has no text left, and no usage   *)
(* but on the route that stops before the terminal line.                   *)
Progress ==
  /\ complete => \A i \in TextLines : i <= read
  /\ complete /\ call.dialect # "toAnthropic" => read = Whole
  /\ call.dialect # "anthropic" \/ ~call.streams => usage = Seen(read)

(* A row that is not ok costs nothing; an ok one charges what was tracked  *)
(* of a whole reply, or nothing for a reply that broke off unnoticed.      *)
RowMeans ==
  rows # << >> =>
    /\ rows[1].outcome # "ok" => rows[1].charged = {}
    /\ rows[1].outcome = "ok" =>
         \/ complete /\ rows[1].charged = Charged(TRUE, usage)
         \/ ~call.streams /\ call.dialect # "openai" /\ rows[1].charged = {}
    /\ pc \in Loop => rows[1].outcome = "ok"

EndSeen == Forwards /\ complete
EndsTold == IF EndSeen THEN 1 ELSE 0
BreaksTold == IF pc = "closing" /\ ~complete THEN 1 ELSE 0
RowsTold == IF EndSeen /\ call.showsMeta THEN 1 ELSE 0

(* To a client that has not left.                                          *)
Heard ==
  /\ pc \in Early \cup Loop =>
       Told(Out, EndsTold, BreaksTold, RowsTold)
  /\ pc \in Late =>
       \E meta \in {0, 1} :
         /\ IF Succeeded THEN Told(Out, 1, 0, meta) ELSE Told(Out, 0, 1, meta)
         /\ At(Out, {"terminal"}) # {} /\ call.showsMeta => meta = 1
  /\ pc \in Late /\ ~call.streams /\ Succeeded => At(Out, {"reply"}) # {}
  /\ call.streams => Tally(Out, {"text"}) = Cardinality(TextUpTo(read))

RelayInv ==
  /\ RowInv /\ Places /\ Progress /\ RowMeans
  /\ client # "left" => Heard
  /\ TerminalComesLast

Rest ==
  /\ Places /\ Progress /\ RowMeans
  /\ client # "left" => Heard
  /\ TerminalComesLast

(* Nothing to write: what is out has been sent.                            *)
LEMMA AllSent ==
  ASSUME Places, todo = << >>
  PROVE  Out = frames
  BY ConcatEmptySeq DEF Places, Out

(* A written frame stays out.                                              *)
LEMMA WriteMoves ==
  ASSUME NEW s \in Seq(Words), NEW t \in Seq(Words), t # << >>
  PROVE  /\ Append(s, Head(t)) \in Seq(Words) /\ Tail(t) \in Seq(Words)
         /\ Append(s, Head(t)) \o Tail(t) = s \o t
<1>1. Head(t) \in Words /\ Tail(t) \in Seq(Words) /\ <<Head(t)>> \in Seq(Words)
  BY HeadTailProperties
<1>2. Append(s, Head(t)) = s \o <<Head(t)>>
  BY <1>1, AppendIsConcat
<1>3. (s \o <<Head(t)>>) \o Tail(t) = s \o (<<Head(t)>> \o Tail(t))
  BY <1>1, ConcatAssociative
<1>4. <<Head(t)>> \o Tail(t) = t
  OBVIOUS
<1> QED
  BY <1>1, <1>2, <1>3, <1>4, AppendProperties

(* A frame, alone or after that of the row.                                *)
LEMMA Speak ==
  ASSUME NEW s \in Seq(Words), NEW w \in Words, NEW bad \in Nat, Told(s, 0, bad, 0)
  PROVE  /\ s \o <<w>> \in Seq(Words)
         /\ w # "meta" => Told(s \o <<w>>, Is(w, Good), bad + Is(w, Bad), 0)
         /\ Tally(s \o <<w>>, {"text"}) = Tally(s, {"text"}) + Is(w, {"text"})
         /\ Tally(s, {"text"}) \in Nat
<1>1. s \o <<w>> = Append(s, w)
  BY AppendIsConcat
<1>2. Told(Append(s, w), Is(w, Good), bad + Is(w, Bad), 0 + Is(w, {"meta"}))
  BY ToldMore
<1>3. /\ Append(s, w) \in Seq(Words) /\ Tally(s, {"text"}) \in Nat
      /\ Tally(Append(s, w), {"text"}) = Tally(s, {"text"}) + Is(w, {"text"})
  BY TallyAppend
<1>4. ASSUME w # "meta" PROVE Told(s \o <<w>>, Is(w, Good), bad + Is(w, Bad), 0)
  <2>1. 0 + Is(w, {"meta"}) = 0
    BY <1>4 DEF Is
  <2> QED
    BY <1>1, <1>2, <2>1
<1> QED
  BY <1>1, <1>3, <1>4

LEMMA SpeakOfTheRow ==
  ASSUME NEW s \in Seq(Words), NEW bad \in Nat, Told(s, 0, bad, 0)
  PROVE  /\ s \o <<"meta">> \in Seq(Words)
         /\ Told(s \o <<"meta">>, 0, bad, 1)
         /\ Tally(s \o <<"meta">>, {"text"}) = Tally(s, {"text"})
         /\ s \o (<<"meta">> \o <<"terminal">>) \in Seq(Words)
         /\ Told(s \o (<<"meta">> \o <<"terminal">>), 1, bad, 1)
         /\ Tally(s \o (<<"meta">> \o <<"terminal">>), {"text"}) = Tally(s, {"text"})
<1> DEFINE m == s \o <<"meta">>
<1>1. /\ "meta" \in Words /\ "terminal" \in Words
      /\ <<"meta">> \in Seq(Words) /\ <<"terminal">> \in Seq(Words)
  BY DEF Words
<1>2. m = Append(s, "meta") /\ s \o (<<"meta">> \o <<"terminal">>) = m \o <<"terminal">>
  BY <1>1, AppendIsConcat, ConcatAssociative
<1>3. /\ Is("meta", Good) = 0 /\ bad + Is("meta", Bad) = bad
      /\ 0 + Is("meta", {"meta"}) = 1 /\ Is("meta", {"text"}) = 0
      /\ Is("terminal", Good) = 1 /\ bad + Is("terminal", Bad) = bad
      /\ 1 + Is("terminal", {"meta"}) = 1 /\ Is("terminal", {"text"}) = 0
  BY DEF Is, Good, Bad
<1>4. Told(Append(s, "meta"), Is("meta", Good), bad + Is("meta", Bad),
           0 + Is("meta", {"meta"}))
  BY <1>1, ToldMore
<1>5. /\ Append(s, "meta") \in Seq(Words) /\ Tally(s, {"text"}) \in Nat
      /\ Tally(Append(s, "meta"), {"text"}) = Tally(s, {"text"}) + Is("meta", {"text"})
  BY <1>1, TallyAppend
<1> HIDE DEF m
<1>6. m \in Seq(Words) /\ Told(m, 0, bad, 1) /\ Tally(m, {"text"}) = Tally(s, {"text"})
  BY <1>2, <1>3, <1>4, <1>5
<1>7. m \o <<"terminal">> = Append(m, "terminal")
  BY <1>1, <1>6, AppendIsConcat
<1>8. Told(Append(m, "terminal"), Is("terminal", Good), bad + Is("terminal", Bad),
           1 + Is("terminal", {"meta"}))
  BY <1>1, <1>6, ToldMore
<1>9. /\ Append(m, "terminal") \in Seq(Words)
      /\ Tally(Append(m, "terminal"), {"text"})
           = Tally(m, {"text"}) + Is("terminal", {"text"})
  BY <1>1, <1>6, TallyAppend
<1>10. Told(m \o <<"terminal">>, 1, bad, 1)
  BY <1>3, <1>7, <1>8
<1>11. Tally(m \o <<"terminal">>, {"text"}) = Tally(s, {"text"})
  <2>1. Tally(Append(m, "terminal"), {"text"}) = Tally(s, {"text"}) + 0
    BY <1>3, <1>6, <1>9
  <2>2. Tally(s, {"text"}) + 0 = Tally(s, {"text"})
    BY <1>5
  <2> QED
    BY <1>7, <2>1, <2>2
<1>12. m \o <<"terminal">> \in Seq(Words)
  BY <1>7, <1>9
<1> QED
  BY <1>2, <1>6, <1>10, <1>11, <1>12 DEF m

-----------------------------------------------------------------------------
(* Steps that say nothing.                                                 *)

LEMMA HeardStays ==
  ASSUME Heard, Out' = Out, UNCHANGED <<call, complete, rows, read>>,
         pc' \in Early \cup Loop <=> pc \in Early \cup Loop, pc' \in Late <=> pc \in Late,
         BreaksTold' = BreaksTold
  PROVE  Heard'
<1>1. EndSeen' = EndSeen /\ EndsTold' = EndsTold /\ RowsTold' = RowsTold
  BY DEF EndSeen, EndsTold, RowsTold, Forwards
<1>2. Succeeded' <=> Succeeded
  BY DEF Succeeded
<1>3. TextUpTo(read)' = TextUpTo(read)
  BY DEF TextUpTo
<1> QED
  BY <1>1, <1>2, <1>3 DEF Heard

(* What is heard is in order.                                              *)
LEMMA HeardInOrder ==
  ASSUME RowInv, Places, Heard
  PROVE  TerminalComesLast
<1> SUFFICES ASSUME NEW i \in Saying("terminal")
             PROVE  i = Len(frames) /\ (call.showsMeta => Cardinality(Saying("meta")) = 1)
  BY DEF TerminalComesLast
<1>1. /\ frames \in Seq(Words) /\ todo \in Seq(Words) /\ Len(frames) \in Nat
      /\ Len(todo) \in Nat /\ i \in 1 .. Len(frames) /\ frames[i] = "terminal"
  BY LenProperties DEF Places, Saying
<1>2. /\ Len(Out) = Len(frames) + Len(todo) /\ DOMAIN Out = 1 .. Len(Out)
      /\ Out[i] = "terminal"
  BY <1>1, ConcatProperties, LenProperties DEF Out
<1>3. i \in At(Out, {"terminal"})
  BY <1>1, <1>2 DEF At
<1>4. At(Out, {"terminal"}) \subseteq {Len(Out)}
  BY DEF Heard, Told, RowInv, TypeOK, Early, Loop, Late
<1>5. i = Len(frames) /\ Len(todo) = 0
  BY <1>1, <1>2, <1>3, <1>4
<1>6. Out = frames
  BY <1>1, <1>5, EmptySeq, ConcatEmptySeq DEF Out
<1>7. ASSUME call.showsMeta PROVE Tally(Out, {"meta"}) = 1
  <2>1. CASE pc \in Late
    BY <1>3, <1>7, <2>1 DEF Heard, Told
  <2>2. CASE pc \in Early \cup Loop
    <3>1. Told(Out, EndsTold, BreaksTold, RowsTold)
      BY <2>2 DEF Heard
    <3>2. EndSeen
      <4>1. SUFFICES ASSUME ~EndSeen PROVE FALSE
        OBVIOUS
      <4>2. Cardinality(At(Out, Good)) = 0
        BY <3>1, <4>1 DEF Told, Tally, EndsTold
      <4>3. IsFiniteSet(At(Out, Good))
        <5>1. At(Out, Good) \in SUBSET (1 .. Len(frames)) /\ IsFiniteSet(1 .. Len(frames))
          BY <1>1, <1>2, <1>6, FS_Interval DEF At
        <5> QED
          BY <5>1, FS_Subset
      <4>4. i \in At(Out, Good)
        BY <1>3 DEF At, Good
      <4> QED
        BY <4>2, <4>3, <4>4, FS_EmptySet
    <3> QED
      BY <1>7, <3>1, <3>2 DEF Told, RowsTold
  <2> QED
    BY <2>1, <2>2 DEF RowInv, TypeOK, Early, Loop, Late
<1>8. At(frames, {"meta"}) = Saying("meta")
  BY DEF At, Saying
<1> QED
  BY <1>5, <1>6, <1>7, <1>8 DEF Tally

(* It is enough to follow a client that does not leave.                    *)
LEMMA OrderFollows ==
  ASSUME RelayInv, RowInv', Places', client' # "left" => Heard',
         client' = "left" => UNCHANGED <<call, frames>>
  PROVE  TerminalComesLast'
<1>1. CASE client' = "left"
  BY <1>1 DEF RelayInv, TerminalComesLast, Saying
<1>2. CASE client' # "left"
  BY <1>2, HeardInOrder, PTL
<1> QED
  BY <1>1, <1>2

(* The reply and its numbers.                                              *)
LEMMA Numbers ==
  ASSUME TypeOK
  PROVE  /\ Whole \in Nat /\ sent \in 0 .. Whole /\ buffered \in 0 .. sent
         /\ read \in 0 .. buffered /\ complete \in BOOLEAN /\ call.dialect \in Dialects
         /\ call.showsMeta \in BOOLEAN /\ call.streams \in BOOLEAN
  BY CallsAssumption DEF TypeOK, Whole

(* Nothing but the network, the reader and the clocks.                     *)
LEMMA QuietSteps ==
  ASSUME RelayInv, RowInv', Environment \/ Fire \/ TotalTimeout \/ Fill
  PROVE  RelayInv'
<1>1. /\ UNCHANGED <<call, read, pc, answer, todo, frames>>
      /\ client = "left" => client' = "left"
      /\ conn = "none" => conn' = "none" /\ sent' = sent
      /\ conn' = "ended" /\ conn # "ended" => sent = Whole
      /\ conn = "ended" => sent' = sent
      /\ conn # "ended" /\ conn' = "ended" => sent' = sent
  BY DEF Environment, Fire, TotalTimeout, Fill, Send, End, Cut, Stall, Resume, Leave, network,
         answer, RelayInv, RowInv, TypeOK
<1>2. Places'
  BY <1>1 DEF RelayInv, Places, Whole, answer
<1>3. Progress' /\ RowMeans'
  BY <1>1 DEF RelayInv, Progress, RowMeans, TextLines, Whole, Seen, answer, Charged
<1>4. client' # "left" => Heard'
  <2>1. Out' = Out /\ BreaksTold' = BreaksTold
    BY <1>1 DEF Out, BreaksTold, answer
  <2> QED
    BY <1>1, <2>1, HeardStays DEF RelayInv, answer
<1>5. TerminalComesLast'
  BY <1>1, <1>2, <1>4, OrderFollows
<1> QED
  BY <1>2, <1>3, <1>4, <1>5 DEF RelayInv

LEMMA WriteSaysWhatIsOut ==
  ASSUME RelayInv, RowInv', Write
  PROVE  RelayInv'
<1>1. /\ UNCHANGED <<call, conn, sent, buffered, read, watchdog, client, pc, complete, usage, rows>>
      /\ todo # << >> /\ todo' = Tail(todo) /\ client # "stalled"
      /\ frames' = IF client = "there" THEN Append(frames, Head(todo)) ELSE frames
  BY DEF Write, network, answer
<1>2. /\ Append(frames, Head(todo)) \in Seq(Words) /\ Tail(todo) \in Seq(Words)
      /\ Append(frames, Head(todo)) \o Tail(todo) = frames \o todo
  BY <1>1, WriteMoves DEF RelayInv, Places
<1>3. pc \notin Early \cup {"reading", "done"}
  BY <1>1 DEF RelayInv, Places
<1>4. Places'
  BY <1>1, <1>2, <1>3 DEF RelayInv, Places, Whole
<1>5. Progress' /\ RowMeans'
  BY <1>1 DEF RelayInv, Progress, RowMeans, TextLines, Whole, Seen, Charged
<1>6. client' # "left" => Heard'
  <2> SUFFICES ASSUME client' # "left" PROVE Heard'
    OBVIOUS
  <2>1. Out' = Out
    BY <1>1, <1>2 DEF Out, RelayInv, RowInv, TypeOK
  <2>2. BreaksTold' = BreaksTold
    BY <1>1 DEF BreaksTold
  <2> QED
    BY <1>1, <2>1, <2>2, HeardStays DEF RelayInv
<1>7. TerminalComesLast'
  BY <1>1, <1>4, <1>6, OrderFollows
<1> QED
  BY <1>4, <1>5, <1>6, <1>7 DEF RelayInv

(* The handler goes to its next line, out of the loop, or home.            *)
LEMMA TurnsSayNothing ==
  ASSUME RelayInv, RowInv', NextLine \/ Return \/ Accepted \/ Rebind \/ (ReadFails /\ complete)
  PROVE  RelayInv'
<1>0. /\ pc \in Early \cup Loop \cup Late /\ conn \in {"none", "open", "ended", "cut"}
      /\ complete \in BOOLEAN
  BY DEF RelayInv, RowInv, TypeOK, Early, Loop, Late
<1>1. /\ UNCHANGED <<call, sent, buffered, read, client, complete, usage, rows, frames>>
      /\ todo' = todo
  <2>1. ReadFails => pc = "reading"
    BY DEF ReadFails
  <2> QED
    BY <2>1 DEF NextLine, Return, Accepted, Rebind, ReadFails, network, answer, RelayInv, Places
<1>2. /\ conn' = conn \/ conn' = "open"
      /\ pc' \in {"pinned", "connecting"} => pc \in {"pinned", "connecting"} /\ conn' = conn
      /\ pc' \in Early <=> pc \in Early /\ pc' \notin Loop
      /\ pc' \in Late <=> pc \in Late
      /\ pc' = "collecting" => pc \in Early /\ ~call.streams
      /\ pc' \in Loop => pc \in Loop \/ call.streams
      /\ pc' \in Early \cup {"reading", "done"} => todo = << >>
      /\ pc' \in Loop /\ pc \notin Loop => pc \in Early
      /\ pc' = "closing" => complete
      /\ pc # "closing"
  BY <1>0 DEF NextLine, Return, Accepted, Rebind, ReadFails, network, answer, RelayInv, Places, Early,
     Loop, Late, Asking
<1>3. Places'
  BY <1>0, <1>1, <1>2 DEF RelayInv, Places, Whole, Early
<1>4. Progress'
  BY <1>1 DEF RelayInv, Progress, TextLines, Whole, Seen
<1>5. RowMeans'
  <2>1. rows # << >> => pc \notin Early
    BY DEF RelayInv, RowInv, RowSoFar, Early
  <2> QED
    BY <1>0, <1>1, <1>2, <2>1 DEF RelayInv, RowMeans, Charged
<1>6. client' # "left" => Heard'
  <2>1. Out' = Out /\ BreaksTold' = BreaksTold
    BY <1>1, <1>2 DEF Out, BreaksTold
  <2>2. pc' \in Early \cup Loop <=> pc \in Early \cup Loop
    <3>1. pc' \in Early \cup Loop \cup Late
      BY DEF RowInv, TypeOK, Early, Loop, Late
    <3> QED
      BY <1>0, <1>2, <3>1 DEF Early, Loop, Late
  <2> QED
    BY <1>1, <1>2, <2>1, <2>2, HeardStays DEF RelayInv
<1>7. TerminalComesLast'
  BY <1>1, <1>3, <1>6, OrderFollows
<1> QED
  BY <1>3, <1>4, <1>5, <1>6, <1>7 DEF RelayInv

-----------------------------------------------------------------------------
(* Steps that say something.                                               *)

(* What one line brings.                                                   *)
LEMMA LineSays ==
  ASSUME NEW line \in Line, call.dialect \in Dialects
  PROVE  /\ Frames(line) = << >> \/ \E w \in Words : Frames(line) = <<w>>
         /\ \A w : Frames(line) = <<w>> =>
              /\ w \notin Bad /\ w # "meta"
              /\ w \in Good <=> Forwards /\ line.says = "terminal"
              /\ w = "text" <=> line.says = "text"
         /\ Frames(line) = << >> => ~Forwards /\ line.says # "text"
  BY DEF Frames, Translated, Forwards, Line, Dialects, Words, Bad, Good

(* The texts and the counts of the lines, one line further.                *)
LEMMA OneLineFurther ==
  ASSUME TypeOK, read < Whole
  PROVE  /\ Cardinality(TextUpTo(read)) \in Nat
         /\ Cardinality(TextUpTo(read + 1)) =
              Cardinality(TextUpTo(read)) + IF call.reply[read + 1].says = "text" THEN 1 ELSE 0
         /\ Seen(read + 1) = Seen(read) \cup call.reply[read + 1].counts
<1>1. read \in Nat /\ 1 .. read + 1 = 1 .. read \cup {read + 1} /\ read + 1 \notin 1 .. read
  BY Numbers
<1>2. Seen(read + 1) = Seen(read) \cup call.reply[read + 1].counts
  BY <1>1 DEF Seen
<1>3. TextUpTo(read + 1) =
        TextUpTo(read) \cup (IF call.reply[read + 1].says = "text" THEN {read + 1} ELSE {})
  BY <1>1 DEF TextUpTo
<1>4. IsFiniteSet(TextUpTo(read)) /\ read + 1 \notin TextUpTo(read)
  <2>1. TextUpTo(read) \in SUBSET (1 .. read) /\ IsFiniteSet(1 .. read)
    BY <1>1, FS_Interval DEF TextUpTo
  <2> QED
    BY <1>1, <2>1, FS_Subset
<1>5. Cardinality(TextUpTo(read)) \in Nat
  BY <1>4, FS_CardinalityType
<1>6. CASE call.reply[read + 1].says = "text"
  <2>1. Cardinality(TextUpTo(read + 1)) = Cardinality(TextUpTo(read)) + 1
    BY <1>3, <1>4, <1>6, FS_AddElement
  <2> QED
    BY <1>2, <1>5, <1>6, <2>1
<1>7. CASE call.reply[read + 1].says # "text"
  <2>1. TextUpTo(read + 1) = TextUpTo(read)
    BY <1>3, <1>7
  <2> QED
    BY <1>2, <1>5, <1>7, <2>1
<1> QED
  BY <1>6, <1>7

(* A reply that ends here has no text left.                                *)
LEMMA EndIsLast ==
  ASSUME RepliesEndOnce, TypeOK, read < Whole, EndsReply(call.dialect, call.reply[read + 1])
  PROVE  /\ \A i \in TextLines : i <= read + 1
         /\ call.dialect # "toAnthropic" => read + 1 = Whole
<1>1. read + 1 \in DOMAIN call.reply /\ read \in Nat /\ Whole \in Nat /\ Whole = Len(call.reply)
  BY Numbers, CallType DEF TypeOK, Whole
<1>2. \A j \in read + 2 .. Whole :
        call.dialect = "toAnthropic" /\ call.reply[j].says # "text"
  <2>1. call \in Calls /\ read + 1 + 1 = read + 2
    BY <1>1 DEF TypeOK
  <2> QED
    BY <1>1, <2>1 DEF RepliesEndOnce
<1>3. ASSUME NEW i \in TextLines PROVE i <= read + 1
  <2>1. i \in 1 .. Whole /\ call.reply[i].says = "text"
    BY DEF TextLines
  <2> QED
    BY <1>1, <1>2, <2>1
<1>4. ASSUME call.dialect # "toAnthropic" PROVE read + 1 = Whole
  <2>1. ~(Whole \in read + 2 .. Whole)
    BY <1>2, <1>4
  <2> QED
    BY <1>1, <2>1
<1> QED
  BY <1>3, <1>4

(* A line is handled, in a forwarded reply or in a translated one: a reply *)
(* that had ended would have no line left, so the row, if there is one     *)
(* now, is the first, and its frame comes before the terminal frame.       *)
LEMMA LineHandled ==
  ASSUME RepliesEndOnce, RelayInv, Forward \/ Translate
  PROVE  LET line == call.reply[read + 1]
             ends == EndsReply(call.dialect, line)
         IN  /\ line \in Line /\ read < Whole /\ pc = "reading" /\ pc' = "writing"
             /\ UNCHANGED <<call, conn, sent, buffered, watchdog, client, frames>>
             /\ read' = read + 1 /\ usage' = usage \cup Tracked(call.dialect, line)
             /\ complete' = ends /\ ends \in BOOLEAN /\ ~EndSeen /\ rows = << >>
             /\ rows' = IF Forwards /\ ends THEN <<Row(TRUE, usage')>> ELSE << >>
             /\ todo' = IF Forwards /\ ends THEN Meta \o Frames(line) ELSE Frames(line)
<1> DEFINE line == call.reply[read + 1]
           ends == EndsReply(call.dialect, line)
<1>1. TypeOK /\ pc = "reading" /\ read < buffered
  BY DEF RelayInv, RowInv, Forward, Translate
<1>2. read < Whole /\ read + 1 \in 1 .. sent
  BY <1>1, Numbers
<1>3. line \in Line
  BY <1>1, <1>2, LineType
<1>4. ~EndSeen
  <2>1. Forwards => call.dialect # "toAnthropic"
    BY DEF Forwards
  <2>2. complete /\ call.dialect # "toAnthropic" => read = Whole
    BY DEF RelayInv, Progress
  <2>3. read # Whole
    BY <1>1, <1>2, Numbers
  <2> QED
    BY <2>1, <2>2, <2>3 DEF EndSeen
<1>5. rows = << >> /\ ~Logged
  <2>1. Len(rows) = 0
    BY <1>1, <1>4 DEF RelayInv, RowInv, RowSoFar, EndSeen
  <2> QED
    BY <1>1, <2>1, EmptySeq DEF TypeOK, Logged
<1>6. ends \in BOOLEAN
  BY <1>3 DEF EndsReply, Line
<1>7. CASE Forward
  <2>1. /\ pc = "reading" /\ pc' = "writing" /\ Forwards
        /\ UNCHANGED <<call, conn, sent, buffered, watchdog, client, frames>>
        /\ read' = read + 1 /\ usage' = usage \cup Tracked(call.dialect, line)
        /\ complete' = (complete \/ ends)
        /\ rows' = IF ends /\ ~Logged THEN Append(rows, Row(TRUE, usage')) ELSE rows
        /\ todo' = IF ends /\ ~Logged THEN MetaFirst(line) ELSE Frames(line)
    BY <1>7 DEF Forward, network
  <2>2. complete = FALSE
    BY <1>1, <1>4, <2>1 DEF EndSeen, TypeOK
  <2>3. complete' = ends
    BY <1>6, <2>1, <2>2
  <2>4. Append(rows, Row(TRUE, usage')) = <<Row(TRUE, usage')>>
    BY <1>5
  <2> QED
    BY <1>2, <1>3, <1>4, <1>5, <1>6, <2>1, <2>3, <2>4 DEF MetaFirst
<1>8. CASE Translate
  BY <1>2, <1>3, <1>4, <1>5, <1>6, <1>8 DEF Translate, network
<1> QED
  BY <1>7, <1>8

LEMMA LinesAreHeard ==
  ASSUME RepliesEndOnce, RelayInv, RowInv', Forward \/ Translate
  PROVE  RelayInv'
<1> DEFINE line == call.reply[read + 1]
           ends == EndsReply(call.dialect, line)
<1>1. /\ line \in Line /\ read < Whole /\ pc = "reading" /\ pc' = "writing"
      /\ UNCHANGED <<call, conn, sent, buffered, watchdog, client, frames>>
      /\ read' = read + 1 /\ usage' = usage \cup Tracked(call.dialect, line)
      /\ complete' = ends /\ ends \in BOOLEAN /\ ~EndSeen /\ rows = << >>
      /\ rows' = IF Forwards /\ ends THEN <<Row(TRUE, usage')>> ELSE << >>
      /\ todo' = IF Forwards /\ ends THEN Meta \o Frames(line) ELSE Frames(line)
  BY LineHandled
<1>2. /\ TypeOK /\ call.dialect \in Dialects /\ call.showsMeta \in BOOLEAN
      /\ frames \in Seq(Words) /\ call.streams /\ todo = << >> /\ Out = frames
  BY <1>1, Numbers, AllSent DEF RelayInv, RowInv, Places, Loop
<1> HIDE DEF line, ends
<1>3. Places'
  <2>0. \A w \in Words : <<w>> \in Seq(Words)
    OBVIOUS
  <2>1. Frames(line) \in Seq(Words)
    BY <1>1, <1>2, <2>0, LineSays, EmptySeq
  <2>2. Meta \in Seq(Words)
    <3>1. "meta" \in Words
      BY DEF Words
    <3> QED
      BY <2>0, <3>1, EmptySeq DEF Meta
  <2>3. todo' \in Seq(Words)
    BY <1>1, <2>1, <2>2, ConcatProperties
  <2> QED
    BY <1>1, <1>2, <2>3 DEF RelayInv, Places, Whole, Early, Loop
<1>4. /\ ends => \A i \in TextLines : i <= read + 1
      /\ ends /\ call.dialect # "toAnthropic" => read + 1 = Whole
  BY <1>1, <1>2, EndIsLast DEF ends, line
<1>5. call.dialect # "anthropic" => usage' = Seen(read')
  <2>1. Seen(read + 1) = Seen(read) \cup line.counts
    BY <1>1, <1>2, OneLineFurther DEF line
  <2> QED
    BY <1>1, <1>2, <2>1 DEF RelayInv, Progress, Tracked
<1>6. Progress'
  BY <1>1, <1>2, <1>4, <1>5 DEF Progress, TextLines, Whole, Seen
<1>7. RowMeans'
  <2>1. Row(TRUE, usage').outcome = "ok" /\ Row(TRUE, usage').charged = Charged(TRUE, usage')
    BY DEF Row, Outcome
  <2> QED
    BY <1>1, <2>1 DEF RowMeans, Charged
<1>8. client' # "left" => Heard'
  <2> SUFFICES ASSUME client' # "left" PROVE Heard'
    OBVIOUS
  <2>1. Told(frames, 0, 0, 0) /\ Tally(frames, {"text"}) = Cardinality(TextUpTo(read))
    <3>1. Told(frames, EndsTold, BreaksTold, RowsTold)
      BY <1>1, <1>2 DEF RelayInv, Heard, Early, Loop
    <3>2. EndsTold = 0 /\ BreaksTold = 0 /\ RowsTold = 0
      BY <1>1 DEF EndsTold, BreaksTold, RowsTold
    <3> QED
      BY <1>1, <1>2, <3>1, <3>2 DEF RelayInv, Heard
  <2>2. /\ EndSeen' <=> Forwards /\ ends
        /\ EndsTold' = IF Forwards /\ ends THEN 1 ELSE 0
        /\ BreaksTold' = 0
        /\ RowsTold' = IF Forwards /\ ends /\ call.showsMeta THEN 1 ELSE 0
    BY <1>1 DEF EndSeen, EndsTold, BreaksTold, RowsTold, Forwards
  <2>3. TextUpTo(read)' = TextUpTo(read + 1)
    BY <1>1 DEF TextUpTo
  <2>4. /\ Cardinality(TextUpTo(read)) \in Nat
        /\ Cardinality(TextUpTo(read + 1)) =
             Cardinality(TextUpTo(read)) + IF line.says = "text" THEN 1 ELSE 0
    BY <1>1, <1>2, OneLineFurther DEF line
  <2>5. SUFFICES /\ Told(Out', EndsTold', BreaksTold', RowsTold')
                 /\ Tally(Out', {"text"}) = Cardinality(TextUpTo(read + 1))
    BY <1>1, <2>3 DEF Heard, Early, Loop, Late
  <2>6. CASE Frames(line) = << >>
    <3>1. ~Forwards /\ line.says # "text"
      BY <1>1, <1>2, <2>6, LineSays
    <3>2. Out' = frames
      BY <1>1, <1>2, <2>6, <3>1, ConcatEmptySeq DEF Out
    <3> QED
      BY <2>1, <2>2, <2>4, <3>1, <3>2
  <2>7. CASE \E w \in Words : Frames(line) = <<w>>
    <3>1. PICK w \in Words : Frames(line) = <<w>>
      BY <2>7
    <3>2. /\ w \notin Bad /\ w # "meta"
          /\ w \in Good <=> Forwards /\ line.says = "terminal"
          /\ w = "text" <=> line.says = "text"
      BY <1>1, <1>2, <3>1, LineSays
    <3>3. /\ Told(frames \o <<w>>, Is(w, Good), 0 + Is(w, Bad), 0)
          /\ Tally(frames \o <<w>>, {"text"}) = Tally(frames, {"text"}) + Is(w, {"text"})
      BY <1>2, <2>1, <3>2, Speak
    <3>4. /\ 0 + Is(w, Bad) = 0
          /\ Is(w, {"text"}) = IF line.says = "text" THEN 1 ELSE 0
          /\ Is(w, Good) = IF Forwards /\ line.says = "terminal" THEN 1 ELSE 0
      BY <3>2 DEF Is
    <3>5. Forwards => (ends <=> line.says = "terminal")
      BY DEF Forwards, EndsReply, ends
    <3>6. CASE Forwards /\ ends /\ call.showsMeta
      <4>1. w = "terminal" /\ line.says # "text"
        BY <1>2, <3>1, <3>5, <3>6 DEF Frames
      <4>2. Out' = frames \o (<<"meta">> \o <<"terminal">>)
        BY <1>1, <3>1, <3>6, <4>1 DEF Out, Meta
      <4>3. /\ Told(Out', 1, 0, 1) /\ Tally(Out', {"text"}) = Tally(frames, {"text"})
        BY <1>2, <2>1, <4>2, SpeakOfTheRow
      <4> QED
        BY <2>1, <2>2, <2>4, <3>6, <4>1, <4>3
    <3>7. CASE ~(Forwards /\ ends /\ call.showsMeta)
      <4>1. todo' = <<w>>
        <5>1. Forwards /\ ends => Meta = << >>
          BY <3>7 DEF Meta
        <5>2. <<w>> \in Seq(Words)
          OBVIOUS
        <5>3. << >> \o <<w>> = <<w>>
          BY <5>2, ConcatEmptySeq
        <5> QED
          BY <1>1, <3>1, <5>1, <5>3
      <4>2. Out' = frames \o <<w>>
        BY <1>1, <4>1 DEF Out
      <4>3. Is(w, Good) = EndsTold' /\ BreaksTold' = 0 /\ RowsTold' = 0
        BY <2>2, <3>4, <3>5, <3>7
      <4>4. Told(Out', EndsTold', BreaksTold', RowsTold')
        BY <3>3, <3>4, <4>2, <4>3
      <4>5. Tally(Out', {"text"}) = Cardinality(TextUpTo(read + 1))
        BY <2>1, <2>4, <3>3, <3>4, <4>2
      <4> QED
        BY <4>4, <4>5
    <3> QED
      BY <3>6, <3>7
  <2> QED
    BY <1>1, <1>2, <2>6, <2>7, LineSays
<1>9. TerminalComesLast'
  BY <1>1, <1>3, <1>8, OrderFollows
<1> QED
  BY <1>3, <1>6, <1>7, <1>8, <1>9 DEF RelayInv

(* The loop breaks off.                                                    *)
LEMMA BreaksAreHeard ==
  ASSUME RelayInv, RowInv', ReadFails, ~complete
  PROVE  RelayInv'
<1>1. /\ pc = "reading" /\ pc' = "closing" /\ todo' = <<"error">>
      /\ UNCHANGED <<call, conn, sent, buffered, read, watchdog, client, complete, usage, rows, frames>>
  BY DEF ReadFails, network, answer
<1>2. /\ frames \in Seq(Words) /\ todo = << >> /\ Out = frames /\ ~EndSeen
      /\ "error" \in Words /\ <<"error">> \in Seq(Words)
  BY <1>1, AllSent DEF RelayInv, Places, EndSeen, Words
<1>3. Places'
  BY <1>1, <1>2 DEF RelayInv, Places, Whole, Early, Loop
<1>4. Progress' /\ RowMeans'
  BY <1>1 DEF RelayInv, Progress, RowMeans, TextLines, Whole, Seen, Charged, Loop
<1>5. client' # "left" => Heard'
  <2> SUFFICES ASSUME client' # "left" PROVE Heard'
    OBVIOUS
  <2>1. Told(frames, 0, 0, 0) /\ (call.streams => Tally(frames, {"text"}) = Cardinality(TextUpTo(read)))
    <3>1. EndsTold = 0 /\ BreaksTold = 0 /\ RowsTold = 0
      BY <1>1, <1>2 DEF EndsTold, BreaksTold, RowsTold
    <3> QED
      BY <1>1, <1>2, <3>1 DEF RelayInv, Heard, Early, Loop
  <2>2. EndsTold' = 0 /\ BreaksTold' = 1 /\ RowsTold' = 0
    BY <1>1 DEF EndsTold, BreaksTold, RowsTold, EndSeen
  <2>3. /\ Told(frames \o <<"error">>, Is("error", Good), 0 + Is("error", Bad), 0)
        /\ Tally(frames \o <<"error">>, {"text"}) = Tally(frames, {"text"}) + Is("error", {"text"})
        /\ Tally(frames, {"text"}) \in Nat
    BY <1>2, <2>1, Speak
  <2>4. Is("error", Good) = 0 /\ 0 + Is("error", Bad) = 1 /\ Is("error", {"text"}) = 0
    BY DEF Is, Good, Bad
  <2>5. Out' = frames \o <<"error">> /\ TextUpTo(read)' = TextUpTo(read)
    BY <1>1 DEF Out, TextUpTo
  <2>6. Told(Out', EndsTold', BreaksTold', RowsTold')
    BY <2>2, <2>3, <2>4, <2>5
  <2>7. Tally(Out', {"text"}) = Tally(frames, {"text"})
    BY <2>3, <2>4, <2>5
  <2> QED
    BY <1>1, <2>1, <2>5, <2>6, <2>7 DEF Heard, Early, Loop, Late
<1>6. TerminalComesLast'
  BY <1>1, <1>3, <1>5, OrderFollows
<1> QED
  BY <1>3, <1>4, <1>5, <1>6 DEF RelayInv

(* The row after the loop, and the terminal frame of a translated reply.   *)
LEMMA FinishIsHeard ==
  ASSUME RelayInv, RowInv', Finish
  PROVE  RelayInv'
<1>1. /\ pc = "closing" /\ pc' = "leaving" /\ todo = << >>
      /\ rows' = IF Logged THEN rows ELSE Append(rows, Row(complete, usage))
      /\ todo' = IF Logged THEN << >> ELSE Meta \o Ending
      /\ UNCHANGED <<call, conn, sent, buffered, read, watchdog, client, complete, usage, frames>>
  BY DEF Finish, network
<1>2. /\ frames \in Seq(Words) /\ Out = frames /\ complete \in BOOLEAN /\ call.streams
      /\ "terminal" \in Words /\ <<"terminal">> \in Seq(Words)
      /\ "meta" \in Words /\ <<"meta">> \in Seq(Words)
  BY <1>1, AllSent DEF RelayInv, RowInv, TypeOK, Places, Words, Loop
<1>3. Logged <=> EndSeen
  BY <1>1 DEF RelayInv, RowInv, RowSoFar, TypeOK, EndSeen, Logged
<1>4. ~Logged => rows' = <<Row(complete, usage)>>
  BY <1>1 DEF Logged
<1>5. /\ Row(complete, usage).charged = Charged(complete, usage)
      /\ Row(complete, usage).outcome = "ok" <=> complete
      /\ ~complete => Charged(complete, usage) = {}
      /\ complete => Charged(complete, usage) = Charged(TRUE, usage)
  BY DEF Row, Outcome, Charged
<1>6. Logged => rows[1].outcome = "ok"
  BY <1>1 DEF RelayInv, RowMeans, Logged, Loop
<1>7. Succeeded' <=> complete
  <2>1. CASE Logged
    <3>1. rows' = rows /\ rows # << >> /\ rows[1].outcome = "ok"
      BY <2>1, <1>1, <1>6 DEF Logged
    <3>2. complete
      BY <2>1, <1>3 DEF EndSeen
    <3> QED
      BY <3>1, <3>2 DEF Succeeded, Logged
  <2>2. CASE ~Logged
    <3> DEFINE row == Row(complete, usage)
    <3>1. rows' = <<row>> /\ (row.outcome = "ok" <=> complete)
      BY <2>2, <1>4, <1>5
    <3> HIDE DEF row
    <3>2. rows' # << >> /\ rows'[1] = row
      BY <3>1
    <3> QED
      BY <3>1, <3>2 DEF Succeeded, Logged
  <2> QED
    BY <2>1, <2>2
<1>8. Places'
  <2>1. todo' \in Seq(Words)
    BY <1>1, <1>2, EmptySeq, ConcatProperties DEF Meta, Ending
  <2> QED
    BY <1>1, <1>2, <2>1 DEF RelayInv, Places, Whole, Early, Loop
<1>9. Progress'
  BY <1>1 DEF RelayInv, Progress, TextLines, Whole, Seen
<1>10. RowMeans'
  <2>1. CASE Logged
    BY <1>1, <2>1 DEF RelayInv, RowMeans, Charged, Loop
  <2>2. CASE ~Logged
    <3>1. Charged(TRUE, usage)' = Charged(TRUE, usage)
      BY <1>1 DEF Charged
    <3>2. rows'[1] = Row(complete, usage) /\ pc' \notin Loop /\ complete' = complete
      BY <1>1, <1>4, <2>2 DEF Loop
    <3>3. CASE complete
      <4>1. rows'[1].charged = Charged(TRUE, usage)'
        BY <1>5, <3>1, <3>2, <3>3
      <4> QED
        BY <1>5, <3>2, <3>3, <4>1 DEF RowMeans
    <3>4. CASE ~complete
      BY <1>5, <3>2, <3>4 DEF RowMeans
    <3> QED
      BY <3>3, <3>4
  <2> QED
    BY <2>1, <2>2
<1>11. client' # "left" => Heard'
  <2> SUFFICES ASSUME client' # "left" PROVE Heard'
    OBVIOUS
  <2>1. /\ Told(frames, EndsTold, BreaksTold, RowsTold)
        /\ Tally(frames, {"text"}) = Cardinality(TextUpTo(read))
        /\ TextUpTo(read)' = TextUpTo(read)
    BY <1>1, <1>2 DEF RelayInv, Heard, Early, Loop, TextUpTo
  <2>2. SUFFICES \E meta \in {0, 1} :
                   /\ IF complete THEN Told(Out', 1, 0, meta) ELSE Told(Out', 0, 1, meta)
                   /\ call.showsMeta => meta = 1
                   /\ Tally(Out', {"text"}) = Tally(frames, {"text"})
    BY <1>1, <1>2, <1>7, <2>1 DEF Heard, Early, Loop, Late
  <2>3. CASE Logged
    <3>1. /\ complete /\ EndsTold = 1 /\ BreaksTold = 0 /\ RowsTold \in {0, 1}
          /\ call.showsMeta => RowsTold = 1
      BY <1>3, <2>3 DEF EndsTold, BreaksTold, RowsTold, EndSeen
    <3>2. Out' = frames
      BY <1>1, <1>2, <2>3, ConcatEmptySeq DEF Out
    <3> QED
      BY <2>1, <3>1, <3>2
  <2>4. CASE ~Logged
    <3>1. Told(frames, 0, BreaksTold, 0) /\ BreaksTold = IF complete THEN 0 ELSE 1
      BY <1>1, <1>3, <2>1, <2>4 DEF EndsTold, BreaksTold, RowsTold
    <3>2. Out' = frames \o (Meta \o Ending)
      BY <1>1, <2>4 DEF Out
    <3>3. complete => ~Forwards
      BY <1>3, <2>4 DEF EndSeen
    <3>4. CASE call.showsMeta /\ complete
      <4>1. Out' = frames \o (<<"meta">> \o <<"terminal">>)
        BY <3>2, <3>3, <3>4 DEF Meta, Ending
      <4>2. Told(frames, 0, 0, 0)
        BY <3>1, <3>4
      <4> QED
        BY <1>2, <3>4, <4>1, <4>2, SpeakOfTheRow
    <3>5. CASE call.showsMeta /\ ~complete
      <4>1. Out' = frames \o <<"meta">>
        BY <1>2, <3>2, <3>5, ConcatEmptySeq DEF Meta, Ending
      <4>2. Told(frames, 0, 1, 0)
        BY <3>1, <3>5
      <4> QED
        BY <1>2, <3>5, <4>1, <4>2, SpeakOfTheRow
    <3>6. CASE ~call.showsMeta /\ complete
      <4>1. Out' = frames \o <<"terminal">>
        BY <1>2, <3>2, <3>3, <3>6, ConcatEmptySeq DEF Meta, Ending
      <4>2. Told(frames, 0, 0, 0)
        BY <3>1, <3>6
      <4>3. /\ Told(frames \o <<"terminal">>, Is("terminal", Good), 0 + Is("terminal", Bad), 0)
            /\ Tally(frames \o <<"terminal">>, {"text"})
                 = Tally(frames, {"text"}) + Is("terminal", {"text"})
            /\ Tally(frames, {"text"}) \in Nat
        BY <1>2, <4>2, Speak
      <4>4. /\ Is("terminal", Good) = 1 /\ 0 + Is("terminal", Bad) = 0
            /\ Is("terminal", {"text"}) = 0
        BY DEF Is, Good, Bad
      <4>5. Told(Out', 1, 0, 0)
        BY <4>1, <4>3, <4>4
      <4>6. Tally(Out', {"text"}) = Tally(frames, {"text"})
        BY <4>1, <4>3, <4>4
      <4> QED
        BY <3>6, <4>5, <4>6
    <3>7. CASE ~call.showsMeta /\ ~complete
      <4>1. Out' = frames
        BY <1>2, <3>2, <3>7, EmptySeq, ConcatEmptySeq DEF Meta, Ending
      <4>2. Told(Out', 0, 1, 0)
        BY <3>1, <3>7, <4>1
      <4> QED
        BY <3>7, <4>1, <4>2
    <3> QED
      BY <3>4, <3>5, <3>6, <3>7
  <2> QED
    BY <2>3, <2>4
<1>12. TerminalComesLast'
  BY <1>1, <1>8, <1>11, OrderFollows
<1> QED
  BY <1>8, <1>9, <1>10, <1>11, <1>12 DEF RelayInv

(* The row and the answer of a request that gets no stream.                *)
LEMMA AnswerIsHeard ==
  ASSUME RelayInv, RowInv', NEW w \in {"refusal", "reply"},
         pc \in Early, pc' = "leaving", todo' = <<w>>, UNCHANGED <<call, client, frames>>,
         w = "refusal" => ~Succeeded' /\ UNCHANGED read,
         w = "reply" => Succeeded' /\ ~call.streams
  PROVE  /\ client' # "left" => Heard'
         /\ frames' \in Seq(Words) /\ todo' \in Seq(Words)
<1>1. /\ frames = << >> /\ w \in Words /\ <<w>> \in Seq(Words) /\ << >> \in Seq(Words)
      /\ read = 0 /\ Out' = <<w>> /\ << >> \o <<w>> = <<w>>
  BY ConcatEmptySeq, EmptySeq DEF RelayInv, Places, Words, Out
<1>2. /\ Told(<<w>>, Is(w, Good), 0 + Is(w, Bad), 0)
      /\ Tally(<<w>>, {"text"}) = Tally(<< >>, {"text"}) + Is(w, {"text"})
  BY <1>1, ToldNothing, Speak
<1>3. /\ w = "refusal" => Is(w, Good) = 0 /\ 0 + Is(w, Bad) = 1
      /\ w = "reply" => Is(w, Good) = 1 /\ 0 + Is(w, Bad) = 0
      /\ Is(w, {"text"}) = 0
  BY DEF Is, Good, Bad
<1>4. IF Succeeded' THEN Told(Out', 1, 0, 0) ELSE Told(Out', 0, 1, 0)
  <2>1. CASE w = "refusal"
    <3>1. Told(Out', 0, 1, 0)
      BY <1>1, <1>2, <1>3, <2>1
    <3> QED
      BY <2>1, <3>1
  <2>2. CASE w = "reply"
    <3>1. Told(Out', 1, 0, 0)
      BY <1>1, <1>2, <1>3, <2>2
    <3> QED
      BY <2>2, <3>1
  <2> QED
    BY <2>1, <2>2
<1>5. At(Out', {"terminal"}) = {}
  BY <1>1 DEF At
<1>6. Tally(Out', {"text"}) = 0
  BY <1>1, <1>2, <1>3, TallyNothing
<1>7. w = "reply" => At(Out', {"reply"}) # {}
  <2>1. w = "reply" => 1 \in At(Out', {"reply"})
    BY <1>1 DEF At
  <2> QED
    BY <2>1
<1>8. call.streams => Cardinality(TextUpTo(read)') = 0
  <2>1. call.streams => TextUpTo(read)' = {}
    BY <1>1 DEF TextUpTo
  <2> QED
    BY <2>1, FS_EmptySet
<1> QED
  BY <1>1, <1>4, <1>5, <1>6, <1>7, <1>8 DEF Heard, Early, Loop, Late

LEMMA RefusalsAreHeard ==
  ASSUME RelayInv, RowInv', Unreachable \/ Refused
  PROVE  RelayInv'
<1>1. /\ pc \in {"pinned", "connecting"} /\ pc' = "leaving" /\ todo' = <<"refusal">>
      /\ UNCHANGED <<call, conn, sent, buffered, read, watchdog, client, complete, usage, frames>>
  BY DEF Unreachable, Refused, network, Asking
<1>2. rows = << >> /\ ~complete
  BY <1>1 DEF RelayInv, RowInv, RowSoFar
<1>3. \E o \in Outcomes \ {"ok"} : rows' = <<Failure(o)>>
  BY <1>2 DEF Unreachable, Refused, Outcomes
<1>4. rows'[1].charged = {} /\ rows'[1].outcome # "ok" /\ ~Succeeded'
  BY <1>3 DEF Failure, Succeeded
<1>5. (client' # "left" => Heard') /\ frames' \in Seq(Words) /\ todo' \in Seq(Words)
  BY <1>1, <1>4, AnswerIsHeard DEF Early
<1>6. Places'
  BY <1>1, <1>5 DEF RelayInv, Places, Whole, Early, Loop
<1>7. Progress'
  BY <1>1 DEF RelayInv, Progress, TextLines, Whole, Seen
<1>8. RowMeans'
  BY <1>1, <1>4 DEF RowMeans, Loop
<1>9. TerminalComesLast'
  BY <1>1, <1>5, <1>6, OrderFollows
<1> QED
  BY <1>5, <1>6, <1>7, <1>8, <1>9 DEF RelayInv

LEMMA CollectedIsHeard ==
  ASSUME RelayInv, RowInv', Collect
  PROVE  RelayInv'
<1>1. /\ pc = "collecting" /\ pc' = "leaving" /\ ~call.streams /\ rows = << >> /\ ~complete
      /\ read = 0 /\ usage = {} /\ frames = << >> /\ todo = << >>
      /\ UNCHANGED <<call, conn, sent, client, frames>>
  BY DEF Collect, ReadAll, ReadAllFails, network, RelayInv, RowInv, RowSoFar, Places, Early
<1>2. \A counts : /\ Row(TRUE, counts).outcome = "ok"
                  /\ Row(TRUE, counts).charged = Charged(TRUE, counts)
  BY DEF Row, Outcome
<1>3. CASE ReadAll
  <2>1. /\ sent = Whole /\ read' = Whole /\ complete' = TRUE /\ usage' = Seen(Whole)
        /\ rows' = <<Row(TRUE, usage')>> /\ todo' = <<"reply">>
    BY <1>1, <1>3 DEF ReadAll, RelayInv, Places, Seen
  <2>2. Succeeded'
    BY <1>2, <2>1 DEF Succeeded
  <2>3. (client' # "left" => Heard') /\ frames' \in Seq(Words) /\ todo' \in Seq(Words)
    BY <1>1, <2>1, <2>2, AnswerIsHeard DEF Early
  <2>4. Places'
    BY <1>1, <2>3 DEF RelayInv, Places, Whole, Early, Loop
  <2>5. Progress'
    <3>1. Whole \in Nat /\ Whole' = Whole /\ TextLines' = TextLines /\ Seen(Whole)' = Seen(Whole)
      BY <1>1, Numbers DEF RelayInv, RowInv, Whole, TextLines, Seen
    <3>2. \A i \in TextLines : i <= Whole
      BY <3>1 DEF TextLines
    <3>3. usage' = Seen(read)'
      BY <1>1, <2>1, <3>1 DEF Seen
    <3> QED
      BY <2>1, <3>1, <3>2, <3>3 DEF Progress
  <2>6. RowMeans'
    <3>1. Charged(TRUE, usage)' = Charged(TRUE, usage')
      BY <1>1 DEF Charged
    <3>2. rows'[1] = Row(TRUE, usage') /\ pc' \notin Loop
      BY <1>1, <2>1 DEF Loop
    <3>3. rows'[1].outcome = "ok" /\ rows'[1].charged = Charged(TRUE, usage)'
      BY <1>2, <3>1, <3>2
    <3> QED
      BY <2>1, <3>2, <3>3 DEF RowMeans
  <2>7. TerminalComesLast'
    BY <1>1, <2>3, <2>4, OrderFollows
  <2> QED
    BY <2>3, <2>4, <2>5, <2>6, <2>7 DEF RelayInv
<1>4. CASE ReadAllFails
  <2>1. UNCHANGED <<call, conn, sent, buffered, read, watchdog, client, complete, usage, frames>>
    BY <1>4 DEF ReadAllFails, network
  <2>2. \/ /\ todo' = <<"refusal">> /\ \E o \in Outcomes \ {"ok"} : rows' = <<Failure(o)>>
        \/ todo' = <<"reply">> /\ rows' = <<Row(TRUE, {})>> /\ call.dialect # "openai"
    <3>1. CASE call.dialect = "openai"
      <4>1. \E o \in Outcomes \ {"ok"} : rows' = Append(rows, Failure(o))
        BY <1>4, <3>1 DEF ReadAllFails, Outcomes
      <4> QED
        BY <1>1, <1>4, <3>1, <4>1 DEF ReadAllFails
    <3>2. CASE call.dialect # "openai"
      <4>1. rows' = Append(rows, Row(TRUE, {})) /\ todo' = <<"reply">>
        BY <1>4, <3>2 DEF ReadAllFails
      <4>2. rows' = <<Row(TRUE, {})>>
        BY <1>1, <4>1
      <4> QED
        BY <3>2, <4>1, <4>2
    <3> QED
      BY <3>1, <3>2
  <2> DEFINE Rested == /\ client' # "left" => Heard'
                       /\ frames' \in Seq(Words) /\ todo' \in Seq(Words) /\ RowMeans'
  <2>3. ASSUME todo' = <<"refusal">>, \E o \in Outcomes \ {"ok"} : rows' = <<Failure(o)>>
        PROVE  Rested
    <3>1. ~Succeeded' /\ rows'[1].outcome # "ok" /\ rows'[1].charged = {}
      BY <2>3 DEF Failure, Succeeded
    <3>2. (client' # "left" => Heard') /\ frames' \in Seq(Words) /\ todo' \in Seq(Words)
      BY <1>1, <2>1, <2>3, <3>1, AnswerIsHeard DEF Early
    <3>3. RowMeans'
      BY <1>1, <3>1 DEF RowMeans, Loop
    <3> QED
      BY <3>2, <3>3
  <2>4. ASSUME todo' = <<"reply">>, rows' = <<Row(TRUE, {})>>, call.dialect # "openai"
        PROVE  Rested
    <3>1. Row(TRUE, {}).outcome = "ok" /\ Row(TRUE, {}).charged = {}
      BY <2>4 DEF Row, Outcome, Charged
    <3>2. Succeeded' /\ rows'[1].outcome = "ok" /\ rows'[1].charged = {}
      BY <2>4, <3>1 DEF Succeeded
    <3>3. (client' # "left" => Heard') /\ frames' \in Seq(Words) /\ todo' \in Seq(Words)
      BY <1>1, <2>1, <2>4, <3>2, AnswerIsHeard DEF Early
    <3>4. RowMeans'
      <4>1. ~call'.streams /\ call'.dialect # "openai" /\ pc' \notin Loop
        BY <1>1, <2>1, <2>4 DEF Loop
      <4> QED
        BY <3>2, <4>1 DEF RowMeans
    <3> QED
      BY <3>3, <3>4
  <2>5. Rested
    BY <2>2, <2>3, <2>4
  <2>6. Places'
    BY <1>1, <2>1, <2>5 DEF RelayInv, Places, Whole, Early, Loop
  <2>7. Progress'
    BY <2>1 DEF RelayInv, Progress, TextLines, Whole, Seen
  <2>8. TerminalComesLast'
    BY <2>1, <2>5, <2>6, OrderFollows
  <2> QED
    BY <2>5, <2>6, <2>7, <2>8 DEF RelayInv
<1> QED
  BY <1>3, <1>4 DEF Collect

-----------------------------------------------------------------------------
(* The invariant, and what follows from it.                                *)

LEMMA InitRelayInv == Init => RelayInv
<1> SUFFICES ASSUME Init PROVE RelayInv
  OBVIOUS
<1>1. /\ RowInv /\ pc \in {"pinned", "connecting"} /\ frames = << >> /\ todo = << >>
      /\ rows = << >> /\ complete = FALSE /\ read = 0 /\ sent = 0 /\ usage = {} /\ conn = "none"
  BY InitRowInv DEF Init
<1>2. Places
  BY <1>1, EmptySeq DEF Places, Early, Loop
<1>3. Progress /\ RowMeans
  BY <1>1 DEF Progress, RowMeans, Seen
<1>4. Heard
  <2>1. Out = << >>
    BY <1>1, EmptySeq, ConcatEmptySeq DEF Out
  <2>2. EndsTold = 0 /\ BreaksTold = 0 /\ RowsTold = 0
    BY <1>1 DEF EndsTold, BreaksTold, RowsTold, EndSeen
  <2>3. Tally(<< >>, {"text"}) = Cardinality(TextUpTo(read))
    <3>1. TextUpTo(read) = {}
      BY <1>1 DEF TextUpTo
    <3> QED
      BY <3>1, FS_EmptySet, TallyNothing
  <2> QED
    BY <1>1, <2>1, <2>2, <2>3, ToldNothing DEF Heard, Late
<1> QED
  BY <1>1, <1>2, <1>3, <1>4, HeardInOrder DEF RelayInv

LEMMA NextRelayInv == RepliesEndOnce /\ RelayInv /\ [Next]_vars => RelayInv'
<1> SUFFICES ASSUME RepliesEndOnce, RelayInv, [Next]_vars PROVE RelayInv'
  OBVIOUS
<1>1. RowInv'
  BY NextRowInv DEF RelayInv
<1>2. CASE Connect
  BY <1>1, <1>2, TurnsSayNothing, RefusalsAreHeard DEF Connect
<1>3. CASE Relay
  BY <1>1, <1>3, QuietSteps, TurnsSayNothing, BreaksAreHeard, LinesAreHeard, FinishIsHeard DEF Relay
<1>4. CASE Collect
  BY <1>1, <1>4, CollectedIsHeard
<1>5. CASE Write
  BY <1>1, <1>5, WriteSaysWhatIsOut
<1>6. CASE Return
  BY <1>1, <1>6, TurnsSayNothing
<1>7. CASE Environment \/ Fire \/ TotalTimeout
  BY <1>1, <1>7, QuietSteps
<1>8. CASE UNCHANGED vars
  <2>1. Places' /\ Progress' /\ RowMeans' /\ TerminalComesLast'
    BY <1>8 DEF vars, RelayInv, Places, Progress, RowMeans, TerminalComesLast, Saying, Whole, TextLines,
       Seen, Charged
  <2>2. Out' = Out /\ BreaksTold' = BreaksTold
    BY <1>8 DEF vars, Out, BreaksTold
  <2>3. client' # "left" => Heard'
    BY <1>8, <2>2, HeardStays DEF vars, RelayInv
  <2> QED
    BY <1>1, <2>1, <2>3 DEF RelayInv
<1> QED
  BY <1>2, <1>3, <1>4, <1>5, <1>6, <1>7, <1>8 DEF Next, Handler

LEMMA RelayInvHolds ==
  ASSUME RepliesEndOnce
  PROVE  Spec => []RelayInv
<1>1. RelayInv /\ [Next]_vars => RelayInv'
  BY NextRelayInv
<1> QED
  BY <1>1, InitRelayInv, PTL DEF Spec

(* Nothing follows the terminal frame, and an app that shows the row has   *)
(* been sent it by then (handler.go:1356-1357).                            *)
THEOREM NothingAfterTheTerminalFrame ==
  ASSUME RepliesEndOnce
  PROVE  Spec => []TerminalComesLast
<1>1. RelayInv => TerminalComesLast
  BY DEF RelayInv
<1> QED
  BY <1>1, RelayInvHolds, PTL

(* A client that stays gets one frame that ends its reply, and it says     *)
(* what the row says (proxyXToY, setStreamOutcome).                        *)
THEOREM TheEndIsToldOnce ==
  ASSUME RepliesEndOnce
  PROVE  Spec => []ClientsLearnTheEnd
<1>1. RelayInv => ClientsLearnTheEnd
  <2> SUFFICES ASSUME RelayInv, Answered
               PROVE  /\ Cardinality(At(frames, Good) \cup At(frames, Bad)) = 1
                      /\ At(frames, Good) # {} <=> Succeeded
    <3>1. /\ At(frames, Good) = Saying("terminal") \cup Saying("reply")
          /\ At(frames, Bad) = Saying("error") \cup Saying("refusal")
      BY DEF At, Good, Bad, Saying
    <3> QED
      BY <3>1 DEF ClientsLearnTheEnd
  <2>1. /\ pc = "done" /\ client # "left" /\ Out = frames
    BY AllSent DEF Answered, Done, RelayInv, Places
  <2>2. \E meta : IF Succeeded THEN Told(frames, 1, 0, meta) ELSE Told(frames, 0, 1, meta)
    BY <2>1 DEF RelayInv, Heard, Late
  <2>3. IsFiniteSet(At(frames, Good)) /\ IsFiniteSet(At(frames, Bad))
    <3>1. IsFiniteSet(DOMAIN frames)
      BY LenProperties, FS_Interval DEF RelayInv, Places
    <3>2. At(frames, Good) \in SUBSET DOMAIN frames /\ At(frames, Bad) \in SUBSET DOMAIN frames
      BY DEF At
    <3> QED
      BY <3>1, <3>2, FS_Subset
  <2>4. CASE Succeeded
    <3>1. Cardinality(At(frames, Good)) = 1 /\ Cardinality(At(frames, Bad)) = 0
      BY <2>2, <2>4 DEF Told, Tally
    <3>2. At(frames, Bad) = {} /\ At(frames, Good) # {}
      BY <2>3, <3>1, FS_EmptySet
    <3>3. At(frames, Good) \cup At(frames, Bad) = At(frames, Good)
      BY <3>2
    <3> QED
      BY <2>4, <3>1, <3>2, <3>3
  <2>5. CASE ~Succeeded
    <3>1. Cardinality(At(frames, Good)) = 0 /\ Cardinality(At(frames, Bad)) = 1
      BY <2>2, <2>5 DEF Told, Tally
    <3>2. At(frames, Good) = {}
      BY <2>3, <3>1, FS_EmptySet
    <3>3. At(frames, Good) \cup At(frames, Bad) = At(frames, Bad)
      BY <3>2
    <3> QED
      BY <2>5, <3>1, <3>2, <3>3
  <2> QED
    BY <2>4, <2>5
<1> QED
  BY <1>1, RelayInvHolds, PTL

(* A row that charges anything is that of a reply whose text was read to   *)
(* its end, and a client that stayed for an ok row has all of it           *)
(* (setStreamOutcome).                                                     *)
THEOREM BrokenRepliesAreFree ==
  ASSUME RepliesEndOnce
  PROVE  Spec => []WholeRepliesAreCharged
<1>1. RelayInv => WholeRepliesAreCharged
  <2> SUFFICES ASSUME RelayInv
               PROVE  WholeRepliesAreCharged
    OBVIOUS
  <2>1. ASSUME rows # << >>, rows[1].charged # {} PROVE \A i \in TextLines : i <= read
    BY <2>1 DEF RelayInv, RowMeans, RowInv, TypeOK, Progress
  <2>2. ASSUME Answered, Succeeded PROVE Answers
    <3>1. /\ pc = "done" /\ client # "left" /\ Out = frames /\ Heard
      BY <2>2, AllSent DEF Answered, Done, RelayInv, Places
    <3>2. CASE ~call.streams
      BY <2>2, <3>1, <3>2 DEF Heard, Late, At, Answers, Saying
    <3>3. CASE call.streams
      <4>1. complete /\ \A i \in TextLines : i <= read
        BY <2>2, <3>3 DEF RelayInv, RowMeans, Succeeded, Progress
      <4>2. TextUpTo(read) = TextLines
        <5>1. read \in Nat /\ Whole \in Nat /\ read <= Whole
          BY Numbers DEF RelayInv, RowInv
        <5>2. TextUpTo(read) \subseteq TextLines
          BY <5>1 DEF TextUpTo, TextLines
        <5>3. TextLines \subseteq TextUpTo(read)
          BY <4>1, <5>1 DEF TextUpTo, TextLines
        <5> QED
          BY <5>2, <5>3
      <4>3. At(frames, {"text"}) = Saying("text")
        BY DEF At, Saying
      <4>4. Tally(frames, {"text"}) = Cardinality(TextUpTo(read))
        BY <3>1, <3>3 DEF Heard
      <4> QED
        BY <4>2, <4>3, <4>4 DEF Tally, Answers
    <3> QED
      BY <3>2, <3>3, Numbers DEF RelayInv, RowInv
  <2> QED
    BY <2>1, <2>2 DEF WholeRepliesAreCharged
<1> QED
  BY <1>1, RelayInvHolds, PTL

(* On the routes that see the usage before the end of the reply, an ok row *)
(* charges what the upstream reported (finish).                            *)
THEOREM ReportedUsageIsBilled ==
  ASSUME RepliesEndOnce
  PROVE  Spec => []ReportedUsageIsCharged
<1>1. RelayInv => ReportedUsageIsCharged
  <2> SUFFICES ASSUME RelayInv, call.dialect \notin {"anthropic", "toAnthropic"},
                      ~(call.dialect = "toOpenAI" /\ ~call.streams),
                      Succeeded, Reported # {}
               PROVE  rows[1].charged = Reported
    BY DEF ReportedUsageIsCharged, UsageIsBilled
  <2>1. call.dialect \in {"openai", "toOpenAI"} /\ call.streams \in BOOLEAN
    BY Numbers DEF RelayInv, RowInv, Dialects
  <2>2. complete /\ rows[1].charged = Charged(TRUE, usage)
    BY <2>1 DEF RelayInv, RowMeans, Succeeded
  <2>3. read = Whole /\ usage = Seen(Whole)
    BY <2>1, <2>2 DEF RelayInv, Progress
  <2>4. usage = Reported
    BY <2>3 DEF Seen, Reported
  <2> QED
    BY <2>2, <2>4 DEF Charged
<1> QED
  BY <1>1, RelayInvHolds, PTL

-----------------------------------------------------------------------------
(* The reply comes to an end.                                              *)

(* The clock of the place the handler is at has been started.              *)
ClockRuns ==
  /\ todo \in Seq(Words)
  /\ pc \in {"reading", "writing"} => watchdog # "off"
  /\ pc = "collecting" => conn # "none"

EndInv == RowInv /\ ClockRuns

LEMMA FewWords ==
  /\ << >> \in Seq(Words)
  /\ \A w \in Words : <<w>> \in Seq(Words)
  /\ Meta \in Seq(Words) /\ Ending \in Seq(Words)
<1>1. << >> \in Seq(Words) /\ \A w \in Words : <<w>> \in Seq(Words)
  OBVIOUS
<1>2. "meta" \in Words /\ "terminal" \in Words
  BY DEF Words
<1>3. <<"meta">> \in Seq(Words) /\ <<"terminal">> \in Seq(Words)
  BY <1>1, <1>2, Zenon
<1>4. Meta \in {<< >>, <<"meta">>} /\ Ending \in {<< >>, <<"terminal">>}
  BY Zenon DEF Meta, Ending
<1> QED
  BY <1>1, <1>3, <1>4, Zenon

LEMMA FramesAreWords ==
  ASSUME RowInv, read < Whole
  PROVE  /\ Frames(call.reply[read + 1]) \in Seq(Words)
         /\ Meta \o Frames(call.reply[read + 1]) \in Seq(Words)
<1>1. /\ read \in Nat /\ Whole \in Nat /\ call.reply \in Seq(Line) /\ call.dialect \in Dialects
      /\ call.reply[read + 1] \in Line
  <2>1. /\ TypeOK /\ call.reply \in Seq(Line) /\ call.dialect \in Dialects
    BY CallType DEF RowInv, TypeOK
  <2>2. read \in Nat /\ Len(call.reply) \in Nat /\ read < Len(call.reply)
    BY <2>1, Numbers DEF Whole
  <2>3. read + 1 \in 1 .. Len(call.reply)
    BY <2>2
  <2> QED
    BY <2>1, <2>2, <2>3 DEF Whole
<1>2. Frames(call.reply[read + 1]) \in Seq(Words)
  <2>1. Frames(call.reply[read + 1]) = << >>
          \/ \E w \in Words : Frames(call.reply[read + 1]) = <<w>>
    BY <1>1, LineSays
  <2> QED
    BY <2>1, FewWords, Zenon
<1>3. Meta \in Seq(Words)
  BY FewWords
<1> QED
  BY <1>2, <1>3, ConcatProperties

LEMMA NextClockRuns == EndInv /\ [Next]_vars => ClockRuns'
<1> SUFFICES ASSUME EndInv, [Next]_vars PROVE ClockRuns'
  OBVIOUS
<1>1. RowInv /\ ClockRuns /\ TypeOK /\ todo \in Seq(Words)
  BY DEF EndInv, RowInv, ClockRuns
<1>2. CASE Connect
  <2>1. pc' \in {"reading", "writing"} => watchdog' # "off"
    BY <1>1, <1>2 DEF Connect, Accepted, Unreachable, Rebind, Refused
  <2>2. pc' = "collecting" => conn' # "none"
    BY <1>1, <1>2 DEF Connect, Accepted, Unreachable, Rebind, Refused
  <2>3. todo' \in {todo, <<"refusal">>}
    BY <1>2, Zenon DEF Connect, Accepted, Unreachable, Rebind, Refused
  <2>4. "refusal" \in Words
    BY DEF Words
  <2>5. todo' \in Seq(Words)
    BY <1>1, <2>3, <2>4, FewWords, Zenon
  <2> QED
    BY <2>1, <2>2, <2>5 DEF ClockRuns
<1>3. CASE Forward \/ Translate
  <2>0. read < buffered
    BY <1>3 DEF Forward, Translate
  <2>1. read < Whole
    BY <1>1, <2>0, Numbers
  <2>2. todo' \in {Frames(call.reply[read + 1]), Meta \o Frames(call.reply[read + 1])}
    BY <1>3 DEF Forward, Translate, MetaFirst
  <2>3. todo' \in Seq(Words)
    BY <1>1, <2>1, <2>2, FramesAreWords
  <2> QED
    BY <1>1, <1>3, <2>3 DEF Forward, Translate, ClockRuns
<1>4. CASE Finish
  <2>1. Meta \o Ending \in Seq(Words)
    BY FewWords, ConcatProperties
  <2>2. todo' \in {<< >>, Meta \o Ending}
    BY <1>4, Zenon DEF Finish
  <2>3. todo' \in Seq(Words)
    BY <2>1, <2>2, FewWords, Zenon
  <2> QED
    BY <1>4, <2>3 DEF Finish, ClockRuns
<1>5. CASE Fill \/ NextLine \/ ReadFails
  <2>1. /\ pc' \in {"reading", "writing"} => watchdog' # "off"
        /\ pc' = "collecting" => conn' # "none"
    BY <1>1, <1>5 DEF Fill, NextLine, ReadFails, ClockRuns, network
  <2>2. todo' \in {todo, << >>, <<"error">>}
    BY <1>5, Zenon DEF Fill, NextLine, ReadFails
  <2>3. "error" \in Words
    BY DEF Words
  <2>4. todo' \in Seq(Words)
    BY <1>1, <2>2, <2>3, FewWords, Zenon
  <2> QED
    BY <2>1, <2>4 DEF ClockRuns
<1>6. CASE Collect
  <2>1. pc' = "leaving" /\ todo' \in {<<"reply">>, <<"refusal">>}
    BY <1>6, Zenon DEF Collect, ReadAll, ReadAllFails
  <2>2. "reply" \in Words /\ "refusal" \in Words
    BY DEF Words
  <2>3. todo' \in Seq(Words)
    BY <2>1, <2>2, FewWords, Zenon
  <2> QED
    BY <2>1, <2>3 DEF ClockRuns
<1>7. CASE Write
  BY <1>1, <1>7, HeadTailProperties DEF Write, ClockRuns, network
<1>8. CASE Return
  BY <1>1, <1>8 DEF Return, ClockRuns
<1>9. CASE Environment \/ Fire \/ TotalTimeout
  BY <1>1, <1>9 DEF Environment, Send, End, Cut, Stall, Resume, Leave, Fire, TotalTimeout,
                    ClockRuns, network
<1>10. CASE UNCHANGED vars
  BY <1>1, <1>10 DEF vars, ClockRuns
<1> QED
  BY <1>2, <1>3, <1>4, <1>5, <1>6, <1>7, <1>8, <1>9, <1>10 DEF Next, Handler, Relay

LEMMA EndInvHolds == Spec => []EndInv
<1>1. Init => EndInv
  BY InitRowInv DEF Init, EndInv, ClockRuns
<1>2. EndInv /\ [Next]_vars => EndInv'
  BY NextRowInv, NextClockRuns DEF EndInv
<1> QED
  BY <1>1, <1>2, PTL DEF Spec

(* What a request has before it: places, lines to handle, frames of the    *)
(* line at hand, lines to take off the connection, and the clocks.         *)
ToGo == [place \in Early \cup Loop \cup Late |->
  CASE place = "pinned" -> 5 [] place = "connecting" -> 4
    [] place \in {"reading", "writing", "collecting"} -> 3
    [] place = "closing" -> 2 [] place = "leaving" -> 1 [] OTHER -> 0]
Clocks == (IF watchdog = "armed" THEN 1 ELSE 0) + (IF conn = "open" THEN 1 ELSE 0)
Rank == <<ToGo[pc], Whole - read, Len(todo) + (IF pc = "writing" THEN 1 ELSE 0),
          Whole - buffered, Clocks>>

NatLess == {ss \in Nat \X Nat : ss[1] < ss[2]}
Ranks == [1..5 -> Nat]
RunOrder == LexProductOrdering(NatLess, Nat, 5)

LEMMA RunOrderIsWellFounded == IsWellFoundedOn(RunOrder, Ranks)
<1>1. NatLess = OpToRel(<, Nat)
  BY DEF NatLess, OpToRel
<1>2. IsWellFoundedOn(NatLess, Nat)
  BY <1>1, NatLessThanWellFounded
<1> QED
  BY <1>2, WFLexProductOrdering DEF RunOrder, Ranks

LEMMA Lowered ==
  ASSUME NEW r \in Ranks, NEW s \in Ranks, NEW j \in 1..5,
         \A i \in 1..(j - 1) : r[i] = s[i], r[j] < s[j]
  PROVE  <<r, s>> \in RunOrder
<1>1. r[j] \in Nat /\ s[j] \in Nat
  BY DEF Ranks
<1>2. <<r[j], s[j]>> \in NatLess
  BY <1>1 DEF NatLess
<1> QED
  BY <1>2 DEF RunOrder, LexProductOrdering, Ranks

LEMMA RankIsRanked == EndInv => Rank \in Ranks
<1> SUFFICES ASSUME EndInv PROVE Rank \in Ranks
  OBVIOUS
<1>1. TypeOK /\ todo \in Seq(Words)
  BY DEF EndInv, RowInv, ClockRuns
<1>2. ToGo[pc] \in Nat /\ Clocks \in Nat
  BY <1>1 DEF ToGo, Clocks, TypeOK, Early, Loop, Late
<1>3. Whole - read \in Nat /\ Whole - buffered \in Nat
  BY <1>1, Numbers
<1>4. Len(todo) + (IF pc = "writing" THEN 1 ELSE 0) \in Nat
  BY <1>1
<1> QED
  BY <1>2, <1>3, <1>4 DEF Rank, Ranks

LEMMA LessIsLeft ==
  ASSUME NEW w \in Nat, NEW a \in Nat, NEW b \in Nat, a < b
  PROVE  w - b < w - a
  OBVIOUS

LEMMA PlacesToGo ==
  /\ ToGo["pinned"] = 5 /\ ToGo["connecting"] = 4
  /\ ToGo["reading"] = 3 /\ ToGo["writing"] = 3 /\ ToGo["collecting"] = 3
  /\ ToGo["closing"] = 2 /\ ToGo["leaving"] = 1 /\ ToGo["done"] = 0
  BY DEF ToGo, Early, Loop, Late

(* Every step of the handler and every clock that fires or stops comes     *)
(* nearer to the end, whatever the upstream and the client do in between.  *)
LEMMA StepsDescend ==
  ASSUME EndInv, EndInv', Rank \in Ranks, Rank' \in Ranks,
         Handler \/ Fire \/ TotalTimeout \/ End \/ Cut
  PROVE  <<Rank', Rank>> \in RunOrder
<1> DEFINE r == Rank'
           s == Rank
           inWrite == IF pc = "writing" THEN 1 ELSE 0
<1>1. r \in Ranks /\ s \in Ranks
  OBVIOUS
<1>2. /\ s[1] = ToGo[pc] /\ s[2] = Whole - read /\ s[3] = Len(todo) + inWrite
      /\ s[4] = Whole - buffered /\ s[5] = Clocks
      /\ r[1] = ToGo[pc'] /\ r[2] = Whole' - read' /\ r[3] = Len(todo') + inWrite'
      /\ r[4] = Whole' - buffered' /\ r[5] = Clocks'
  BY DEF Rank
<1>3. call' = call /\ Whole' = Whole
  <2>1. call' = call
    BY DEF Handler, Connect, Accepted, Unreachable, Rebind, Refused, Relay, Fill, ReadFails, Forward,
           Translate, NextLine, Finish, Collect, ReadAll, ReadAllFails, Write, Return, Fire,
           TotalTimeout, End, Cut, network
  <2> QED
    BY <2>1 DEF Whole
<1>4. /\ TypeOK /\ TypeOK' /\ todo \in Seq(Words) /\ Whole \in Nat
      /\ read \in Nat /\ read' \in Nat /\ buffered \in Nat /\ buffered' \in Nat
      /\ pc = "collecting" => conn # "none"
  <2>1. TypeOK /\ TypeOK' /\ todo \in Seq(Words) /\ (pc = "collecting" => conn # "none")
    BY DEF EndInv, RowInv, ClockRuns
  <2>2. Whole \in Nat /\ read \in Nat /\ buffered \in Nat
    BY <2>1, Numbers
  <2>3. read' \in Nat /\ buffered' \in Nat
    BY <2>1, <2>2, <1>3 DEF TypeOK
  <2> QED
    BY <2>1, <2>2, <2>3
<1> SUFFICES <<r, s>> \in RunOrder
  OBVIOUS
<1> HIDE DEF r, s
<1>5. ASSUME ToGo[pc'] < ToGo[pc] PROVE <<r, s>> \in RunOrder
  <2>1. r[1] < s[1] /\ 1 \in 1..5 /\ \A i \in 1..(1 - 1) : r[i] = s[i]
    BY <1>2, <1>5
  <2> QED
    BY <1>1, <2>1, Lowered
<1>6. ASSUME ToGo[pc'] = ToGo[pc], read' = read + 1 PROVE <<r, s>> \in RunOrder
  <2>1. r[2] < s[2] /\ 2 \in 1..5 /\ \A i \in 1..(2 - 1) : r[i] = s[i]
    BY <1>2, <1>4, <1>3, <1>6
  <2> QED
    BY <1>1, <2>1, Lowered
<1>7. ASSUME ToGo[pc'] = ToGo[pc], read' = read, Len(todo') + inWrite' < Len(todo) + inWrite
      PROVE  <<r, s>> \in RunOrder
  <2>1. r[3] < s[3] /\ 3 \in 1..5 /\ \A i \in 1..(3 - 1) : r[i] = s[i]
    BY <1>2, <1>3, <1>7
  <2> QED
    BY <1>1, <2>1, Lowered
<1>8. ASSUME pc' = pc, read' = read, todo' = todo, buffered < buffered'
      PROVE  <<r, s>> \in RunOrder
  <2>0. Whole - buffered' < Whole - buffered
    <3>1. Whole \in Nat /\ buffered \in Nat /\ buffered' \in Nat
      BY <1>4
    <3>2. buffered < buffered'
      BY <1>8
    <3> QED
      BY <3>1, <3>2, LessIsLeft
  <2>1. r[4] < s[4]
    BY <1>2, <1>3, <2>0
  <2>2. r[1] = s[1] /\ r[2] = s[2] /\ r[3] = s[3]
    BY <1>2, <1>3, <1>8
  <2>3. 4 \in 1..5 /\ \A i \in 1..(4 - 1) : r[i] = s[i]
    BY <2>2
  <2> QED
    BY <1>1, <2>1, <2>3, Lowered
<1>9. ASSUME pc' = pc, read' = read, todo' = todo, buffered' = buffered, Clocks' < Clocks
      PROVE  <<r, s>> \in RunOrder
  <2>1. r[5] < s[5] /\ 5 \in 1..5 /\ \A i \in 1..(5 - 1) : r[i] = s[i]
    BY <1>2, <1>3, <1>9
  <2> QED
    BY <1>1, <2>1, Lowered
<1>10. CASE Connect \/ ReadFails \/ Finish \/ Collect \/ Return
  <2>1. \/ pc = "pinned" /\ pc' \in {"connecting", "reading", "collecting", "leaving"}
        \/ pc = "connecting" /\ pc' \in {"reading", "collecting", "leaving"}
        \/ pc = "reading" /\ pc' = "closing"
        \/ pc = "collecting" /\ pc' = "leaving"
        \/ pc = "closing" /\ pc' = "leaving"
        \/ pc = "leaving" /\ pc' = "done"
    BY <1>10 DEF Connect, Asking, Accepted, Unreachable, Rebind, Refused, ReadFails, Finish,
                 Collect, ReadAll, ReadAllFails, Return
  <2>2. ToGo[pc'] < ToGo[pc]
    BY <2>1, PlacesToGo
  <2> QED
    BY <1>5, <2>2
<1>11. CASE Forward \/ Translate
  <2>1. pc = "reading" /\ pc' = "writing" /\ read' = read + 1
    BY <1>11 DEF Forward, Translate
  <2>2. ToGo[pc'] = ToGo[pc]
    BY <2>1, PlacesToGo
  <2> QED
    BY <1>6, <2>1, <2>2
<1>12. CASE Write
  <2>1. todo # << >> /\ todo' = Tail(todo) /\ pc' = pc /\ read' = read
    BY <1>12 DEF Write
  <2>2. Len(todo') = Len(todo) - 1 /\ Len(todo) \in Nat
    BY <1>4, <2>1, HeadTailProperties
  <2>3. Len(todo') + inWrite' < Len(todo) + inWrite
    BY <2>1, <2>2
  <2> QED
    BY <1>7, <2>1, <2>3
<1>13. CASE NextLine
  <2>1. pc = "writing" /\ pc' \in {"closing", "reading"} /\ read' = read /\ todo' = todo /\ todo = << >>
    BY <1>13 DEF NextLine
  <2>2. CASE pc' = "closing"
    BY <1>5, <2>1, <2>2, PlacesToGo
  <2>3. CASE pc' = "reading"
    <3>1. ToGo[pc'] = ToGo[pc]
      BY <2>1, <2>3, PlacesToGo
    <3>2. Len(todo') + inWrite' < Len(todo) + inWrite
      BY <2>1, <2>3
    <3> QED
      BY <1>7, <2>1, <3>1, <3>2
  <2> QED
    BY <2>1, <2>2, <2>3
<1>14. CASE Fill
  BY <1>4, <1>8, <1>14 DEF Fill
<1>15. CASE Fire \/ TotalTimeout \/ End \/ Cut
  <2>1. /\ pc' = pc /\ read' = read /\ todo' = todo /\ buffered' = buffered
        /\ \/ watchdog = "armed" /\ watchdog' = "fired" /\ conn' = conn
           \/ watchdog' = watchdog /\ conn = "open" /\ conn' \in {"cut", "ended"}
    BY <1>15 DEF Fire, TotalTimeout, End, Cut, network
  <2>2. Clocks' < Clocks
    BY <2>1 DEF Clocks
  <2> QED
    BY <1>9, <2>1, <2>2
<1> QED
  BY <1>10, <1>11, <1>12, <1>13, <1>14, <1>15 DEF Handler, Relay

(* The rest of the world brings a request no further and throws it no way  *)
(* back.                                                                   *)
OutsideSteps == Send \/ Stall \/ Resume \/ Leave

LEMMA OutsideStepsChangeNothing ==
  ASSUME OutsideSteps
  PROVE  /\ pc' = pc /\ read' = read /\ todo' = todo /\ buffered' = buffered
         /\ watchdog' = watchdog /\ conn' = conn /\ Rank' = Rank
<1>1. /\ call' = call /\ pc' = pc /\ read' = read /\ todo' = todo /\ buffered' = buffered
      /\ watchdog' = watchdog /\ conn' = conn
  BY DEF OutsideSteps, Send, Stall, Resume, Leave, network
<1>2. Whole' = Whole /\ Clocks' = Clocks
  BY <1>1 DEF Whole, Clocks
<1>3. Rank' = Rank
  BY <1>1, <1>2 DEF Rank
<1> QED
  BY <1>1, <1>3

(* The safety half of StreamsEnd: the loop, its two writers of the end, the*)
(* watchdog and the timeout each bring a request nearer to its end by an   *)
(* order without an infinite descent, and nothing that the upstream or the *)
(* client does takes it back: a reply is given up or told, never repeated. *)
THEOREM TheRelayAdvances ==
  /\ IsWellFoundedOn(RunOrder, Ranks)
  /\ Spec => [](Rank \in Ranks)
  /\ Spec => [][(OutsideSteps /\ Rank' = Rank) \/ <<Rank', Rank>> \in RunOrder]_vars
<1> DEFINE A == (OutsideSteps /\ Rank' = Rank) \/ <<Rank', Rank>> \in RunOrder
<1>1. EndInv' => (Rank \in Ranks)'
  BY RankIsRanked, PTL
<1>2. EndInv /\ EndInv' /\ [Next]_vars => [A]_vars
  BY <1>1, RankIsRanked, StepsDescend, OutsideStepsChangeNothing
     DEF Next, Environment, OutsideSteps
<1>3. Spec => [](Rank \in Ranks) /\ [][A]_vars
  BY <1>2, RankIsRanked, EndInvHolds, PTL DEF Spec
<1> QED
  BY <1>3, RunOrderIsWellFounded

(* StreamsEnd itself, one rank at a time.  At each place it is either the  *)
(* handler that can go on, or the watchdog, or the total timeout; only a   *)
(* client whose window stays full holds the handler up.  That ENABLED is   *)
(* what the guards say is assumed, as is usual here; the induction from    *)
(* each rank to the end is one over temporal formulas.                     *)
Silent == pc = "reading" /\ read = buffered /\ watchdog = "armed"
Pending == pc = "collecting" /\ conn = "open"
Served == ~Done /\ ~Silent /\ ~Pending

SomebodyCanStep ==
  /\ Served /\ client # "stalled" => ENABLED <<Handler>>_vars
  /\ Silent => ENABLED <<Fire>>_vars
  /\ Pending => ENABLED <<TotalTimeout>>_vars

THEOREM EveryRankOfAReplyIsLeft ==
  ASSUME NEW r \in Ranks
  PROVE  FairSpec /\ []SomebodyCanStep /\ <>[](client # "stalled") =>
           (~Done /\ Rank = r ~> <<Rank, r>> \in RunOrder)
<1> DEFINE Stays == ~Done /\ Rank = r
           Serving == Stays /\ Served
           Waiting == Stays /\ Silent
           Collecting == Stays /\ Pending
           Takes == client # "stalled"
           Lower == <<Rank, r>> \in RunOrder
<1>1. Stays => Serving \/ Waiting \/ Collecting
  BY DEF Served
<1>2. SomebodyCanStep => /\ Serving /\ Takes => ENABLED <<Handler>>_vars
                         /\ Waiting => ENABLED <<Fire>>_vars
                         /\ Collecting => ENABLED <<TotalTimeout>>_vars
  BY DEF SomebodyCanStep
<1>3. ASSUME EndInv, EndInv', Stays, Handler \/ Fire \/ TotalTimeout \/ End \/ Cut PROVE Lower'
  <2>1. EndInv' => (Rank \in Ranks)'
    BY RankIsRanked, PTL
  <2>2. <<Rank', Rank>> \in RunOrder
    BY <1>3, <2>1, RankIsRanked, StepsDescend
  <2>3. Rank = r
    BY <1>3
  <2>4. <<Rank', r>> \in RunOrder
    BY <2>2, <2>3, Zenon
  <2> QED
    BY <2>4
<1>4. ASSUME Stays, OutsideSteps \/ UNCHANGED vars
      PROVE  Stays' /\ (Served' <=> Served) /\ (Silent' <=> Silent) /\ (Pending' <=> Pending)
  <2>1. /\ pc' = pc /\ read' = read /\ todo' = todo /\ buffered' = buffered
        /\ watchdog' = watchdog /\ conn' = conn /\ Rank' = Rank
    <3>1. CASE UNCHANGED vars
      BY <3>1 DEF vars, Rank, Whole, Clocks
    <3> QED
      BY <1>4, <3>1, OutsideStepsChangeNothing
  <2> QED
    BY <1>4, <2>1 DEF Served, Silent, Pending, Done
<1>5. EndInv /\ EndInv' /\ Serving /\ [Next]_vars => Lower' \/ (Serving' /\ ~<<Handler>>_vars)
  BY <1>3, <1>4 DEF Next, Environment, OutsideSteps
<1>6. EndInv /\ EndInv' /\ Waiting /\ [Next]_vars => Lower' \/ (Waiting' /\ ~<<Fire>>_vars)
  BY <1>3, <1>4 DEF Next, Environment, OutsideSteps
<1>7. EndInv /\ EndInv' /\ Collecting /\ [Next]_vars =>
        Lower' \/ (Collecting' /\ ~<<TotalTimeout>>_vars)
  BY <1>3, <1>4 DEF Next, Environment, OutsideSteps
<1> HIDE DEF Stays, Serving, Waiting, Collecting, Takes, Lower
<1>8. FairSpec /\ []SomebodyCanStep /\ <>[]Takes => (Stays ~> Lower)
  BY <1>1, <1>2, <1>5, <1>6, <1>7, EndInvHolds, PTL DEF FairSpec, Spec
<1> QED
  BY <1>8, PTL DEF Stays, Takes, Lower

=============================================================================
