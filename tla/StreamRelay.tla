---------------------------- MODULE StreamRelay ----------------------------
(***************************************************************************)
(* One reply of an upstream on its way to a client (proxy/handler.go): the *)
(* four proxyXToY handlers, their read loops, the idle watchdog that       *)
(* closes a silent upstream, the row of the request and the frames the     *)
(* client gets.  "openai" and "anthropic" forward the upstream's lines,    *)
(* "toOpenAI" and "toAnthropic" translate them.                            *)
(*                                                                         *)
(* A line has lived in two places before it is handled: the connection,    *)
(* which loses it when the body is closed, and the reader's buffer, which  *)
(* does not.                                                               *)
(***************************************************************************)
EXTENDS Naturals, Sequences, SequencesExt, FiniteSetsExt

CONSTANTS
  Calls   \* the requests: [dialect, streams, pinned, showsMeta, reply]

Dialects == {"openai", "anthropic", "toOpenAI", "toAnthropic"}
Counts == {"in", "read", "write", "out"}
Line == [says : {"role", "text", "nothing", "totals", "terminal"},
         stops : BOOLEAN, counts : SUBSET Counts]

ASSUME CallsAssumption ==
  Calls \subseteq [dialect : Dialects, streams : BOOLEAN, pinned : BOOLEAN,
                   showsMeta : BOOLEAN, reply : Seq(Line)]

VARIABLES
  call,       \* the request
  conn,       \* the upstream's connection: "none", "open", "ended" or "cut"
  sent,       \* lines of the reply the upstream has sent
  buffered,   \* lines the reader has taken off the connection
  read,       \* lines handled
  watchdog,   \* "off", "armed" or "fired"
  client,     \* "there", "stalled" (its window is full) or "left"
  pc,         \* where the handler is
  complete,   \* normalClose
  usage,      \* the counts the tracker has seen
  rows,       \* what saveRequestLog got
  todo,       \* frames still to be written
  frames      \* frames the client got

vars == <<call, conn, sent, buffered, read, watchdog, client, pc,
          complete, usage, rows, todo, frames>>
network == <<call, conn, sent>>
answer == <<complete, usage, rows>>

Forwards == call.dialect \in {"openai", "anthropic"}
Whole == Len(call.reply)

Init ==
  /\ call \in Calls
  /\ conn = "none" /\ sent = 0 /\ buffered = 0 /\ read = 0
  /\ watchdog = "off" /\ client = "there"
  /\ pc = IF call.pinned THEN "pinned" ELSE "connecting"
  /\ complete = FALSE /\ usage = {} /\ rows = << >>
  /\ todo = << >> /\ frames = << >>

-----------------------------------------------------------------------------
(* What a line means to a dialect.                                         *)

(* toAnthropic looks for the end last: a line that also carries a role or  *)
(* text is not seen to end anything.                                       *)
EndsReply(dialect, line) ==
  IF dialect = "toAnthropic"
  THEN line.stops /\ line.says = "nothing"
  ELSE line.says = "terminal"

(* What the upstreams' protocols say of a reply's end: the terminal line   *)
(* is the last, and no text follows the line that ends it for toAnthropic. *)
RepliesEndOnce ==
  \A c \in Calls : \A i \in DOMAIN c.reply :
    EndsReply(c.dialect, c.reply[i]) =>
      \A j \in i + 1 .. Len(c.reply) :
        c.dialect = "toAnthropic" /\ c.reply[j].says # "text"

(* Variant: the usage of message_start is ignored.                         *)
TrackedWithoutStart(dialect, line) == IF line.says = "role" THEN {} ELSE line.counts

(* What the tracker takes from a line: the forwarding of Anthropic lines   *)
(* reads the cache writes of message_delta alone.                          *)
Tracked(dialect, line) ==
  IF dialect = "anthropic" /\ line.says = "role"
  THEN line.counts \ {"write"}
  ELSE line.counts

(* What the client gets for a line.                                        *)
Translated(line) ==
  CASE line.says \in {"role", "text"} -> <<line.says>>
    [] line.says = "nothing" /\ line.stops -> <<"finish">>
    [] line.says = "terminal" /\ call.dialect = "toOpenAI" -> <<"totals">>
    [] OTHER -> << >>

Frames(line) ==
  IF Forwards
  THEN <<IF line.says = "nothing" THEN "finish" ELSE line.says>>
  ELSE Translated(line)

-----------------------------------------------------------------------------
(* The row of the request.                                                 *)

NeverLogged == FALSE   \* variant: finish is not idempotent

Logged == rows # << >>

Outcome(whole) ==
  CASE whole -> "ok"
    [] ~whole /\ watchdog = "fired" -> "timedOut"
    [] ~whole /\ watchdog # "fired" /\ client = "left" -> "cancelled"
    [] OTHER -> "failed"

ChargedAnyway(whole, counts) == counts   \* variant: setStreamOutcome keeps the cost

(* A reply without usage is charged by estimate on the openai route; a row *)
(* that is not ok costs nothing.                                           *)
Charged(whole, counts) ==
  IF ~whole THEN {}
  ELSE IF call.dialect = "openai" /\ counts = {} THEN {"estimate"}
  ELSE counts

Row(whole, counts) == [outcome |-> Outcome(whole), charged |-> Charged(whole, counts)]
Failure(outcome) == [outcome |-> outcome, charged |-> {}]
Meta == IF call.showsMeta THEN <<"meta">> ELSE << >>

-----------------------------------------------------------------------------
(* Asking the upstream.                                                    *)

Asking == pc \in {"pinned", "connecting"}

Accepted ==
  /\ Asking
  /\ conn' = "open"
  /\ pc' = IF call.streams THEN "reading" ELSE "collecting"
  /\ watchdog' = IF call.streams THEN "armed" ELSE "off"
  /\ UNCHANGED <<call, sent, buffered, read, client, answer, todo, frames>>

(* httpClient.Do fails: logAndWriteError, which reads the status off the   *)
(* message and the request's context.                                      *)
Unreachable ==
  /\ Asking
  /\ \E o \in IF client = "left" THEN {"cancelled", "timedOut"} ELSE {"failed", "timedOut"} :
       rows' = Append(rows, Failure(o))
  /\ todo' = <<"refusal">> /\ pc' = "leaving"
  /\ UNCHANGED <<network, buffered, read, watchdog, client, complete, usage, frames>>

(* A status of 400 or more: a pinned route is unpinned and asked once      *)
(* more, any other refusal is passed on.                                   *)
Rebind ==
  /\ pc = "pinned"
  /\ pc' = "connecting"
  /\ UNCHANGED <<network, buffered, read, watchdog, client, answer, todo, frames>>

Refused ==
  /\ pc = "connecting"
  /\ rows' = Append(rows, Failure("refused"))
  /\ todo' = <<"refusal">> /\ pc' = "leaving"
  /\ UNCHANGED <<network, buffered, read, watchdog, client, complete, usage, frames>>

-----------------------------------------------------------------------------
(* The read loops.                                                         *)

BodyOpen == watchdog # "fired"

(* ReadString takes what the connection has...                             *)
Fill ==
  /\ pc = "reading" /\ read = buffered
  /\ BodyOpen /\ sent > buffered
  /\ buffered' \in buffered + 1 .. sent
  /\ UNCHANGED <<network, read, watchdog, client, pc, answer, todo, frames>>

(* ...or fails: the loop is left.                                          *)
ReadFails ==
  /\ pc = "reading" /\ read = buffered
  /\ \/ ~BodyOpen
     \/ conn = "cut"
     \/ client = "left"
     \/ conn = "ended" /\ sent = buffered
  /\ pc' = "closing"
  /\ todo' = IF complete THEN << >> ELSE <<"error">>
  /\ UNCHANGED <<network, buffered, read, watchdog, client, answer, frames>>

MetaLast(line) == Frames(line) \o Meta   \* variant: the row is shown after the end

(* The frames of the terminal line of a forwarded reply.                   *)
MetaFirst(line) == Meta \o Frames(line)

(* A line of a forwarded reply.  finish comes before the terminal line is  *)
(* passed on, and the loop reads on to the end of the body.                *)
Forward ==
  /\ pc = "reading" /\ Forwards /\ read < buffered
  /\ LET line == call.reply[read + 1]
         counts == usage \cup Tracked(call.dialect, line)
         ends == EndsReply(call.dialect, line)
     IN /\ usage' = counts
        /\ complete' = (complete \/ ends)
        /\ rows' = IF ends /\ ~Logged THEN Append(rows, Row(TRUE, counts)) ELSE rows
        /\ todo' = IF ends /\ ~Logged THEN MetaFirst(line) ELSE Frames(line)
  /\ read' = read + 1 /\ pc' = "writing"
  /\ UNCHANGED <<network, buffered, watchdog, client, frames>>

(* A line of a translated reply.                                           *)
Translate ==
  /\ pc = "reading" /\ ~Forwards /\ read < buffered
  /\ LET line == call.reply[read + 1]
     IN /\ usage' = usage \cup Tracked(call.dialect, line)
        /\ complete' = EndsReply(call.dialect, line)
        /\ todo' = Frames(line)
  /\ read' = read + 1 /\ pc' = "writing"
  /\ UNCHANGED <<network, buffered, watchdog, client, rows, frames>>

(* A write blocks while the client's window is full and goes nowhere once  *)
(* the client has left.                                                    *)
Write ==
  /\ todo # << >> /\ client # "stalled"
  /\ frames' = IF client = "there" THEN Append(frames, Head(todo)) ELSE frames
  /\ todo' = Tail(todo)
  /\ UNCHANGED <<network, buffered, read, watchdog, client, pc, answer>>

(* The line is handled: a translated reply that has ended leaves the loop. *)
NextLine ==
  /\ pc = "writing" /\ todo = << >>
  /\ pc' = IF ~Forwards /\ complete THEN "closing" ELSE "reading"
  /\ UNCHANGED <<network, buffered, read, watchdog, client, answer, todo, frames>>

(* finish after the loop; a translated reply gets its terminal frame last. *)
AlwaysTerminal == IF Forwards THEN << >> ELSE <<"terminal">>   \* variant

Ending == IF ~Forwards /\ complete THEN <<"terminal">> ELSE << >>

Finish ==
  /\ pc = "closing" /\ todo = << >>
  /\ rows' = IF Logged THEN rows ELSE Append(rows, Row(complete, usage))
  /\ todo' = IF Logged THEN << >> ELSE Meta \o Ending
  /\ pc' = "leaving"
  /\ UNCHANGED <<network, buffered, read, watchdog, client, complete, usage, frames>>

(* A reply that is not streamed is read whole.                             *)
ReadAll ==
  /\ pc = "collecting" /\ conn = "ended"
  /\ read' = sent /\ buffered' = sent /\ complete' = TRUE
  /\ LET counts == UNION {call.reply[i].counts : i \in 1 .. sent}
     IN usage' = counts /\ rows' = Append(rows, Row(TRUE, counts))
  /\ todo' = <<"reply">> /\ pc' = "leaving"
  /\ UNCHANGED <<network, watchdog, client, frames>>

(* Only the openai route looks at the error of ReadAll: the others answer  *)
(* 200 with what decodes of a broken body, which is nothing.               *)
ReadAllFails ==
  /\ pc = "collecting" /\ (conn = "cut" \/ client = "left")
  /\ IF call.dialect = "openai"
     THEN /\ rows' = Append(rows, Failure(IF client = "left" THEN "cancelled" ELSE "failed"))
          /\ todo' = <<"refusal">>
     ELSE rows' = Append(rows, Row(TRUE, {})) /\ todo' = <<"reply">>
  /\ pc' = "leaving"
  /\ UNCHANGED <<network, buffered, read, watchdog, client, complete, usage, frames>>

Return ==
  /\ pc = "leaving" /\ todo = << >>
  /\ pc' = "done" /\ watchdog' = "off"
  /\ UNCHANGED <<network, buffered, read, client, answer, todo, frames>>

-----------------------------------------------------------------------------
(* The upstream, the client and the clocks.                                *)

Send ==
  /\ conn = "open" /\ pc # "done" /\ sent < Whole
  /\ sent' = sent + 1
  /\ UNCHANGED <<call, conn, buffered, read, watchdog, client, pc, answer, todo, frames>>

End ==
  /\ conn = "open" /\ pc # "done" /\ sent = Whole
  /\ conn' = "ended"
  /\ UNCHANGED <<call, sent, buffered, read, watchdog, client, pc, answer, todo, frames>>

(* The connection breaks, or the client's total timeout is over.           *)
Cut ==
  /\ conn = "open" /\ pc # "done"
  /\ conn' = "cut"
  /\ UNCHANGED <<call, sent, buffered, read, watchdog, client, pc, answer, todo, frames>>

(* The total timeout of httpClient, for which a reply that is not streamed *)
(* has no watchdog.                                                        *)
TotalTimeout ==
  /\ conn = "open" /\ pc = "collecting"
  /\ conn' = "cut"
  /\ UNCHANGED <<call, sent, buffered, read, watchdog, client, pc, answer, todo, frames>>

IdleBeforeFirstLine == pc = "reading" /\ buffered = 0   \* variant: stop for reset

(* No line for streamIdleTimeout: the upstream is silent, or the handler   *)
(* is blocked in a write.                                                  *)
Idle ==
  \/ pc = "reading" /\ read = buffered
  \/ todo # << >> /\ client = "stalled"

Fire ==
  /\ watchdog = "armed" /\ Idle
  /\ watchdog' = "fired"
  /\ UNCHANGED <<network, buffered, read, client, pc, answer, todo, frames>>

Stall ==
  /\ client = "there" /\ pc # "done"
  /\ client' = "stalled"
  /\ UNCHANGED <<network, buffered, read, watchdog, pc, answer, todo, frames>>

Resume ==
  /\ client = "stalled"
  /\ client' = "there"
  /\ UNCHANGED <<network, buffered, read, watchdog, pc, answer, todo, frames>>

Leave ==
  /\ client # "left" /\ pc # "done"
  /\ client' = "left"
  /\ UNCHANGED <<network, buffered, read, watchdog, pc, answer, todo, frames>>

-----------------------------------------------------------------------------

Connect == Accepted \/ Unreachable \/ Rebind \/ Refused
Relay == Fill \/ ReadFails \/ Forward \/ Translate \/ NextLine \/ Finish
Collect == ReadAll \/ ReadAllFails
Handler == Connect \/ Relay \/ Collect \/ Write \/ Return
Environment == Send \/ End \/ Cut \/ Stall \/ Resume \/ Leave

Next == Handler \/ Environment \/ Fire \/ TotalTimeout

Spec == Init /\ [][Next]_vars

(* The handler runs, the timers fire; nothing is promised of the upstream  *)
(* or of the client.                                                       *)
FairSpec ==
  /\ Spec
  /\ WF_vars(Handler) /\ WF_vars(Fire) /\ WF_vars(TotalTimeout)

-----------------------------------------------------------------------------

TypeOK ==
  /\ call \in Calls
  /\ conn \in {"none", "open", "ended", "cut"}
  /\ sent \in 0 .. Whole /\ buffered \in 0 .. sent /\ read \in 0 .. buffered
  /\ watchdog \in {"off", "armed", "fired"}
  /\ client \in {"there", "stalled", "left"}
  /\ pc \in {"pinned", "connecting", "reading", "collecting", "writing",
             "closing", "leaving", "done"}
  /\ complete \in BOOLEAN /\ usage \subseteq Counts
  /\ rows \in Seq([outcome : {"ok", "failed", "timedOut", "cancelled", "refused"},
                   charged : SUBSET (Counts \cup {"estimate"})])

Done == pc = "done"
Succeeded == rows # << >> /\ rows[1].outcome = "ok"
Saying(what) == {i \in DOMAIN frames : frames[i] = what}
Answered == Done /\ client = "there"

(* Whether it ends in the loop, after it or before the first byte, and     *)
(* whoever breaks it, a request leaves one row (finish, logAndWriteError). *)
BilledOnce ==
  /\ Len(rows) <= 1
  /\ Done => Len(rows) = 1

(* "a data frame after [DONE] violates SSE/OpenAI stream semantics"        *)
(* (handler.go:1356-1357): nothing follows the terminal frame, and an app  *)
(* that shows the row has been sent it by then.                            *)
TerminalComesLast ==
  \A i \in Saying("terminal") :
    /\ i = Len(frames)
    /\ call.showsMeta => Cardinality(Saying("meta")) = 1

(* A client that stays learns how its reply ended, once, and it learns     *)
(* what the row says.                                                      *)
ClientsLearnTheEnd ==
  Answered =>
    LET good == Saying("terminal") \cup Saying("reply")
        bad == Saying("error") \cup Saying("refusal")
    IN /\ Cardinality(good \cup bad) = 1
       /\ (good # {}) <=> Succeeded

(* A reply that is charged, and one that the row calls ok, has reached the *)
(* client that waited for it with all its text; the routes that ignore the *)
(* error of ReadAll keep only the first half.                              *)
TextLines == {i \in 1 .. Whole : call.reply[i].says = "text"}
Answers == Cardinality(Saying("text")) = Cardinality(TextLines) \/ Saying("reply") # {}

WholeRepliesAreCharged ==
  /\ rows # << >> /\ rows[1].charged # {} => \A i \in TextLines : i <= read
  /\ Answered /\ Succeeded => Answers

(* The row of an ok reply charges the usage the upstream reported.         *)
(* (Not kept: README.md.)                                                  *)
Reported == UNION {call.reply[i].counts : i \in 1 .. Whole}
UsageIsBilled == Succeeded /\ Reported # {} => rows[1].charged = Reported

(* It is kept where the upstream's usage comes before the line that ends   *)
(* the reply for the handler.                                              *)
ReportedUsageIsCharged ==
  \/ call.dialect \in {"anthropic", "toAnthropic"}
  \/ call.dialect = "toOpenAI" /\ ~call.streams
  \/ UsageIsBilled

(* A request ends unless its client never again takes a byte: "Per-stream  *)
(* stall detection lives in proxy's upstream client" (main.go:235-236).    *)
StreamsEnd == <>[](client # "stalled") => <>Done

=============================================================================
