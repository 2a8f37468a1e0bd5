------------------------------ MODULE AgentLoop ------------------------------
(***************************************************************************)
(* The tool loop MuhiyaChat may run inside the gateway (proxy/agent.go,    *)
(* tools.go, websearch.go): upstream turns whose tool calls arrive in      *)
(* fragments, web searches that fall back from provider to provider, one   *)
(* row for the whole run, one event stream to the client.  Gateway has the *)
(* guard, the quote and the settlement of the run.                         *)
(*                                                                         *)
(* Of the conversation the model keeps the last round: the calls of the    *)
(* latest assistant message and the tool messages after it.  Of the events *)
(* it keeps those that do not accompany a delta or a call.                 *)
(***************************************************************************)
EXTENDS Naturals, Sequences, SequencesExt, FiniteSetsExt

CONSTANTS
  Requests,       \* [compat, wants, app, streams, ownTools, upstream, keys, ddg]
  Names,          \* names in tool calls, NoName for a call that gets none
  NoName,
  NoIndex,        \* a fragment without an index
  MaxIterations,  \* maxAgentIterations
  MaxCalls,       \* bound on the calls of a turn
  MaxPieces,      \* bound on the fragments of a call
  MaxHits,        \* bound on the usable results of a provider
  PromptTokens    \* the estimate made before the run

Setting == {"unset", "on", "off"}

(* compat is ENABLE_GATEWAY_AGENT_LOOP, wants the body's web_search, keys  *)
(* the search keys that the settings or else the environment hold, ddg     *)
(* what each of the two says of the fallback.                              *)
ASSUME AgentAssumption ==
  /\ Requests \subseteq
       [compat : BOOLEAN, wants : {"unset", "yes", "no"}, app : {"MuhiyaChat", "other"},
        streams : BOOLEAN, ownTools : BOOLEAN, upstream : {"openai", "anthropic", "none"},
        keys : SUBSET {"tavily", "serper"}, ddg : [db : Setting, env : Setting]]
  /\ NoName \in Names /\ NoIndex \notin Nat
  /\ {MaxIterations, MaxCalls, MaxPieces, MaxHits, PromptTokens} \subseteq Nat \ {0}

VARIABLES
  request,
  pc,
  iter,         \* turns done
  turn,         \* what the upstream has sent of this turn: see NoTurn
  accum,        \* toolCallAccumulator
  asked,        \* the calls of the last assistant message
  todo,         \* positions in asked of the calls not yet executed
  answered,     \* positions in asked the tool messages after it answer
  hasSearched,
  left,         \* providers this search has not tried
  tried,        \* history: the providers it has tried
  limit,        \* MaxResults of the search, 0 outside one
  shown,        \* sources in the latest sources event
  tokens,       \* totalInput and totalOutput
  streamError,
  client,       \* "there", "stalled" or "left"
  rows,         \* what saveRequestLog got
  frames        \* events written to the client

vars == <<request, pc, iter, turn, accum, asked, todo, answered, hasSearched, left, tried,
          limit, shown, tokens, streamError, client, rows, frames>>
round == <<asked, todo, answered>>
search == <<hasSearched, left, tried, limit, shown>>
reply == <<rows, frames>>

(* calls are the tool calls the upstream means, in the order it begins     *)
(* them, with the number of fragments sent of each; indexed says whether   *)
(* it numbers them.                                                        *)
NoTurn == [indexed |-> TRUE, calls |-> <<>>, usage |-> 0, whole |-> FALSE]
NoCalls == [order |-> <<>>, bufs |-> <<>>, next |-> 0]

Init ==
  /\ request \in Requests
  /\ pc = "routing" /\ iter = 0 /\ turn = NoTurn /\ accum = NoCalls
  /\ asked = <<>> /\ todo = <<>> /\ answered = <<>>
  /\ hasSearched = FALSE /\ left = {} /\ tried = {}
  /\ limit = 0 /\ shown = 0
  /\ tokens = 0 /\ streamError = FALSE /\ client = "there"
  /\ rows = <<>> /\ frames = <<>>

-----------------------------------------------------------------------------
(* Settings and admission *)

(* DDGFallback: on unless the settings, or else the environment, say no.   *)
Fallback(r) == (IF r.ddg.db # "unset" THEN r.ddg.db ELSE r.ddg.env) # "off"

(* The providers that are configured, and the first of some in the order   *)
(* in which RunWebSearch asks them.                                        *)
Chain(r) == r.keys \cup (IF Fallback(r) THEN {"ddg"} ELSE {})

First(providers) ==
  CASE "tavily" \in providers -> "tavily"
    [] "tavily" \notin providers /\ "serper" \in providers -> "serper"
    [] OTHER -> "ddg"

ToolsEnabled(r) == Chain(r) # {}

ShouldRunAgentLoop(r) ==
  /\ r.compat /\ r.wants # "no"
  /\ r.app = "MuhiyaChat" /\ r.streams /\ ~r.ownTools
  /\ ToolsEnabled(r)

Row(status, n) == [status |-> status, tokens |-> n]

Route ==
  /\ pc = "routing"
  /\ pc' = IF ShouldRunAgentLoop(request) THEN "resolving" ELSE "proxied"
  /\ UNCHANGED <<request, iter, turn, accum, round, search, tokens, streamError, client, reply>>

(* resolveAgentModel: nothing is on record when the model or its provider  *)
(* is not there; a provider without a BaseURL leaves the run to the proxy. *)
Resolve ==
  /\ pc = "resolving"
  /\ \/ request.upstream = "none" /\ pc' = "ended" /\ frames' = <<"refusal">>
     \/ request.upstream = "anthropic" /\ pc' = "proxied" /\ UNCHANGED frames
     \/ request.upstream = "openai" /\ pc' = "admission" /\ UNCHANGED frames
  /\ UNCHANGED <<request, iter, turn, accum, round, search, tokens, streamError, client, rows>>

(* The limit and the guard refuse without a row, the quote with one.       *)
Refuse ==
  /\ pc = "admission"
  /\ pc' = "ended"
  /\ frames' = <<"refusal">>
  /\ rows' \in {<<>>, <<Row("refused", PromptTokens)>>}
  /\ UNCHANGED <<request, iter, turn, accum, round, search, tokens, streamError, client>>

Admit ==
  /\ pc = "admission"
  /\ pc' = "turn"
  /\ UNCHANGED <<request, iter, turn, accum, round, search, tokens, streamError, client, reply>>

-----------------------------------------------------------------------------
(* One upstream turn *)

(* No connection, or a status of 400 and above.                            *)
TurnFails ==
  /\ pc = "turn"
  /\ streamError' = TRUE
  /\ frames' = Append(frames, "error")
  /\ pc' = "finishing"
  /\ UNCHANGED <<request, iter, turn, accum, round, search, tokens, client, rows>>

(* The request carries the conversation; the last round is behind it.      *)
Connect ==
  /\ pc = "turn" /\ client # "left"
  /\ \E indexed \in BOOLEAN : turn' = [NoTurn EXCEPT !.indexed = indexed]
  /\ asked' = <<>> /\ answered' = <<>>
  /\ pc' = "reading"
  /\ UNCHANGED <<request, iter, accum, todo, search, tokens, streamError, client, reply>>

(* A fragment: its index, whether it carries an id or a name, the name.    *)
Fragment(index, heads, name) == [index |-> index, heads |-> heads, name |-> name]

(* Variant: a fragment without an index always opens a call.               *)
SlotAlwaysNext(a, f) == IF f.index # NoIndex THEN f.index ELSE a.next

(* The buffer a fragment belongs to: its index says, else a fragment with  *)
(* neither id nor name continues the latest call, and any other opens one. *)
Slot(a, f) ==
  CASE f.index # NoIndex -> f.index
    [] f.index = NoIndex /\ ~f.heads /\ a.order # <<>> -> Last(a.order)
    [] OTHER -> a.next

(* toolCallAccumulator.add; args counts the pieces of the arguments.       *)
Add(a, f) ==
  LET idx == Slot(a, f)
      known == idx \in DOMAIN a.bufs
      buf == IF known THEN a.bufs[idx] ELSE [name |-> NoName, args |-> 0]
      added == [name |-> IF f.name # NoName THEN f.name ELSE buf.name, args |-> buf.args + 1]
  IN  [order |-> IF known THEN a.order ELSE Append(a.order, idx),
       bufs |-> [i \in DOMAIN a.bufs \cup {idx} |-> IF i = idx THEN added ELSE a.bufs[i]],
       next |-> IF ~known /\ idx >= a.next THEN idx + 1 ELSE a.next]

(* The elements of a finite set of positions, in order; with them, what    *)
(* SelectSeq keeps of a sequence (which the prover knows nothing about).   *)
InOrder(positions) ==
  [n \in 1..Cardinality(positions) |->
     CHOOSE i \in positions : Cardinality({j \in positions : j <= i}) = n]

Named(calls) ==
  LET kept == InOrder({i \in DOMAIN calls : calls[i].name # NoName})
  IN  [n \in DOMAIN kept |-> calls[kept[n]]]

(* finalize: the calls that got a name, in the order they appeared.        *)
Finalize(a) == Named([i \in DOMAIN a.order |-> a.bufs[a.order[i]]])

(* The upstream begins a call.  An index is new in its turn, and not       *)
(* always the next one.                                                    *)
BeginCall(name, index) ==
  /\ pc = "reading" /\ Len(turn.calls) < MaxCalls
  /\ IF turn.indexed THEN index \in 0..MaxCalls /\ \A c \in Range(turn.calls) : c.index # index
     ELSE index = NoIndex
  /\ turn' = [turn EXCEPT !.calls = Append(@, [name |-> name, args |-> 1, index |-> index])]
  /\ accum' = Add(accum, Fragment(index, TRUE, name))
  /\ UNCHANGED <<request, pc, iter, round, search, tokens, streamError, client, reply>>

(* It sends another fragment: of any call if it numbers them.              *)
ContinueCall(k) ==
  /\ pc = "reading" /\ k \in DOMAIN turn.calls
  /\ turn.calls[k].args < MaxPieces
  /\ turn.indexed \/ k = Len(turn.calls)
  /\ turn' = [turn EXCEPT !.calls[k].args = @ + 1]
  /\ accum' = Add(accum, Fragment(turn.calls[k].index, FALSE, NoName))
  /\ UNCHANGED <<request, pc, iter, round, search, tokens, streamError, client, reply>>

ReportUsage ==
  /\ pc = "reading" /\ turn.usage = 0
  /\ turn' = [turn EXCEPT !.usage = 1]
  /\ UNCHANGED <<request, pc, iter, accum, round, search, tokens, streamError, client, reply>>

(* Variant: the watchdog is armed by the first line of the turn.           *)
TurnEndsOnceItSpoke ==
  /\ pc = "reading" /\ turn.calls # <<>>
  /\ turn' = [turn EXCEPT !.whole = FALSE]
  /\ tokens' = tokens + turn.usage /\ accum' = NoCalls
  /\ pc' = "finishing"
  /\ UNCHANGED <<request, iter, round, search, streamError, client, reply>>

(* [DONE], the end of the body, an error, the idle watchdog or the client's*)
(* departure: the loop breaks and returns what it has, without an error.   *)
TurnEnds ==
  /\ pc = "reading"
  /\ \E whole \in BOOLEAN : (whole => client # "left") /\ turn' = [turn EXCEPT !.whole = whole]
  /\ tokens' = tokens + turn.usage /\ accum' = NoCalls
  /\ LET calls == Finalize(accum)
         order == [i \in DOMAIN calls |-> i]
     IN  IF calls = <<>> THEN pc' = "finishing" /\ UNCHANGED round
         ELSE pc' = "executing" /\ asked' = calls /\ todo' = order /\ answered' = <<>>
  /\ UNCHANGED <<request, iter, search, streamError, client, reply>>

-----------------------------------------------------------------------------
(* The calls of a turn, in order *)

ToDo == asked[Head(todo)].name

(* The call at the head of todo has its tool message.                      *)
Answer ==
  /\ answered' = Append(answered, Head(todo))
  /\ todo' = Tail(todo)
  /\ UNCHANGED asked

(* Variant: the call is skipped and gets no message.                       *)
SkipSearch ==
  /\ pc = "executing" /\ todo # <<>>
  /\ ToDo = "web_search" /\ hasSearched
  /\ todo' = Tail(todo) /\ UNCHANGED <<asked, answered>>
  /\ UNCHANGED <<request, pc, iter, turn, accum, search, tokens, streamError, client, reply>>

DeclineSearch ==
  /\ pc = "executing" /\ todo # <<>>
  /\ ToDo = "web_search" /\ hasSearched
  /\ Answer
  /\ UNCHANGED <<request, pc, iter, turn, accum, search, tokens, streamError, client, reply>>

OtherTool ==
  /\ pc = "executing" /\ todo # <<>>
  /\ ToDo # "web_search"
  /\ Answer
  /\ UNCHANGED <<request, pc, iter, turn, accum, search, tokens, streamError, client, reply>>

(* RunWebSearch.  Arguments that do not parse leave no query.  limit is    *)
(* what clampSearchResults makes of maxResults.                            *)
StartSearch ==
  /\ pc = "executing" /\ todo # <<>>
  /\ ToDo = "web_search" /\ ~hasSearched
  /\ hasSearched' = TRUE
  /\ \/ Answer /\ UNCHANGED <<pc, left, tried, limit, shown>>
     \/ /\ pc' = "searching" /\ left' = Chain(request) /\ tried' = {}
        /\ limit' \in 1..MaxHits
        /\ UNCHANGED <<round, shown>>
  /\ UNCHANGED <<request, iter, turn, accum, tokens, streamError, client, reply>>

(* The sources taken from a provider's usable results.  The fallback puts  *)
(* its abstract first and looks at the limit after each related topic.     *)
Sources(p, abstract, hits) ==
  IF p # "ddg" THEN Min({hits, limit})
  ELSE abstract + Min({hits, Max({1, limit - abstract})})

(* Variant: an error is returned at once.                                  *)
GivesUpOn(found, failed) == failed

(* A provider without sources, or in error, leaves it to the next one.     *)
GivesUp(found, failed) == FALSE

TryProvider(abstract, hits, failed) ==
  LET provider == First(left)
      found == IF failed THEN 0 ELSE Sources(provider, abstract, hits) IN
  /\ pc = "searching" /\ left # {}
  /\ tried' = tried \cup {provider}
  /\ IF found > 0
       THEN /\ pc' = "executing" /\ left' = {} /\ Answer
            /\ frames' = Append(frames, "sources") /\ shown' = found
       ELSE /\ left' = IF GivesUp(found, failed) THEN {} ELSE left \ {provider}
            /\ UNCHANGED <<pc, round, frames, shown>>
  /\ UNCHANGED <<request, iter, turn, accum, hasSearched, limit, tokens, streamError,
                 client, rows>>

(* The message of the call tells the model that the search failed.         *)
SearchFails ==
  /\ pc = "searching" /\ left = {}
  /\ pc' = "executing"
  /\ Answer
  /\ UNCHANGED <<request, iter, turn, accum, search, tokens, streamError, client, reply>>

(* After the last iteration no turn is left for an answer: "limit".        *)
NextTurn ==
  /\ pc = "executing" /\ todo = <<>>
  /\ iter' = iter + 1 /\ turn' = NoTurn
  /\ pc' = IF iter' < MaxIterations THEN "turn" ELSE "finishing"
  /\ frames' = IF iter' < MaxIterations THEN frames ELSE Append(frames, "limit")
  /\ UNCHANGED <<request, accum, round, search, tokens, streamError, client, rows>>

-----------------------------------------------------------------------------
(* The end of the run *)

(* Variant: an error becomes a row like any other.                         *)
OutcomeIgnored == "ok"

Outcome ==
  CASE ~streamError -> "ok"
    [] streamError /\ client = "left" -> "cancelled"
    [] OTHER -> "failed"

(* One row for all turns; what was reported before an error is on it, at   *)
(* no cost.                                                                *)
Save ==
  /\ pc = "finishing"
  /\ rows' = Append(rows, Row(Outcome, IF tokens = 0 THEN PromptTokens ELSE tokens))
  /\ pc' = "saved"
  /\ UNCHANGED <<request, iter, turn, accum, round, search, tokens, streamError, client, frames>>

(* The meta chunk and [DONE], after an error too; the scope is released.   *)
Return ==
  /\ pc = "saved"
  /\ frames' = frames \o <<"meta", "done">>
  /\ pc' = "ended"
  /\ UNCHANGED <<request, iter, turn, accum, round, search, tokens, streamError, client, rows>>

(* The client stops reading the stream, reads again, or leaves for good,   *)
(* which also ends a write that it had blocked.                            *)
ClientChanges ==
  /\ client # "left" /\ pc \notin {"ended", "proxied"}
  /\ client' \in {"there", "stalled", "left"} \ {client}
  /\ UNCHANGED <<request, pc, iter, turn, accum, round, search, tokens, streamError, reply>>

Receive ==
  \/ \E n \in Names, i \in 0..MaxCalls \cup {NoIndex} : BeginCall(n, i)
  \/ \E k \in 1..MaxCalls : ContinueCall(k)
  \/ ReportUsage

Attempt == TurnFails \/ Connect
Act ==
  \/ Route \/ Resolve \/ Refuse \/ Admit
  \/ DeclineSearch \/ OtherTool \/ StartSearch
  \/ \E abstract \in 0..1, hits \in 0..MaxHits, failed \in BOOLEAN :
       TryProvider(abstract, hits, failed)
  \/ SearchFails \/ NextTurn \/ Save \/ Return

Next == Attempt \/ Receive \/ TurnEnds \/ Act \/ ClientChanges

Spec == Init /\ [][Next]_vars

(* The handler runs; calls to tools and connections have timeouts; a turn  *)
(* that sends nothing more is ended by the idle watchdog.  Writing a frame *)
(* ends if the client reads: main.go sets no WriteTimeout.                 *)
Reads == client # "stalled"
FairSpec ==
  Spec /\ WF_vars(Act /\ Reads) /\ WF_vars(Attempt /\ Reads) /\ WF_vars(TurnEnds /\ Reads)

-----------------------------------------------------------------------------
(* Properties *)

(* The type invariant.                                                     *)
TypeOK ==
  /\ request \in Requests
  /\ pc \in {"routing", "resolving", "proxied", "admission", "turn", "reading", "executing",
             "searching", "finishing", "saved", "ended"}
  /\ iter \in 0..MaxIterations /\ tokens \in 0..MaxIterations
  /\ hasSearched \in BOOLEAN /\ streamError \in BOOLEAN /\ client \in {"there", "stalled", "left"}

(* However the fragments of several calls interleave, numbered in any order*)
(* or not numbered at all, the turn executes the calls the upstream meant, *)
(* each with the pieces of its own arguments.                              *)
Meant ==
  Named([i \in DOMAIN turn.calls |->
           [name |-> turn.calls[i].name, args |-> turn.calls[i].args]])
CallsAreReassembled == pc = "executing" => asked = Meant

(* A model that is asked again finds every call of its last message        *)
(* answered, once and in order, declined and failed searches included:     *)
(* upstreams refuse a conversation with a call left open.                  *)
EveryCallIsAnswered == pc = "turn" => answered = [i \in DOMAIN asked |-> i]

(* The model is told that a search with a query failed only after every    *)
(* configured provider had its turn and none had sources.  (One without a  *)
(* query is answered at once, and asks nobody.)                            *)
SearchExhaustsProviders ==
  [][SearchFails => tried = Chain(request)]_vars

(* "Maximum source count."                                                 *)
(* (Not kept by the fallback with a limit of one: README.md.)              *)
SourcesWithinLimit == shown <= limit

(* The reply and the row tell the same: a run that got past its admission  *)
(* ends in [DONE], after its one row is saved, and the row is a success    *)
(* exactly if the client was shown no error.                               *)
ReplyMatchesRow ==
  /\ pc = "ended" /\ frames # <<"refusal">> =>
       /\ Len(rows) = 1 /\ Last(frames) = "done"
       /\ (rows[1].status = "ok") = ~Contains(frames, "error")
  /\ Contains(frames, "done") => pc = "ended"

(* "Failed/cancelled attempts never consume customer credits": a row that  *)
(* is charged follows a last turn that came whole.                         *)
(* (Not kept: a turn that breaks off ends like a whole one, README.md.)    *)
OnlyWholeRunsAreCharged ==
  \A i \in DOMAIN rows : rows[i].status = "ok" => turn.whole \/ iter = MaxIterations

(* However often the model asks for tools, a run ends and gives back its   *)
(* scope, if its client does not stop reading for good: nothing bounds a   *)
(* write that a stalled client blocks.                                     *)
RunsEnd == <>[]Reads => (pc = "turn" ~> pc = "ended")

=============================================================================
