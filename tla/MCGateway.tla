------------------------------ MODULE MCGateway ------------------------------
(* Small instances of Gateway for TLC.                                     *)
EXTENDS Gateway, TLC

Req(i, k, p, l) == [id |-> i, kind |-> k, price |-> p, least |-> l]

MCChats == {Req("a", "chat", 2, 1), Req("b", "chat", 1, 1)}
MCMixed == {Req("b", "chat", 1, 1), Req("d", "batch", 1, 1), Req("e", "agent", 1, 1)}
MCAll == MCChats \cup MCMixed \cup {Req("t", "audio", 1, 1)}
MCThreeChats == {Req("a", "chat", 3, 1), Req("b", "chat", 2, 2), Req("c", "chat", 2, 1)}

MCPlan == {[duration |-> 2, budget |-> 1]}
MCTwoWindows == {[duration |-> 1, budget |-> 1], [duration |-> 2, budget |-> 2]}

(* The union of two scopes: a chat, a batch and an agent request, three    *)
(* arrivals, or two and a settlement that fails, or two of which one may   *)
(* have a client that stops reading; and any two requests out of two chats,*)
(* an agent run and a transcription, while a window rolls over and credit  *)
(* is bought and lapses.                                                   *)
ArrivedIds == {i \in Ids : arrivals[i] > 0}
Reported == {job[h].row.cost : h \in {x \in Handlers : job[x].row # NoRow}}
MixedScope ==
  /\ now = 0 /\ bought = 0
  /\ ArrivedIds \subseteq {r.id : r \in MCMixed} /\ SumOf(arrivals, Ids) + failures <= 3
  /\ \A c \in Reported : c <= 1
  /\ Cardinality(stalled) <= 1
  /\ stalled # {} => SumOf(arrivals, Ids) + failures <= 2
PaidScope ==
  /\ failures = 0 /\ stalled = {} /\ \A i \in Ids : arrivals[i] <= 1
  /\ ArrivedIds \subseteq {"a", "b", "e", "t"} /\ SumOf(arrivals, Ids) <= 2
MCScope == MixedScope \/ PaidScope

MCSymmetry == Permutations(Handlers)

=============================================================================
