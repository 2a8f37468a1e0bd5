------------------------------ MODULE Catalogue ------------------------------
(***************************************************************************)
(* One model's row of the catalogue and those who read it.  UpdateModel    *)
(* commits the row and its four satellite tables in one transaction, but   *)
(* every reader loads them with a query each: what a reader holds may be   *)
(* parts of two versions.  An admin's PUT loads the model, lays the body   *)
(* over it and saves the whole.                                            *)
(***************************************************************************)
EXTENDS PriceRules, FiniteSets, Sequences

CONSTANTS
  Admins,          \* requests of the console being served
  Others,          \* whoever else loads the model
  Patches,         \* what a body may hold: functions from some of Fields
  FirstModels,     \* the model as first saved
  MaxEdits         \* bound on saves

Readers == Admins \cup Others

(* The queries of GetModel, in order, and what each of them reads: of the  *)
(* row also the target model and the dialect its provider speaks.          *)
Parts == <<
  {"exact", "legacy", "accounting", "target", "speaks", "context", "maxOutput", "thinks"},
  {"tiers"}, {"family"}, {"ttl"}, {"windows"} >>

Fields == UNION {Parts[i] : i \in DOMAIN Parts}

Rates == [TokenClasses -> Nat]

(* What body says, and model where body says nothing.                      *)
Overlaid(body, model) ==
  [f \in DOMAIN body \cup DOMAIN model |-> IF f \in DOMAIN body THEN body[f] ELSE model[f]]

(* A body, as it is decoded and validated.                                 *)
WellFormed(body) ==
  /\ DOMAIN body \subseteq Fields
  /\ \A f \in DOMAIN body :
       /\ f \in {"exact", "legacy"} => body[f] \in Rates
       /\ f \in {"context", "maxOutput"} => body[f] \in Nat
       /\ f \in {"tiers", "windows"} => IsFiniteSet(body[f])
       /\ f = "tiers" => body[f] \subseteq [above : Nat, rates : Rates]
       /\ f = "ttl" => body[f] \subseteq [above : Nat \cup {Base}, class : TokenClasses, rate : Nat]
       /\ f = "windows" => body[f] \subseteq Window

ASSUME CatalogueAssumption == \A body \in Patches \cup FirstModels : WellFormed(body)

VARIABLES
  saved,           \* the committed model: a function on Fields
  edits,           \* saves so far
  loading,         \* reader -> [model, parts], parts the queries answered
  patch,           \* admin -> the body of the PUT being served
  begun            \* admin -> edits when its PUT began

catalogueVars == <<saved, edits, loading, patch, begun>>

NoBody == <<>>
Nothing == [model |-> <<>>, parts |-> 0]
Loaded(r) == loading[r].parts = Len(Parts)

-----------------------------------------------------------------------------
(* Saving *)

DefaultAccounting(family) == IF family = "anthropic" THEN "exclusive" ELSE "inclusive"

(* normalizeModelMoney: an exact rate that is there wins over the legacy.  *)
ExactRates(model) ==
  [c \in DOMAIN model.exact |-> FirstNonZero(model.exact[c], model.legacy[c])]

NormalizedWindow(w) ==
  [w EXCEPT !.den = FirstNonZero(@, 1), !.days = IF @ = {} THEN 0..6 ELSE @]

(* normalizeModelMoney, normalizeModelCatalog and the replace* functions.  *)
Normalized(model) ==
  LET exact == ExactRates(model) IN
  [model EXCEPT
     !.exact = exact, !.legacy = exact,
     !.accounting = IF @ = "" THEN DefaultAccounting(model.family) ELSE @,
     !.windows = {NormalizedWindow(w) : w \in @}]

(* What validateModelPricingRules and the constraints of the tables accept:*)
(* of the tiers, UNIQUE (model_id, min_input_tokens_exclusive).            *)
Storable(model) == Valid(Rules(model)) /\ Apart(model.tiers)

(* A model that is there was saved.                                        *)
ASSUME FirstModelsAssumption ==
  \A model \in FirstModels :
    DOMAIN model = Fields /\ Normalized(model) = model /\ Storable(model)

BlindOverwrite(model, body) == Overlaid(body, [model EXCEPT !.windows = {}])   \* variant
Merged(model, body) == Overlaid(body, model)

-----------------------------------------------------------------------------
(* Steps *)

CatalogueInit ==
  /\ saved \in FirstModels
  /\ edits = 0
  /\ loading = [r \in Readers |-> Nothing]
  /\ patch = [a \in Admins |-> NoBody]
  /\ begun = [a \in Admins |-> 0]

(* The next query of a reader.                                             *)
Query(r) ==
  /\ ~Loaded(r)
  /\ LET part == loading[r].parts + 1 IN
     loading' = [loading EXCEPT ![r] =
       [model |-> Overlaid([f \in Parts[part] |-> saved[f]], @.model), parts |-> part]]
  /\ UNCHANGED <<saved, edits, patch, begun>>

BeginEdit(a, body) ==
  /\ patch[a] = NoBody
  /\ patch' = [patch EXCEPT ![a] = body]
  /\ begun' = [begun EXCEPT ![a] = edits]
  /\ UNCHANGED <<saved, edits, loading>>

Finish(a) ==
  /\ patch' = [patch EXCEPT ![a] = NoBody]
  /\ begun' = [begun EXCEPT ![a] = 0]
  /\ loading' = [loading EXCEPT ![a] = Nothing]

UpdateModel(a) ==
  /\ patch[a] # NoBody /\ Loaded(a) /\ edits < MaxEdits
  /\ LET model == Normalized(Merged(loading[a].model, patch[a])) IN
     IF Storable(model)
     THEN saved' = model /\ edits' = edits + 1
     ELSE UNCHANGED <<saved, edits>>
  /\ Finish(a)

(* A query or the transaction fails: it is rolled back.                    *)
EditFails(a) ==
  /\ patch[a] # NoBody
  /\ Finish(a)
  /\ UNCHANGED <<saved, edits>>

EditNext(a) ==
  \/ \E body \in Patches : BeginEdit(a, body)
  \/ patch[a] # NoBody /\ Query(a)
  \/ UpdateModel(a)
  \/ EditFails(a)

CatalogueNext == \E a \in Admins : EditNext(a)

CatalogueSpec == CatalogueInit /\ [][CatalogueNext]_catalogueVars

-----------------------------------------------------------------------------
(* Properties *)

Ended(a) == patch[a] # NoBody /\ patch'[a] = NoBody
AnsweredSaved(a) == Ended(a) /\ edits' > edits

(* The two forms of a rate move together.                                  *)
Touched(body) ==
  DOMAIN body \cup
    (IF {"exact", "legacy"} \cap DOMAIN body # {} THEN {"exact", "legacy"} ELSE {})

(* A PUT during which no other was saved leaves what its body does not     *)
(* contain as it was, whatever its several queries read, and one that was  *)
(* not answered "saved" leaves everything (handleModels, UpdateModel).     *)
EditsKeepTheRest ==
  [][\A a \in Admins : Ended(a) =>
       IF AnsweredSaved(a)
       THEN begun[a] = edits =>
              \A f \in Fields \ Touched(patch[a]) : saved'[f] = saved[f]
       ELSE saved' = saved]_catalogueVars

=============================================================================
