----------------------------- MODULE ControlPanel -----------------------------
(***************************************************************************)
(* The control panel's page: a selected context, workspace loads, the list *)
(* of accounts that can be hidden, and evidence details.                   *)
(*                                                                         *)
(* A load first reads the catalog of contexts, then asks for everything of *)
(* the context selected at that moment, and renders once all is settled.   *)
(* Loads overlap: choosing a context, hiding an account and the refresh    *)
(* and retry buttons each start one.  The preferences behind the page are  *)
(* the sets AccountPreferences keeps; a call to them takes effect at one   *)
(* instant (HiddenAccounts).                                               *)
(***************************************************************************)
EXTENDS Naturals

CONSTANTS
  Contexts, Accounts,   \* runtime scopes; references of the accounts listed
  Loads,            \* workspace loads that can be in flight
  Details,          \* evidence requests that can be in flight
  None,
  MaxChoices,       \* bound: contexts chosen by the operator
  MaxLoads          \* bound: loads started

ASSUME ControlPanelAssumption ==
  None \notin Contexts /\ {MaxChoices, MaxLoads} \subseteq Nat

VARIABLES
  hidden,      \* hidden[c]: what the preferences hide in context c
  offered,     \* the contexts the selector lists
  selected,    \* selectedContext
  load,        \* load[l]: where load l is, the catalog it read, the context of
               \* its requests, and what the preferences answered
  shown,       \* the account list: its context, the context named above it,
               \* and the references shown as hidden
  click,       \* the visibility change in flight and the list it was made in
  epoch,       \* detailEpoch
  detail,      \* the context of the audit evidence shown
  request,     \* request[d]: the context and epoch of an evidence request
  since,       \* history: contexts selected since the operator last chose one
  overlapped,  \* history: what is shown may come from requests that overlapped
  started

preferenceVars == <<hidden, load, click>>
listVars == <<selected, offered, shown, since>>
evidenceVars == <<epoch, detail, request>>
panelVars == <<preferenceVars, listVars, evidenceVars, overlapped, started>>

Unverified == {}    \* an answer that cannot be verified
Verified(refs) == {refs}
Unproven == [of |-> None, label |-> None, hides |-> {}]
Resting == [at |-> "idle", listed |-> {}, of |-> None, answer |-> Unverified]
NoClick == [at |-> "idle", label |-> None]
NoRequest == [of |-> None, epoch |-> 0]

LoadsRest == \A l \in Loads : load[l] = Resting
Quiet == LoadsRest /\ click = NoClick

PanelInit ==
  /\ hidden = [c \in Contexts |-> {}]
  /\ offered = {} /\ selected = None
  /\ load = [l \in Loads |-> Resting]
  /\ shown = Unproven /\ click = NoClick
  /\ epoch = 0 /\ detail = None /\ request = [d \in Details |-> NoRequest]
  /\ since = {} /\ overlapped = FALSE /\ started = 0

Starts(l) ==
  /\ load[l] = Resting /\ started < MaxLoads
  /\ load' = [load EXCEPT ![l].at = "scopes"]
  /\ started' = started + 1

(* Refresh, retry and the first load.                                         *)
StartLoad(l) ==
  /\ Starts(l)
  /\ overlapped' = ~Quiet
  /\ UNCHANGED <<hidden, click, listVars, evidenceVars>>

(* The operator chooses a context; details are cleared, the rest stays.       *)
ChooseContext(l, c) ==
  /\ c \in offered \ {selected} /\ epoch < MaxChoices
  /\ selected' = c /\ since' = {c}
  /\ epoch' = epoch + 1 /\ detail' = None
  /\ Starts(l)
  /\ overlapped' = ~Quiet
  /\ UNCHANGED <<hidden, click, offered, shown, request>>

(* The context the page goes on with: the one selected if it is still listed, *)
(* the first of the list if not.                                              *)
Selections(listed) ==
  IF listed = {} THEN {None}
  ELSE IF selected \in listed THEN {selected} ELSE listed

RenderSelector(listed, c) ==
  /\ offered' = listed
  /\ selected' = c /\ since' = since \cup {c}

BatchAskedBeforeTheCatalogMutant(listed, c) ==
  [at |-> "batch", listed |-> listed, of |-> selected, answer |-> Unverified]
Batch(listed, c) ==
  [at |-> "batch", listed |-> listed, of |-> c, answer |-> Unverified]

(* The catalog answers, with any contexts or none, or cannot be verified; the *)
(* batch of reads leaves at once.                                             *)
ReadScopes(l, listed) ==
  /\ load[l].at = "scopes"
  /\ \E c \in Selections(listed) :
       RenderSelector(listed, c) /\ load' = [load EXCEPT ![l] = Batch(listed, c)]
  /\ UNCHANGED <<hidden, click, shown, evidenceVars, overlapped, started>>

(* The preferences answer the batch, or the answer fails; without a context   *)
(* they refuse.                                                               *)
AnswerBatch(l) ==
  /\ load[l].at = "batch"
  /\ \E answer \in {Unverified} \cup
         (IF load[l].of = None THEN {} ELSE {Verified(hidden[load[l].of])}) :
       load' = [load EXCEPT ![l].at = "settled", ![l].answer = answer]
  /\ UNCHANGED <<hidden, click, listVars, evidenceVars, overlapped, started>>

(* All reads of the batch are settled.  The selector is rendered once more    *)
(* from this load's own catalog.  The list is of the batch's context, the     *)
(* line above it names the context selected now; any other read of the batch  *)
(* can leave it unproven.                                                     *)
RenderWorkspace(l) ==
  /\ load[l].at = "settled"
  /\ \E c \in Selections(load[l].listed) :
       /\ RenderSelector(load[l].listed, c)
       /\ shown' \in {Unproven} \cup
            {[of |-> load[l].of, label |-> c, hides |-> refs] :
               refs \in IF c = None THEN {} ELSE load[l].answer}
  /\ load' = [load EXCEPT ![l] = Resting]
  /\ UNCHANGED <<hidden, click, evidenceVars, overlapped, started>>

(* Hide or restore an account of the list: the request names the context      *)
(* selected now.                                                              *)
ClickVisibility(ref) ==
  /\ click = NoClick /\ shown # Unproven
  /\ click' = [at |-> "posted", label |-> shown.label, of |-> selected, ref |-> ref,
               hides |-> ref \notin shown.hides]
  /\ UNCHANGED <<hidden, load, listVars, evidenceVars, overlapped, started>>

(* The preferences take the change, or refuse it (always without a context);  *)
(* the answer can be lost either way.                                         *)
AnswerClick ==
  /\ click.at = "posted"
  /\ \/ /\ click.of # None
        /\ hidden' = [hidden EXCEPT ![click.of] =
                        IF click.hides THEN @ \cup {click.ref} ELSE @ \ {click.ref}]
        /\ \E told \in {"taken", "lost"} : click' = [at |-> told, label |-> click.label]
     \/ click' = [at |-> "lost", label |-> click.label] /\ UNCHANGED hidden
  /\ UNCHANGED <<load, listVars, evidenceVars, overlapped, started>>

ConfirmVisibility(l) ==
  /\ click.at = "taken"
  /\ click' = NoClick
  /\ Starts(l)
  /\ overlapped' = ~LoadsRest
  /\ UNCHANGED <<hidden, listVars, evidenceVars>>

(* "Account visibility could not be verified": the list stays as it was.      *)
VisibilityUnverified ==
  /\ click.at = "lost"
  /\ click' = NoClick
  /\ overlapped' = TRUE
  /\ UNCHANGED <<hidden, load, listVars, evidenceVars, started>>

AskDetail(d) ==
  /\ request[d] = NoRequest /\ selected # None
  /\ request' = [request EXCEPT ![d] = [of |-> selected, epoch |-> epoch]]
  /\ detail' = None
  /\ UNCHANGED <<preferenceVars, listVars, epoch, overlapped, started>>

AnyEpochMutant(d) == TRUE
SameEpoch(d) == request[d].epoch = epoch

(* The evidence is rendered or could not be verified; after another context   *)
(* was chosen it is dropped.                                                  *)
RenderDetail(d) ==
  /\ request[d] # NoRequest
  /\ detail' \in IF SameEpoch(d) THEN {request[d].of, None} ELSE {detail}
  /\ request' = [request EXCEPT ![d] = NoRequest]
  /\ UNCHANGED <<preferenceVars, listVars, epoch, overlapped, started>>

PanelNext ==
  \/ \E l \in Loads :
       \/ StartLoad(l) \/ AnswerBatch(l) \/ RenderWorkspace(l) \/ ConfirmVisibility(l)
       \/ \E listed \in SUBSET Contexts : ReadScopes(l, listed)
       \/ \E c \in Contexts : ChooseContext(l, c)
  \/ \E ref \in Accounts : ClickVisibility(ref)
  \/ AnswerClick \/ VisibilityUnverified
  \/ \E d \in Details : AskDetail(d) \/ RenderDetail(d)

PanelSpec == PanelInit /\ [][PanelNext]_panelVars
-------------------------------------------------------------------------------
(* Properties.                                                                *)

(* Audit evidence on the page is never of a context the operator has left,    *)
(* however late it comes and whatever was asked for in between (detailEpoch). *)
DetailsFollowTheSelection == detail # None => detail \in since

(* Once every request has come back, and none of them overlapped another, the *)
(* account list is of the selected context, says so, and shows as hidden what *)
(* the preferences hide there: also after the selection was moved silently,   *)
(* because the catalog no longer lists it.                                    *)
QuietPanelIsCurrent ==
  Quiet /\ ~overlapped /\ shown # Unproven =>
    /\ shown.of = selected /\ shown.label = selected
    /\ shown.hides = hidden[selected]

(* "Changes stay in <runtime / scope>.  Other runtimes and scopes are         *)
(* unchanged": the notice above the buttons.                                  *)
ChangesStayInTheScopeShown ==
  [][\A c \in Contexts : hidden'[c] # hidden[c] => c = click.label]_panelVars
===============================================================================
