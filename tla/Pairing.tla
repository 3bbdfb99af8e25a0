------------------------------ MODULE Pairing ------------------------------
(***************************************************************************)
(* Pairing of a Teleporter with a user of the platform.                    *)
(*                                                                         *)
(* The TPX program keeps three atoms, pair-status, user-id and             *)
(* shadow-user-id, and three kinds of threads change them: the MQTT client *)
(* that dispatches :pairing/pair and :pairing/unpair, the GPIO thread that *)
(* runs the function of the link button, and the HTTP client that runs the *)
(* callbacks of a POST or a DELETE on /api/teleporter/pair.  No lock       *)
(* orders them, so a handler is a chain of steps, one per write of an      *)
(* atom, that steps of the other threads may separate.  The reads of one   *)
(* guard are one step.  The platform and its own record of who is paired   *)
(* are external.                                                           *)
(***************************************************************************)
EXTENDS Naturals, Sequences

CONSTANTS
    Users,       \* the users of the platform (:auth.user/id)
    NoUser,      \* nil
    RequestIds,  \* the HTTP requests that can be outstanding at once
    MaxInbox     \* bound: unpair messages waiting for the MQTT client

ASSUME PairingAssumption ==
    /\ NoUser \notin Users
    /\ MaxInbox \in Nat

VARIABLES
    pair_status,     \* tpx.pairing/pair-status
    user_id,         \* tpx.data/user-id*
    shadow_user_id,  \* tpx.data/shadow-user-id*
    mqtt,            \* the MQTT handler that is running, and its message's user
    button,          \* the next step of the link button's function
    requests,        \* HTTP requests and the callbacks that wait for them
    inbox,           \* users named by the :pairing/unpair messages under way
    platform_user,   \* external: whom the platform has paired
    offer,           \* history: the user of the last offer TPX took up
    consented,       \* history: users on whose offer the button was pressed
    crossed,         \* history: users whose offer met a press on another's
    disturbed        \* history: two transactions overlapped, or a reply was lost

consent == <<offer, consented, crossed>>
vars == <<pair_status, user_id, shadow_user_id, mqtt, button, requests,
          inbox, platform_user, consent, disturbed>>

MaybeUser == Users \cup {NoUser}
Status    == {"unpaired", "pairing", "paired"}

Idle == [step |-> "idle", user |-> NoUser]
Handler == [step : {"idle", "pair", "shadow", "unpair", "clear"},
            user : MaybeUser]

Free == [kind |-> "none", user |-> NoUser, state |-> "free"]
PostRequest == [kind : {"POST"}, user : MaybeUser,
                state : {"sent", "ok", "failed", "orphan"}]
DeleteRequest == [kind : {"DELETE"}, user : {NoUser},
                  state : {"sent", "ok", "failed", "clear", "orphan"}]
Request == {Free} \cup PostRequest \cup DeleteRequest

paired   == pair_status = "paired"
pairing  == pair_status = "pairing"

(***************************************************************************)
(* data/allowed?: the test every command that arrives by MQTT must pass.   *)
(***************************************************************************)
Allowed(u) == u \in Users /\ user_id = u /\ paired

Init ==
    /\ pair_status = "unpaired"
    /\ user_id = NoUser
    /\ shadow_user_id = NoUser
    /\ mqtt = Idle
    /\ button = "idle"
    /\ requests = [r \in RequestIds |-> Free]
    /\ inbox = <<>>
    /\ platform_user \in MaybeUser
    /\ offer = NoUser
    /\ consented = {}
    /\ crossed = {}
    /\ disturbed = FALSE

(***************************************************************************)
(* A transaction moves the pairing: a press of the button with the request *)
(* it sends, or an unpair from the platform with the message it publishes. *)
(***************************************************************************)
RequestOpen   == \E r \in RequestIds : requests[r].state # "free"
UnpairPending == inbox # <<>> \/ mqtt.step \in {"unpair", "clear"}
Busy          == RequestOpen \/ button # "idle" \/ UnpairPending

StartTransaction == disturbed' = (disturbed \/ Busy)

(***************************************************************************)
(* The offer that is in the hands of the MQTT client's thread: between the *)
(* guard of :pairing/pair and its last write, shadow-user-id is still the  *)
(* user of an earlier offer, perhaps of one made before the last release.  *)
(***************************************************************************)
OfferInHand == mqtt.step \in {"pair", "shadow"}

\* A claim uses up what was consented to for others than the one it claims
\* for, and a release all of it, but for a press that is not yet carried out.
KeepConsent(S) ==
    /\ consented' = consented \cap S
    /\ crossed' = crossed \cap S
    /\ UNCHANGED offer

ForgetConsent ==
    KeepConsent(IF button = "claim" THEN {offer, shadow_user_id} ELSE {})

----------------------------------------------------------------------------
(* The MQTT client's thread.                                               *)

\* :pairing/pair, the guard: any user may make an offer at any time, and it
\* is dropped when the Teleporter is paired.
ReceivePair(u) ==
    /\ mqtt = Idle
    /\ ~paired
    /\ mqtt' = [step |-> "pair", user |-> u]
    /\ offer' = u
    /\ crossed' = IF button = "claim" THEN crossed \cup ({u} \ consented)
                                     ELSE crossed
    /\ UNCHANGED <<pair_status, user_id, shadow_user_id, button, requests,
                   inbox, platform_user, consented, disturbed>>

PairSetStatus ==
    /\ mqtt.step = "pair"
    /\ pair_status' = "pairing"
    /\ mqtt' = [mqtt EXCEPT !.step = "shadow"]
    /\ UNCHANGED <<user_id, shadow_user_id, button, requests, inbox,
                   platform_user, consent, disturbed>>

\* Mutant: a second offer does not take the place of the first.
PairSetShadowOnce ==
    /\ mqtt.step = "shadow"
    /\ shadow_user_id' = IF shadow_user_id = NoUser THEN mqtt.user
                                                   ELSE shadow_user_id
    /\ mqtt' = Idle
    /\ UNCHANGED <<pair_status, user_id, button, requests, inbox,
                   platform_user, consent, disturbed>>

PairSetShadow ==
    /\ mqtt.step = "shadow"
    /\ shadow_user_id' = mqtt.user
    /\ mqtt' = Idle
    /\ UNCHANGED <<pair_status, user_id, button, requests, inbox,
                   platform_user, consent, disturbed>>

\* Mutant: the message is obeyed only while an offer is pending.
ReceiveUnpairPairing ==
    /\ mqtt = Idle
    /\ inbox # <<>>
    /\ inbox' = Tail(inbox)
    /\ mqtt' = IF pairing
               THEN [step |-> "unpair", user |-> Head(inbox)]
               ELSE Idle
    /\ UNCHANGED <<pair_status, user_id, shadow_user_id, button, requests,
                   platform_user, consent, disturbed>>

\* :pairing/unpair, the guard: a user the Teleporter does not obey is ignored.
ReceiveUnpair ==
    /\ mqtt = Idle
    /\ inbox # <<>>
    /\ inbox' = Tail(inbox)
    /\ mqtt' = IF Allowed(Head(inbox))
               THEN [step |-> "unpair", user |-> Head(inbox)]
               ELSE Idle
    /\ UNCHANGED <<pair_status, user_id, shadow_user_id, button, requests,
                   platform_user, consent, disturbed>>

\* Mutant: sets a status that is none of the three.
UnpairSetStatusBadStatus ==
    /\ mqtt.step = "unpair"
    /\ pair_status' = "not-paired"
    /\ mqtt' = [mqtt EXCEPT !.step = "clear"]
    /\ UNCHANGED <<user_id, shadow_user_id, button, requests, inbox,
                   platform_user, consent, disturbed>>

UnpairSetStatus ==
    /\ mqtt.step = "unpair"
    /\ pair_status' = "unpaired"
    /\ mqtt' = [mqtt EXCEPT !.step = "clear"]
    /\ UNCHANGED <<user_id, shadow_user_id, button, requests, inbox,
                   platform_user, consent, disturbed>>

UnpairClearUser ==
    /\ mqtt.step = "clear"
    /\ user_id' = NoUser
    /\ ForgetConsent
    /\ mqtt' = Idle
    /\ UNCHANGED <<pair_status, shadow_user_id, button, requests, inbox,
                   platform_user, disturbed>>

----------------------------------------------------------------------------
(* The link button's thread.                                               *)

\* A long press on a paired Teleporter asks the platform to unpair it.
PressUnpair(r) ==
    /\ button = "idle"
    /\ paired
    /\ requests[r] = Free
    /\ StartTransaction
    /\ requests' = [requests EXCEPT
                      ![r] = [kind |-> "DELETE", user |-> NoUser,
                              state |-> "sent"]]
    /\ UNCHANGED <<pair_status, user_id, shadow_user_id, mqtt, button, inbox,
                   platform_user, consent>>

\* A press while an offer is pending accepts it.  Whoever presses has the last
\* offer in mind.
PressPair ==
    /\ button = "idle"
    /\ pairing
    /\ StartTransaction
    /\ button' = "claim"
    /\ consented' = (consented \cup {offer}) \ {NoUser}
    /\ crossed' = (IF OfferInHand THEN crossed \cup {shadow_user_id}
                                  ELSE crossed) \ {NoUser, offer}
    /\ UNCHANGED <<pair_status, user_id, shadow_user_id, mqtt, requests,
                   inbox, platform_user, offer>>

\* Mutant: paired is set before the platform has answered.
ButtonClaimEarly ==
    /\ button = "claim"
    /\ user_id' = shadow_user_id
    /\ KeepConsent({shadow_user_id})
    /\ pair_status' = "paired"
    /\ button' = "post"
    /\ UNCHANGED <<shadow_user_id, mqtt, requests, inbox,
                   platform_user, disturbed>>

ButtonClaim ==
    /\ button = "claim"
    /\ user_id' = shadow_user_id
    /\ KeepConsent({shadow_user_id})
    /\ button' = "post"
    /\ UNCHANGED <<pair_status, shadow_user_id, mqtt, requests, inbox,
                   platform_user, disturbed>>

\* The body of the POST reads user-id a second time.
ButtonPost(r) ==
    /\ button = "post"
    /\ requests[r] = Free
    /\ requests' = [requests EXCEPT
                      ![r] = [kind |-> "POST", user |-> user_id,
                              state |-> "sent"]]
    /\ button' = "idle"
    /\ UNCHANGED <<pair_status, user_id, shadow_user_id, mqtt, inbox,
                   platform_user, consent, disturbed>>

----------------------------------------------------------------------------
(* The HTTP client's threads.                                              *)

\* Mutant: the error callback pairs as the success callback does.
PostSucceededAnyReply(r) ==
    /\ requests[r].kind = "POST"
    /\ requests[r].state \in {"ok", "failed"}
    /\ pair_status' = "paired"
    /\ requests' = [requests EXCEPT ![r] = Free]
    /\ UNCHANGED <<user_id, shadow_user_id, mqtt, button, inbox,
                   platform_user, consent, disturbed>>

\* The success callback of the POST.
PostSucceeded(r) ==
    /\ requests[r].kind = "POST"
    /\ requests[r].state = "ok"
    /\ pair_status' = "paired"
    /\ requests' = [requests EXCEPT ![r] = Free]
    /\ UNCHANGED <<user_id, shadow_user_id, mqtt, button, inbox,
                   platform_user, consent, disturbed>>

\* The success callback of the DELETE: first the status, then the user.
DeleteSetStatus(r) ==
    /\ requests[r].kind = "DELETE"
    /\ requests[r].state = "ok"
    /\ pair_status' = "unpaired"
    /\ requests' = [requests EXCEPT ![r].state = "clear"]
    /\ UNCHANGED <<user_id, shadow_user_id, mqtt, button, inbox,
                   platform_user, consent, disturbed>>

\* Mutant: the second write of the callback is missing.
DeleteClearUserKeepsUser(r) ==
    /\ requests[r].state = "clear"
    /\ ForgetConsent
    /\ requests' = [requests EXCEPT ![r] = Free]
    /\ UNCHANGED <<pair_status, user_id, shadow_user_id, mqtt, button, inbox,
                   platform_user, disturbed>>

DeleteClearUser(r) ==
    /\ requests[r].state = "clear"
    /\ user_id' = NoUser
    /\ ForgetConsent
    /\ requests' = [requests EXCEPT ![r] = Free]
    /\ UNCHANGED <<pair_status, shadow_user_id, mqtt, button, inbox,
                   platform_user, disturbed>>

\* A failed POST is only logged, a failed DELETE is not even that.
RequestFailed(r) ==
    /\ requests[r].state = "failed"
    /\ requests' = [requests EXCEPT ![r] = Free]
    /\ UNCHANGED <<pair_status, user_id, shadow_user_id, mqtt, button, inbox,
                   platform_user, consent, disturbed>>

----------------------------------------------------------------------------
(* The platform and the network (external).                                *)

\* The platform obeys a POST that names a user, and every DELETE.
Obeys(r) == requests[r].kind = "DELETE" \/ requests[r].user # NoUser

PlatformAccepts(r) ==
    /\ requests[r].state = "sent"
    /\ Obeys(r)
    /\ platform_user' = requests[r].user
    /\ requests' = [requests EXCEPT ![r].state = "ok"]
    /\ UNCHANGED <<pair_status, user_id, shadow_user_id, mqtt, button, inbox,
                   consent, disturbed>>

\* The platform refuses, or the request never reaches it.
PlatformRefuses(r) ==
    /\ requests[r].state = "sent"
    /\ requests' = [requests EXCEPT ![r].state = "failed"]
    /\ UNCHANGED <<pair_status, user_id, shadow_user_id, mqtt, button, inbox,
                   platform_user, consent, disturbed>>

\* The platform obeys and the client is told that the request failed.
ReplyLost(r) ==
    /\ requests[r].state = "sent"
    /\ Obeys(r)
    /\ platform_user' = requests[r].user
    /\ requests' = [requests EXCEPT ![r].state = "failed"]
    /\ disturbed' = TRUE
    /\ UNCHANGED <<pair_status, user_id, shadow_user_id, mqtt, button, inbox,
                   consent>>

\* A request of a program that has been restarted: nobody awaits the reply.
OrphanArrives(r) ==
    /\ requests[r].state = "orphan"
    /\ platform_user' \in {platform_user, requests[r].user}
    /\ requests' = [requests EXCEPT ![r] = Free]
    /\ UNCHANGED <<pair_status, user_id, shadow_user_id, mqtt, button, inbox,
                   consent, disturbed>>

\* The user gives the Teleporter up in the app; the platform forgets the
\* pairing and tells the Teleporter.
AppUnpair ==
    /\ platform_user # NoUser
    /\ Len(inbox) < MaxInbox
    /\ StartTransaction
    /\ platform_user' = NoUser
    /\ inbox' = Append(inbox, platform_user)
    /\ UNCHANGED <<pair_status, user_id, shadow_user_id, mqtt, button,
                   requests, consent>>

(***************************************************************************)
(* systemd restarts TPX: the atoms are created anew, nothing is persisted. *)
(* Unpair messages may be lost with the old MQTT session.                  *)
(***************************************************************************)
Restart ==
    /\ pair_status' = "unpaired"
    /\ user_id' = NoUser
    /\ shadow_user_id' = NoUser
    /\ mqtt' = Idle
    /\ button' = "idle"
    /\ requests' = [r \in RequestIds |->
                      IF requests[r].state \in {"sent", "orphan"}
                      THEN [requests[r] EXCEPT !.state = "orphan"]
                      ELSE Free]
    /\ inbox' \in {inbox, <<>>}
    /\ offer' = NoUser
    /\ consented' = {}
    /\ crossed' = {}
    /\ UNCHANGED <<platform_user, disturbed>>

----------------------------------------------------------------------------
MqttStep == \/ PairSetStatus
            \/ PairSetShadow
            \/ ReceiveUnpair
            \/ UnpairSetStatus
            \/ UnpairClearUser

ButtonStep == ButtonClaim \/ \E r \in RequestIds : ButtonPost(r)

CallbackStep(r) == \/ PostSucceeded(r)
                   \/ DeleteSetStatus(r)
                   \/ DeleteClearUser(r)
                   \/ RequestFailed(r)

PlatformStep(r) == \/ PlatformAccepts(r)
                   \/ PlatformRefuses(r)
                   \/ ReplyLost(r)
                   \/ OrphanArrives(r)

Next == \/ \E u \in Users : ReceivePair(u)
        \/ MqttStep
        \/ \E r \in RequestIds : PressUnpair(r)
        \/ PressPair
        \/ ButtonStep
        \/ \E r \in RequestIds : CallbackStep(r) \/ PlatformStep(r)
        \/ AppUnpair
        \/ Restart

(***************************************************************************)
(* Threads that have something to do get to do it, and the platform        *)
(* answers or the HTTP client gives up.  Nobody has to press a button, make *)
(* an offer or unpair, and nothing has to fail.                            *)
(***************************************************************************)
Fairness == /\ WF_vars(MqttStep)
            /\ WF_vars(ButtonStep)
            /\ \A r \in RequestIds : /\ WF_vars(CallbackStep(r))
                                     /\ WF_vars(PlatformStep(r))

Spec == Init /\ [][Next]_vars /\ Fairness

----------------------------------------------------------------------------
(* Every variable keeps its type: set-status asserts that the status is one *)
(* of its three values, and a request names a user or nil.                 *)
TypeOK ==
    /\ pair_status \in Status
    /\ user_id \in MaybeUser
    /\ shadow_user_id \in MaybeUser
    /\ mqtt \in Handler
    /\ button \in {"idle", "claim", "post"}
    /\ requests \in [RequestIds -> Request]
    /\ inbox \in Seq(Users)
    /\ platform_user \in MaybeUser
    /\ offer \in MaybeUser
    /\ consented \in SUBSET Users
    /\ crossed \in SUBSET Users
    /\ disturbed \in BOOLEAN

(* A user commands the Teleporter (data/allowed?) only if, since the last    *)
(* release or restart, the button was pressed when the last offer was that  *)
(* user's.  The claim reads shadow-user-id later than the press and the     *)
(* offer's two writes, so another user may get the Teleporter, but only one *)
(* whose offer met that press: the earlier offer when the press found a new *)
(* one half handled, or one taken up between the press and the claim.       *)
ConsentBeforeControl ==
    \A u \in Users : Allowed(u) => u \in consented \/ u \in crossed

(* At rest, a paired Teleporter obeys the user the platform has recorded,   *)
(* provided no transaction overlapped another and no reply was lost: offers *)
(* may arrive between any two steps, and TPX may be restarted at any point. *)
AgreementAtRest ==
    ~disturbed /\ ~Busy /\ paired =>
        user_id \in Users /\ user_id = platform_user

(* The user the Teleporter obeys, if any.                                  *)
owner == IF paired THEN user_id ELSE NoUser

(* The Teleporter starts to obey a user only at a moment when the platform  *)
(* records that very user; everything else can only take the owner away.   *)
AdoptsTheRegisteredUser ==
    [][owner' \in {owner, NoUser, platform_user'} \/ disturbed']_vars

(* A user the platform has unpaired does not command the Teleporter for     *)
(* ever.                                                                   *)
UnpairedUserLosesControl ==
    \A u \in Users :
        (Allowed(u) /\ platform_user # u)
            ~> (~Allowed(u) \/ platform_user = u \/ disturbed)

(***************************************************************************)
(* What makes the properties above inductive.  While nothing disturbed the *)
(* pairing, at most one transaction is open, and each of its phases keeps  *)
(* the part of the agreement that its last step needs.                     *)
(***************************************************************************)
Open(r) == requests[r].state # "free"
Agree   == paired => user_id \in Users /\ user_id = platform_user

OneTransaction ==
    /\ \A r, s \in RequestIds : Open(r) /\ Open(s) => r = s
    /\ RequestOpen => button = "idle" /\ ~UnpairPending
    /\ button # "idle" => ~UnpairPending
    /\ Len(inbox) <= 1
    /\ mqtt.step \in {"unpair", "clear"} => inbox = <<>>

RequestPhase(r) ==
    /\ requests[r].kind = "POST" /\ requests[r].state \in {"sent", "ok", "failed"}
          => ~paired /\ requests[r].user = user_id
    /\ requests[r].kind = "POST" /\ requests[r].state = "ok"
          => user_id \in Users /\ user_id = platform_user
    /\ requests[r].kind = "DELETE" /\ requests[r].state \in {"sent", "failed"}
          => Agree
    /\ requests[r].state \in {"clear", "orphan"} => ~paired

UnpairPhase ==
    /\ inbox # <<>> /\ paired => user_id = Head(inbox)
    /\ mqtt.step = "clear" => ~paired

CalmInv ==
    ~disturbed =>
        /\ OneTransaction
        /\ \A r \in RequestIds : RequestPhase(r)
        /\ UnpairPhase
        /\ button # "idle" => ~paired
        /\ ~Busy => Agree

\* What a claim may find in shadow-user-id, from the press to the claim.
ClaimInv ==
    /\ IF OfferInHand THEN offer = mqtt.user ELSE offer = shadow_user_id
    /\ button = "claim" =>
          {shadow_user_id, offer} \subseteq consented \cup crossed \cup {NoUser}
    /\ user_id \in consented \cup crossed \cup {NoUser}

(* The inductive invariant: the phases of a calm transaction, and the press *)
(* behind every user the program has adopted or is about to adopt.         *)
PairingInv == TypeOK /\ ClaimInv /\ CalmInv
=============================================================================
