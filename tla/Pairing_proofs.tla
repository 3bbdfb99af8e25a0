--------------------------- MODULE Pairing_proofs ---------------------------
(***************************************************************************)
(* The safety properties of Pairing, proved for any set of users, any set  *)
(* of request slots and any bound on the inbox.                            *)
(***************************************************************************)
EXTENDS Pairing, SequenceTheorems, TLAPS

LEMMA InitInv == Init => PairingInv
<1> SUFFICES ASSUME Init PROVE PairingInv
  OBVIOUS
<1> USE PairingAssumption
<1>1. TypeOK
  <2>1. mqtt \in Handler
    BY DEF Init, Idle, Handler, MaybeUser
  <2>2. requests \in [RequestIds -> Request]
    BY DEF Init, Request
  <2>3. /\ inbox \in Seq(Users)
        /\ consented \in SUBSET Users /\ crossed \in SUBSET Users
        /\ disturbed \in BOOLEAN
    BY EmptySeq DEF Init
  <2> QED
    BY <2>1, <2>2, <2>3 DEF Init, TypeOK, MaybeUser, Status
<1>2. ClaimInv
  BY DEF Init, ClaimInv, OfferInHand, Idle
<1>3. CalmInv
  BY DEF Init, CalmInv, OneTransaction, RequestPhase, UnpairPhase, Agree, Busy,
         RequestOpen, UnpairPending, Open, paired, Idle, Free
<1> QED
  BY <1>1, <1>2, <1>3 DEF PairingInv

LEMMA StepTypeOK == TypeOK /\ [Next]_vars => TypeOK'
<1> SUFFICES ASSUME TypeOK, [Next]_vars PROVE TypeOK'
  OBVIOUS
<1> USE PairingAssumption
    DEF TypeOK, MaybeUser, Status, Handler, Request, consent
<1>1. ASSUME NEW u \in Users, ReceivePair(u) PROVE TypeOK'
  BY <1>1 DEF ReceivePair
<1>2. ASSUME MqttStep PROVE TypeOK'
  <2>1. CASE PairSetStatus
    BY <2>1 DEF PairSetStatus
  <2>2. CASE PairSetShadow
    BY <2>2 DEF PairSetShadow, Idle
  <2>3. CASE ReceiveUnpair
    BY <2>3 DEF ReceiveUnpair, Idle
  <2>4. CASE UnpairSetStatus
    BY <2>4 DEF UnpairSetStatus
  <2>5. CASE UnpairClearUser
    BY <2>5 DEF UnpairClearUser, ForgetConsent, KeepConsent, Idle
  <2> QED
    BY <1>2, <2>1, <2>2, <2>3, <2>4, <2>5 DEF MqttStep
<1>3. ASSUME NEW r \in RequestIds, PressUnpair(r) PROVE TypeOK'
  BY <1>3 DEF PressUnpair, StartTransaction, Busy, RequestOpen, UnpairPending, DeleteRequest
<1>4. ASSUME PressPair PROVE TypeOK'
  BY <1>4 DEF PressPair, StartTransaction, Busy, RequestOpen, UnpairPending
<1>5. ASSUME ButtonStep PROVE TypeOK'
  BY <1>5 DEF ButtonStep, ButtonClaim, ButtonPost, KeepConsent, PostRequest
<1>6. ASSUME NEW r \in RequestIds, CallbackStep(r) PROVE TypeOK'
  BY <1>6 DEF CallbackStep, PostSucceeded, DeleteSetStatus, DeleteClearUser,
              RequestFailed, ForgetConsent, KeepConsent, PostRequest,
              DeleteRequest, Free
<1>7. ASSUME NEW r \in RequestIds, PlatformStep(r) PROVE TypeOK'
  <2> USE DEF PostRequest, DeleteRequest, Free
  <2>0. requests[r].user \in MaybeUser
    OBVIOUS
  <2>1. ASSUME NEW s \in {"ok", "failed"}, requests[r].state = "sent"
        PROVE  [requests[r] EXCEPT !.state = s] \in Request
    BY <2>1
  <2>2. CASE PlatformAccepts(r)
    BY <2>0, <2>1, <2>2 DEF PlatformAccepts
  <2>3. CASE PlatformRefuses(r)
    BY <2>1, <2>3 DEF PlatformRefuses
  <2>4. CASE ReplyLost(r)
    BY <2>0, <2>1, <2>4 DEF ReplyLost
  <2>5. CASE OrphanArrives(r)
    BY <2>0, <2>5 DEF OrphanArrives
  <2> QED
    BY <1>7, <2>2, <2>3, <2>4, <2>5 DEF PlatformStep
<1>8. ASSUME AppUnpair PROVE TypeOK'
  BY <1>8 DEF AppUnpair, StartTransaction, Busy, RequestOpen, UnpairPending
<1>9. ASSUME Restart PROVE TypeOK'
  <2>1. ASSUME NEW r \in RequestIds, requests[r].state \in {"sent", "orphan"}
        PROVE  [requests[r] EXCEPT !.state = "orphan"] \in Request
    BY <2>1 DEF PostRequest, DeleteRequest, Free
  <2>2. requests' \in [RequestIds -> Request]
    BY <1>9, <2>1 DEF Restart
  <2>3. inbox' \in Seq(Users)
    BY <1>9, EmptySeq DEF Restart
  <2> QED
    BY <1>9, <2>2, <2>3 DEF Restart, Idle
<1>10. CASE UNCHANGED vars
  BY <1>10 DEF vars
<1> QED
  BY <1>1, <1>2, <1>3, <1>4, <1>5, <1>6, <1>7, <1>8, <1>9, <1>10 DEF Next

\* Whatever the claim may find in shadow-user-id stands for a press, or for an
\* offer that met one, from the press on.
LEMMA StepClaim == TypeOK /\ ClaimInv /\ [Next]_vars => ClaimInv'
<1> SUFFICES ASSUME TypeOK, ClaimInv, [Next]_vars PROVE ClaimInv'
  OBVIOUS
<1> USE DEF ClaimInv, OfferInHand
<1>1. ASSUME NEW u \in Users, ReceivePair(u) PROVE ClaimInv'
  BY <1>1 DEF ReceivePair, Idle
<1>2. CASE PairSetStatus
  BY <1>2 DEF PairSetStatus, TypeOK, Handler, consent
<1>3. CASE PairSetShadow
  BY <1>3 DEF PairSetShadow, Idle, consent
<1>4. CASE ReceiveUnpair
  BY <1>4 DEF ReceiveUnpair, Idle, consent
<1>5. CASE UnpairSetStatus
  BY <1>5 DEF UnpairSetStatus, TypeOK, Handler, consent
<1>6. CASE UnpairClearUser
  BY <1>6 DEF UnpairClearUser, ForgetConsent, KeepConsent, Idle
<1>7. CASE PressPair
  BY <1>7 DEF PressPair
<1>8. CASE ButtonClaim
  BY <1>8 DEF ButtonClaim, KeepConsent
<1>9. ASSUME NEW r \in RequestIds, ButtonPost(r) PROVE ClaimInv'
  BY <1>9 DEF ButtonPost, consent
<1>10. ASSUME NEW r \in RequestIds, DeleteClearUser(r) PROVE ClaimInv'
  BY <1>10 DEF DeleteClearUser, ForgetConsent, KeepConsent
<1>11. CASE Restart
  BY <1>11 DEF Restart, Idle
<1>12. CASE UNCHANGED <<user_id, shadow_user_id, mqtt, button, consent>>
  BY <1>12 DEF consent
<1> QED
  BY <1>1, <1>2, <1>3, <1>4, <1>5, <1>6, <1>7, <1>8, <1>9, <1>10, <1>11, <1>12
     DEF Next, MqttStep, ButtonStep, CallbackStep, PlatformStep, vars,
         PressUnpair, PostSucceeded, DeleteSetStatus, RequestFailed,
         PlatformAccepts, PlatformRefuses, ReplyLost, OrphanArrives, AppUnpair

\* Nothing makes a disturbed pairing calm again, and a transaction that
\* starts in a busy state disturbs it.
LEMMA CalmBefore ==
    TypeOK /\ [Next]_vars /\ ~disturbed' => ~disturbed
<1> USE DEF TypeOK, StartTransaction
<1> QED
  BY DEF Next, MqttStep, ButtonStep, CallbackStep, PlatformStep, vars,
         ReceivePair, PairSetStatus, PairSetShadow, ReceiveUnpair,
         UnpairSetStatus, UnpairClearUser, PressUnpair, PressPair, ButtonClaim,
         ButtonPost, PostSucceeded, DeleteSetStatus, DeleteClearUser,
         RequestFailed, PlatformAccepts, PlatformRefuses, ReplyLost,
         OrphanArrives, AppUnpair, Restart

LEMMA StepCalm == PairingInv /\ [Next]_vars => CalmInv'
<1> SUFFICES ASSUME PairingInv, [Next]_vars, ~disturbed' PROVE CalmInv'
  BY DEF CalmInv
<1>c. ~disturbed
  BY CalmBefore DEF PairingInv
<1> USE <1>c, PairingAssumption
    DEF PairingInv, CalmInv, OneTransaction, RequestPhase, UnpairPhase, Agree,
        Busy, RequestOpen, UnpairPending, Open, paired, pairing
<1>1. ASSUME NEW u \in Users, ReceivePair(u) PROVE CalmInv'
  BY <1>1 DEF ReceivePair, Idle
<1>2. CASE PairSetStatus
  BY <1>2 DEF PairSetStatus, TypeOK, Handler
<1>3. CASE PairSetShadow
  BY <1>3 DEF PairSetShadow, Idle
<1>4. CASE ReceiveUnpair
  BY <1>4, HeadTailProperties DEF ReceiveUnpair, TypeOK, Idle, Allowed
<1>5. CASE UnpairSetStatus
  BY <1>5 DEF UnpairSetStatus, TypeOK, Handler
<1>6. CASE UnpairClearUser
  BY <1>6 DEF UnpairClearUser, Idle
<1>7. ASSUME NEW r \in RequestIds, PressUnpair(r) PROVE CalmInv'
  BY <1>7 DEF PressUnpair, StartTransaction, TypeOK, Free
<1>8. CASE PressPair
  BY <1>8 DEF PressPair, StartTransaction
<1>9. CASE ButtonClaim
  BY <1>9 DEF ButtonClaim
<1>10. ASSUME NEW r \in RequestIds, ButtonPost(r) PROVE CalmInv'
  BY <1>10 DEF ButtonPost, TypeOK, Free
<1>11. ASSUME NEW r \in RequestIds, PostSucceeded(r) PROVE CalmInv'
  BY <1>11 DEF PostSucceeded, TypeOK, Free
<1>12. ASSUME NEW r \in RequestIds, DeleteSetStatus(r) PROVE CalmInv'
  BY <1>12 DEF DeleteSetStatus, TypeOK
<1>13. ASSUME NEW r \in RequestIds, DeleteClearUser(r) PROVE CalmInv'
  BY <1>13 DEF DeleteClearUser, TypeOK, Free
<1>14. ASSUME NEW r \in RequestIds, RequestFailed(r) PROVE CalmInv'
  <2>1. Agree
    BY <1>14 DEF RequestFailed, TypeOK, Request, PostRequest, DeleteRequest, Free
  <2>2. \A s \in RequestIds : requests'[s].state = "free"
    BY <1>14 DEF RequestFailed, TypeOK, Free
  <2>3. button = "idle" /\ ~UnpairPending
    BY <1>14 DEF RequestFailed
  <2> QED
    BY <1>14, <2>1, <2>2, <2>3 DEF RequestFailed
<1>15. ASSUME NEW r \in RequestIds, PlatformAccepts(r) PROVE CalmInv'
  <2>1. requests[r] \in PostRequest \/ requests[r] \in DeleteRequest
    BY <1>15 DEF PlatformAccepts, TypeOK, Request, Free
  <2>2. \A s \in RequestIds \ {r} : requests'[s] = requests[s] /\ ~Open(s)
    BY <1>15 DEF PlatformAccepts, TypeOK
  <2>3. Open(r) /\ Open(r)' /\ Busy'
    BY <1>15 DEF PlatformAccepts, TypeOK
  <2>4. OneTransaction' /\ UnpairPhase' /\ (button # "idle" => ~paired)'
    BY <1>15, <2>2, <2>3 DEF PlatformAccepts
  <2>5. RequestPhase(r)'
    <3>1. CASE requests[r] \in PostRequest
      <4>1. requests'[r] = [requests[r] EXCEPT !.state = "ok"]
        BY <1>15 DEF PlatformAccepts, TypeOK
      <4>2. requests[r].kind = "POST" /\ requests[r].state = "sent"
            /\ requests[r].user \in Users
        BY <1>15, <3>1 DEF PlatformAccepts, Obeys, PostRequest, MaybeUser
      <4> QED
        BY <1>15, <3>1, <4>1, <4>2 DEF PlatformAccepts, PostRequest
    <3>2. CASE requests[r] \in DeleteRequest
      <4>1. requests'[r] = [requests[r] EXCEPT !.state = "ok"]
        BY <1>15 DEF PlatformAccepts, TypeOK
      <4> QED
        BY <3>2, <4>1 DEF DeleteRequest
    <3> QED
      BY <2>1, <3>1, <3>2
  <2>6. \A s \in RequestIds : RequestPhase(s)'
    BY <2>2, <2>5
  <2> QED
    BY <2>3, <2>4, <2>6
<1>16. ASSUME NEW r \in RequestIds, PlatformRefuses(r) PROVE CalmInv'
  BY <1>16 DEF PlatformRefuses, TypeOK
<1>17. ASSUME NEW r \in RequestIds, ReplyLost(r) PROVE CalmInv'
  BY <1>17 DEF ReplyLost
<1>18. ASSUME NEW r \in RequestIds, OrphanArrives(r) PROVE CalmInv'
  BY <1>18 DEF OrphanArrives, TypeOK, Free
<1>19. CASE AppUnpair
  <2>1. ~Busy /\ inbox = <<>>
    BY <1>19 DEF AppUnpair, StartTransaction
  <2>2. platform_user \in Users
    BY <1>19 DEF AppUnpair, TypeOK, MaybeUser
  <2>3. inbox' = <<platform_user>>
    BY <1>19, <2>1 DEF AppUnpair
  <2>4. Len(inbox') = 1 /\ Head(inbox') = platform_user /\ inbox' # <<>>
    BY <2>2, <2>3
  <2> QED
    BY <1>19, <2>1, <2>4 DEF AppUnpair
<1>20. CASE Restart
  BY <1>20 DEF Restart, TypeOK, Idle, Free
<1>21. CASE UNCHANGED vars
  BY <1>21 DEF vars
<1> QED
  BY <1>1, <1>2, <1>3, <1>4, <1>5, <1>6, <1>7, <1>8, <1>9, <1>10, <1>11,
     <1>12, <1>13, <1>14, <1>15, <1>16, <1>17, <1>18, <1>19, <1>20, <1>21
     DEF Next, MqttStep, ButtonStep, CallbackStep, PlatformStep

----------------------------------------------------------------------------
(* The inductive invariant: types, the press behind every known user, and   *)
(* the agreement of the two owners while no transaction overlapped.        *)
THEOREM Invariance == Spec => []PairingInv
<1>1. PairingInv /\ [Next]_vars => PairingInv'
  BY StepTypeOK, StepClaim, StepCalm DEF PairingInv
<1> QED
  BY InitInv, <1>1, PTL DEF Spec

(* Types are kept whatever threads do to each other: set-status's assertion *)
(* on its argument never fails (pairing.clj).                              *)
THEOREM TypeCorrect == Spec => []TypeOK
<1>1. PairingInv => TypeOK
  BY DEF PairingInv
<1> QED
  BY Invariance, <1>1, PTL

(* For any number of users, requests and messages under way, a command of  *)
(* a user passes data/allowed? only if, since the last release, the button *)
(* was pressed on that user's offer, or that user's offer met the press.   *)
THEOREM Consent == Spec => []ConsentBeforeControl
<1>1. PairingInv => ConsentBeforeControl
  BY PairingAssumption DEF PairingInv, ClaimInv, ConsentBeforeControl, Allowed
<1> QED
  BY Invariance, <1>1, PTL

(* The Teleporter and the platform agree on the paired user whenever no    *)
(* transaction is open and none overlapped another.                        *)
THEOREM Agreement == Spec => []AgreementAtRest
<1>1. PairingInv => AgreementAtRest
  BY DEF PairingInv, CalmInv, Agree, AgreementAtRest
<1> QED
  BY Invariance, <1>1, PTL

(* A calm Teleporter starts to obey a user only while the platform records *)
(* that user.                                                              *)
THEOREM Adoption == Spec => AdoptsTheRegisteredUser
<1> DEFINE Adopts == owner' \in {owner, NoUser, platform_user'} \/ disturbed'
<1>1. PairingInv /\ [Next]_vars => [Adopts]_vars
  <2> SUFFICES ASSUME PairingInv, [Next]_vars, ~disturbed' PROVE Adopts
    OBVIOUS
  <2>c. ~disturbed
    BY CalmBefore DEF PairingInv
  <2> USE DEF owner, paired, PairingInv, TypeOK
  <2>1. ASSUME NEW r \in RequestIds, PostSucceeded(r) PROVE Adopts
    BY <2>1, <2>c DEF PostSucceeded, CalmInv, RequestPhase
  <2>2. CASE ButtonClaim
    BY <2>2, <2>c DEF ButtonClaim, CalmInv
  <2>3. CASE pair_status' \in {pair_status, "unpaired", "pairing"}
             /\ user_id' \in {user_id, NoUser}
    BY <2>3
  <2> QED
    BY <2>1, <2>2, <2>3
       DEF Next, MqttStep, ButtonStep, CallbackStep, PlatformStep, vars,
           ReceivePair, PairSetStatus, PairSetShadow, ReceiveUnpair,
           UnpairSetStatus, UnpairClearUser, PressUnpair, PressPair,
           ButtonPost, DeleteSetStatus, DeleteClearUser, RequestFailed,
           PlatformAccepts, PlatformRefuses, ReplyLost, OrphanArrives,
           AppUnpair, Restart
<1>2. [][Adopts]_vars => AdoptsTheRegisteredUser
  BY PTL DEF AdoptsTheRegisteredUser
<1> QED
  BY Invariance, <1>1, <1>2, PTL DEF Spec

\* The message that an unpair obeys is its owner's until the last write.
Asked == ~disturbed /\ mqtt.step \in {"unpair", "clear"} => user_id = mqtt.user

LEMMA StaysAsked == PairingInv /\ Asked /\ [Next]_vars => Asked'
<1> SUFFICES ASSUME PairingInv, Asked, [Next]_vars, ~disturbed',
                    mqtt'.step \in {"unpair", "clear"}
             PROVE  user_id' = mqtt'.user
  BY DEF Asked
<1>1. ~disturbed
  BY CalmBefore DEF PairingInv
<1>2. CASE ReceiveUnpair
  BY <1>2 DEF ReceiveUnpair, Allowed, Idle
<1>3. CASE ~ReceiveUnpair
  <2>1. mqtt.step \in {"unpair", "clear"} /\ mqtt'.user = mqtt.user
    BY <1>3
       DEF PairingInv, TypeOK, Handler, Idle, Next, MqttStep, ButtonStep,
           CallbackStep, PlatformStep, vars, ReceivePair, PairSetStatus,
           PairSetShadow, UnpairSetStatus, UnpairClearUser, PressUnpair,
           PressPair, ButtonClaim, ButtonPost, PostSucceeded, DeleteSetStatus,
           DeleteClearUser, RequestFailed, PlatformAccepts, PlatformRefuses,
           ReplyLost, OrphanArrives, AppUnpair, Restart
  <2>2. ~RequestOpen /\ button = "idle"
    BY <1>1, <2>1 DEF PairingInv, CalmInv, OneTransaction, UnpairPending
  <2>3. user_id' = user_id
    <3>1. ~UnpairClearUser /\ ~Restart
      BY DEF UnpairClearUser, Restart, Idle
    <3>2. ~ButtonClaim /\ \A r \in RequestIds : ~DeleteClearUser(r)
      BY <2>2 DEF ButtonClaim, DeleteClearUser, RequestOpen
    <3> QED
      BY <3>1, <3>2
         DEF Next, MqttStep, ButtonStep, CallbackStep, PlatformStep, vars,
             ReceivePair, PairSetStatus, PairSetShadow, ReceiveUnpair,
             UnpairSetStatus, PressUnpair, PressPair, ButtonPost,
             PostSucceeded, DeleteSetStatus, RequestFailed, PlatformAccepts,
             PlatformRefuses, ReplyLost, OrphanArrives, AppUnpair
  <2> QED
    BY <1>1, <2>1, <2>3 DEF Asked
<1> QED
  BY <1>2, <1>3

\* :pairing/unpair clears user-id* of the user its message names.
RemovesWhoAsked ==
    [][UnpairClearUser /\ ~disturbed => user_id = mqtt.user]_vars

(* The unpair message of mqtt/handler/pairing.clj removes the user it names *)
(* and nobody else, though the guard that compares the two is long over     *)
(* when user-id* is cleared: unless transactions overlapped, no press has   *)
(* claimed the Teleporter for another user in between.                     *)
THEOREM Removal == Spec => RemovesWhoAsked
<1>1. Init => Asked
  BY DEF Init, Asked, Idle
<1>2. PairingInv /\ Asked /\ [Next]_vars
        => [UnpairClearUser /\ ~disturbed => user_id = mqtt.user]_vars
  BY DEF Asked, UnpairClearUser
<1> QED
  BY Invariance, StaysAsked, <1>1, <1>2, PTL DEF Spec, RemovesWhoAsked
=============================================================================
