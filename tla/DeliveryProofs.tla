--------------------------- MODULE DeliveryProofs ---------------------------
(***************************************************************************)
(* The abstract specification of the event path keeps its promise.         *)
(***************************************************************************)
EXTENDS Delivery, TLAPS

DeliveryTypeOK ==
  /\ published \in Nat
  /\ waiting \subseteq Nat
  /\ started \subseteq Nat

DeliveryInv == DeliveryTypeOK /\ InOrderOnce

\* The promise is inductive once the variables have their types.
LEMMA DeliveryInvNext ==
  DeliveryInv /\ [DeliveryNext]_deliveryVars => DeliveryInv'
<1> SUFFICES ASSUME DeliveryInv, [DeliveryNext]_deliveryVars
             PROVE  DeliveryInv'
  OBVIOUS
<1> USE DEF DeliveryInv, DeliveryTypeOK, InOrderOnce
<1>1. CASE Send
  <2>1. published + 1 \in Nat /\ \A e \in waiting \union started : e <= published
    OBVIOUS
  <2>2. \A e \in started : e < published + 1 /\ e # published + 1
    BY <2>1
  <2> QED
    BY <1>1, <2>1, <2>2 DEF Send
<1>2. ASSUME NEW e \in waiting, Start(e)
      PROVE  DeliveryInv'
  BY <1>2 DEF Start
<1>3. ASSUME NEW lost \in SUBSET waiting, Lose(lost)
      PROVE  DeliveryInv'
  BY <1>3 DEF Lose
<1>4. CASE UNCHANGED deliveryVars
  BY <1>4 DEF deliveryVars
<1> QED
  BY <1>1, <1>2, <1>3, <1>4 DEF DeliveryNext

\* However events get lost, no event starts two executions, and none starts
\* after a later one: what queueReceiver.py and its queue are to provide.
THEOREM DeliveryKeepsOrder == DeliverySpec => []InOrderOnce
<1>1. DeliveryInit => DeliveryInv
  BY DEF DeliveryInit, DeliveryInv, DeliveryTypeOK, InOrderOnce
<1> QED
  BY <1>1, DeliveryInvNext, PTL DEF DeliverySpec, DeliveryInv
=============================================================================
